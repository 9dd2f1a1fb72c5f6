--------------------------- MODULE Plumber_proofs ---------------------------
(***************************************************************************)
(* Proofs about Plumber, for any nodes, pipes, readers, pipelines and      *)
(* scripts: pipes keep their writers and count them, no value is sent on   *)
(* the channel of a reader that is closed, and where pipelines lead to     *)
(* each pipe by one way, no reader gets a value twice or one that is not   *)
(* for it.                                                                 *)
(***************************************************************************)
EXTENDS Plumber, FiniteSetTheorems, WellFoundedInduction, TLAPS

----------------------------------------------------------------------------
(* Types. *)

HandlerState ==
    [pc : {"idle", "got", "answer", "locked", "writing", "dead"}, m : Message \cup {None},
     data : SUBSET (Readers \cup {ScheduleAll}), todo : SUBSET Readers]

ReaderState ==
    [pc : {"none", "open", "done", "gone"}, gen : Gens, got : SUBSET Contents,
     twice : SUBSET Contents]

LineState ==
    [pc : {"none", "registered", "started", "reading", "running", "ended"}, done : BOOLEAN,
     holds : Contents \cup {None}]

PipeType ==
    /\ gen \in [Nodes \X Pipes -> 0 .. MaxGen] /\ alive \in [Nodes \X Pipes -> BOOLEAN]
    /\ \A np \in Nodes \X Pipes : alive[np] => gen[np] \in Gens
    /\ obj \in [Objects -> Pipe]

ProcType == proc \in [Procs -> Proc]

(* A handler that works has a message. *)
HandlerType ==
    /\ handler \in [Nodes -> HandlerState]
    /\ \A n \in Nodes : handler[n].pc \notin {"idle", "dead"} => handler[n].m \in Message

UserType ==
    /\ cli \in [Nodes -> Commands \cup {None}] /\ script \subseteq Commands \cup Requests
    /\ reader \in [Readers -> ReaderState] /\ line \in [Pipelines -> LineState]
    /\ misuse \subseteq {"close", "send", "map"}

(* A value that goes by a via has one to go by. *)
ViaType == \A g \in Procs : proc[g].pc = "via" => obj[Own(g)].viaHost # None

LockType == plock \in [Nodes -> Procs \cup {Handler, Cli, None}]

TypeInv ==
    /\ PipeType /\ ProcType /\ HandlerType /\ UserType /\ ViaType /\ LockType
    /\ net \subseteq Message

(* Fields of goroutines, commands and messages. *)
LEMMA NoProcType == NoProc \in Proc
<1>1. (CHOOSE p \in Pipes : TRUE) \in Pipes
  BY NameAssumption
<1>2. 1 \in Gens
  BY BoundAssumption DEF Gens
<1>3. QED
  BY <1>1, <1>2 DEF NoProc, Proc, Contents

LEMMA ProcFields ==
    ASSUME ProcType, NEW g \in Procs
    PROVE  /\ g.node \in Nodes /\ g.name \in Contents \cup Pipelines
           /\ proc[g].pipe \in Pipes /\ proc[g].gen \in Gens /\ proc[g].v \in Contents
           /\ proc[g].r \in Readers \cup {ScheduleAll} /\ proc[g].todo \subseteq Readers
           /\ proc[g].wait \subseteq Nodes /\ proc[g].closed \in BOOLEAN
           /\ Own(g) \in Objects
  BY DEF ProcType, Procs, Proc, Own, Objects

LEMMA WriterIsProc ==
    ASSUME NEW l \in Pipelines
    PROVE  Writer(l) \in Procs /\ Writer(l).node = NodeOf[l] /\ NodeOf[l] \in Nodes
           /\ PipeOf[l] \in Pipes /\ Source[l] \in Readers
  BY PlaceAssumption DEF Writer, Procs

LEMMA ReaderPlace ==
    ASSUME NEW r \in Readers
    PROVE  NodeOf[r] \in Nodes /\ PipeOf[r] \in Pipes
  BY PlaceAssumption

LEMMA CommandFields ==
    ASSUME UserType, NEW n \in Nodes, cli[n] # None
    PROVE  /\ cli[n].pipe \in Pipes
           /\ cli[n].op = "write" => cli[n].arg \in Values
           /\ cli[n].op = "mode" => cli[n].arg \in Modes
           /\ cli[n].op = "via" => cli[n].arg \in BOOLEAN
<1>1. cli[n] \in Commands
  BY DEF UserType
<1>2. QED
  BY <1>1 DEF Commands

LEMMA MessageFields ==
    ASSUME NEW m \in Message
    PROVE  /\ m.to \in Nodes /\ m.from \in Nodes
           /\ m.type \in {"forward", "query", "response", "viawrite", "viahost"}
           /\ m.type # "response" => m.pipe \in Pipes
           /\ m.type \in {"forward", "viawrite"} => m.v \in Contents
           /\ m.type = "forward" => m.data \subseteq Readers \cup {ScheduleAll}
           /\ m.type \in {"query", "response"} => m.tid \in TIDs
           /\ m.type = "response" => m.readers \subseteq Readers
           /\ m.type = "viahost" => m.host \in Nodes \cup {None}
  BY DEF Message

LEMMA HandlerFields ==
    ASSUME HandlerType, NEW n \in Nodes, NEW pc, NEW type, Handles(n, pc, type),
           pc \notin {"idle", "dead"}
    PROVE  handler[n].m \in Message /\ handler[n].m.type = type /\ handler[n].pc = pc
           /\ handler[n].data \subseteq Readers \cup {ScheduleAll} /\ handler[n].todo \subseteq Readers
  BY DEF HandlerType, Handles, HandlerState

(* A pipe that is there or can be made has an object. *)
LEMMA ObjectIn ==
    ASSUME PipeType, NEW n \in Nodes, NEW p \in Pipes, alive[<<n, p>>] \/ Gen(n, p) \in Gens
    PROVE  Gen(n, p) \in Gens /\ Object(n, p) \in Objects
           /\ (alive[<<n, p>>] => Object(n, p) = <<n, p, gen[<<n, p>>]>>)
  BY DEF PipeType, Gen, Object, Objects

LEMMA MakeType ==
    ASSUME PipeType, NEW n \in Nodes, NEW p \in Pipes, Make(n, p)
    PROVE  /\ gen' \in [Nodes \X Pipes -> 0 .. MaxGen] /\ alive' \in [Nodes \X Pipes -> BOOLEAN]
           /\ \A np \in Nodes \X Pipes : alive'[np] => gen'[np] \in Gens
           /\ Gen(n, p) \in Gens /\ Object(n, p) \in Objects
<1>1. Gen(n, p) \in Gens
  BY DEF Make
<1>2. Gen(n, p) \in 0 .. MaxGen
  BY <1>1, BoundAssumption DEF Gens
<1>3. Object(n, p) \in Objects
  BY <1>1, ObjectIn
<1>4. gen' \in [Nodes \X Pipes -> 0 .. MaxGen] /\ alive' \in [Nodes \X Pipes -> BOOLEAN]
  BY <1>2 DEF Make, PipeType
<1>5. ASSUME NEW np \in Nodes \X Pipes, alive'[np] PROVE gen'[np] \in Gens
  <2>1. CASE np = <<n, p>>
    BY <1>1, <2>1 DEF Make, PipeType
  <2>2. CASE np # <<n, p>>
    BY <1>5, <2>2 DEF Make, PipeType
  <2>3. QED
    BY <2>1, <2>2
<1>6. QED
  BY <1>1, <1>3, <1>4, <1>5

(* The types are kept by the parts that actions share. *)
LEMMA GoType ==
    ASSUME ProcType, NEW g \in Procs, NEW pc, Go(g, pc),
           pc \in {"via", "schedule", "scheduling", "forward", "forwarding", "write"}
    PROVE  ProcType'
  BY DEF Go, ProcType, Proc

LEMMA IdleType ==
    ASSUME ProcType, NEW g \in Procs, Idle(g)
    PROVE  ProcType' /\ proc'[g].pc = "range"
<1> DEFINE i == [NoProc EXCEPT !.pc = "range", !.pipe = proc[g].pipe, !.gen = proc[g].gen,
                               !.closed = proc[g].closed]
<1>1. i \in Proc /\ i.pc = "range"
  BY NoProcType, ProcFields DEF Proc
<1>2. proc' = [proc EXCEPT ![g] = i]
  BY DEF Idle
<1> HIDE DEF i
<1>3. QED
  BY <1>1, <1>2 DEF ProcType

LEMMA NewWriterType ==
    ASSUME PipeType, ProcType, NEW n \in Nodes, NEW p \in Pipes, NEW v \in Contents, NewWriter(n, p, v)
    PROVE  PipeType' /\ ProcType'
<1> DEFINE g == [name |-> v, node |-> n]
           w == [NoProc EXCEPT !.pc = "check", !.pipe = p, !.gen = Gen(n, p), !.v = v,
                               !.closed = TRUE]
<1>1. Make(n, p)
  BY DEF NewWriter
<1>2. w \in Proc
  BY <1>1, NoProcType, MakeType DEF Proc, Contents
<1>3. g \in Procs /\ proc' = [proc EXCEPT ![g] = w]
  BY DEF NewWriter, Procs
<1>4. ProcType'
  <2> HIDE DEF g, w
  <2>1. QED
    BY <1>2, <1>3 DEF ProcType
<1>5. obj' = [obj EXCEPT ![Object(n, p)].numWriters = @ + 1]
  BY DEF NewWriter
<1>6. obj' \in [Objects -> Pipe]
  <2> DEFINE o == Object(n, p)
  <2>1. o \in Objects
    BY <1>1, MakeType
  <2> HIDE DEF o
  <2>2. obj[o] \in Pipe /\ obj[o].numWriters + 1 \in Nat
    BY <2>1 DEF PipeType, Pipe
  <2>3. [obj[o] EXCEPT !.numWriters = @ + 1] \in Pipe
    BY <2>2 DEF Pipe
  <2>4. obj' = [obj EXCEPT ![o] = [obj[o] EXCEPT !.numWriters = @ + 1]]
    BY <1>5 DEF o
  <2>5. QED
    BY <2>1, <2>3, <2>4 DEF PipeType
<1>7. QED
  BY <1>1, <1>4, <1>6, MakeType DEF PipeType

LEMMA NewReaderType ==
    ASSUME PipeType, UserType, NEW r \in Readers, NewReader(r)
    PROVE  PipeType' /\ reader' \in [Readers -> ReaderState] /\ misuse' \subseteq {"close", "send", "map"}
<1> DEFINE n == NodeOf[r]
           p == PipeOf[r]
<1>0. n \in Nodes /\ p \in Pipes
  BY ReaderPlace
<1>1. /\ Make(n, p) /\ obj' = [obj EXCEPT ![Object(n, p)].readers = @ \cup {r}]
      /\ reader' = [reader EXCEPT ![r].pc = "open", ![r].gen = Gen(n, p)]
      /\ misuse' = IF Unlocked(Object(n, p)) THEN misuse ELSE misuse \cup {"map"}
  BY DEF NewReader
<1> HIDE DEF n, p
<1>2. Gen(n, p) \in Gens /\ Object(n, p) \in Objects
  BY <1>0, <1>1, MakeType
<1>3. obj' \in [Objects -> Pipe]
  BY SMTT(40), <1>1, <1>2 DEF PipeType, Pipe
<1>4. PipeType'
  BY <1>0, <1>1, <1>3, MakeType DEF PipeType
<1>5. reader' \in [Readers -> ReaderState]
  BY ZenonT(40), <1>1, <1>2 DEF UserType, ReaderState
<1>6. misuse' \subseteq {"close", "send", "map"}
  BY <1>1 DEF UserType
<1>7. QED
  BY <1>4, <1>5, <1>6

LEMMA SendType ==
    ASSUME UserType, NEW r \in Readers, NEW v \in Contents, Send(r, v)
    PROVE  /\ reader' \in [Readers -> ReaderState] /\ line' \in [Pipelines -> LineState]
           /\ misuse' \subseteq {"close", "send", "map"}
<1>1. CASE reader[r].pc = "open"
  <2>1. /\ reader' = [reader EXCEPT ![r].got = @ \cup {v},
                                    ![r].twice = IF v \in reader[r].got THEN @ \cup {v} ELSE @]
        /\ line' = [l \in Pipelines |->
                      IF Source[l] = r THEN [line[l] EXCEPT !.holds = v] ELSE line[l]]
        /\ UNCHANGED misuse
    BY <1>1 DEF Send
  <2>2. reader' \in [Readers -> ReaderState]
    <3> DEFINE T == IF v \in reader[r].got THEN reader[r].twice \cup {v} ELSE reader[r].twice
    <3>1. reader[r] \in ReaderState
      BY DEF UserType
    <3>2. reader[r].got \cup {v} \in SUBSET Contents /\ T \in SUBSET Contents
      BY <3>1 DEF ReaderState
    <3>3. reader' = [reader EXCEPT ![r] = [reader[r] EXCEPT !.got = @ \cup {v}, !.twice = T]]
      BY <2>1, <3>1 DEF UserType, ReaderState
    <3> HIDE DEF T
    <3>4. [reader[r] EXCEPT !.got = @ \cup {v}, !.twice = T] \in ReaderState
      BY <3>1, <3>2 DEF ReaderState
    <3>5. QED
      BY <3>3, <3>4 DEF UserType
  <2>3. line' \in [Pipelines -> LineState]
    BY <2>1 DEF UserType, LineState
  <2>4. QED
    BY <2>1, <2>2, <2>3 DEF UserType
<1>2. CASE reader[r].pc # "open"
  BY <1>2 DEF Send, UserType
<1>3. QED
  BY <1>1, <1>2

(* Numbers: a set of them has a least one. *)
LessThan == {p \in Nat \X Nat : p[1] < p[2]}

LEMMA LeastNumber ==
    ASSUME NEW T \in SUBSET Nat, T # {}
    PROVE  Min(T) \in T
<1>1. IsWellFoundedOn(LessThan, Nat)
  BY NatLessThanWellFounded, Zenon DEF OpToRel, LessThan
<1>2. PICK x \in T : \A y \in T : ~ (<<y, x>> \in LessThan)
  BY <1>1, WFMin
<1>3. ASSUME NEW y \in T PROVE x <= y
  <2>1. y \in Nat /\ x \in Nat /\ ~ (<<y, x>> \in LessThan)
    BY <1>2
  <2>2. y < x => <<y, x>> \in LessThan
    BY <2>1 DEF LessThan
  <2>3. QED
    BY <2>1, <2>2
<1>4. QED
  BY <1>3 DEF Min

(* schedule chooses a reader, or all of them. *)
LEMMA ChoiceType ==
    ASSUME PipeType, NEW o \in Objects, NEW r \in Choice(o)
    PROVE  r \in Readers \cup {ScheduleAll}
<1> DEFINE S == obj[o].readers \cup obj[o].cache
           after == {k \in S : k > obj[o].last}
<1>1. S \subseteq Readers /\ S \in SUBSET Nat /\ after \in SUBSET Nat /\ after \subseteq S
  BY ReaderAssumption DEF PipeType, Pipe
<1>2. S # {} => Following(obj[o].last, S) \in Readers
  <2>1. S # {} => Min(S) \in S
    BY <1>1, LeastNumber
  <2>2. after # {} => Min(after) \in after
    BY <1>1, LeastNumber
  <2>3. QED
    BY <1>1, <2>1, <2>2 DEF Following
<1>3. QED
  BY <1>1, <1>2 DEF Choice

----------------------------------------------------------------------------
(* Every step keeps the types. *)

Typed == PipeType /\ ProcType /\ HandlerType /\ UserType /\ LockType /\ net \subseteq Message

(* What a step leaves alone keeps its type. *)
LEMMA Unchanged ==
    ASSUME Typed
    PROVE  /\ UNCHANGED pipesState => PipeType'
           /\ UNCHANGED proc => ProcType'
           /\ UNCHANGED handler => HandlerType'
           /\ UNCHANGED <<users, misuse>> => UserType'
           /\ UNCHANGED plock => LockType'
           /\ UNCHANGED net => net' \subseteq Message
  BY DEF Typed, PipeType, ProcType, HandlerType, UserType, LockType, pipesState, users

LEMMA LocksTyped ==
    ASSUME LockType, NEW n \in Nodes
    PROVE  /\ Unlock(n) => LockType'
           /\ \A who \in Procs \cup {Handler, Cli} : Lock(n, who) => LockType'
  BY DEF LockType, Unlock, Lock

(* Messages. *)
LEMMA MessageIn ==
    /\ \A k, n \in Nodes, p \in Pipes, g \in TIDs :
         [type |-> "query", to |-> k, from |-> n, pipe |-> p, tid |-> g] \in Message
    /\ \A k, n \in Nodes, g \in TIDs, R \in SUBSET Readers :
         [type |-> "response", to |-> k, from |-> n, tid |-> g, readers |-> R] \in Message
    /\ \A k, n \in Nodes, p \in Pipes, v \in Contents :
         [type |-> "viawrite", to |-> k, from |-> n, pipe |-> p, v |-> v] \in Message
    /\ \A k, n \in Nodes, p \in Pipes, h \in Nodes \cup {None} :
         [type |-> "viahost", to |-> k, from |-> n, pipe |-> p, host |-> h] \in Message
    /\ \A k, n \in Nodes, p \in Pipes, v \in Contents, D \in SUBSET (Readers \cup {ScheduleAll}) :
         [type |-> "forward", to |-> k, from |-> n, pipe |-> p, v |-> v, data |-> D] \in Message
  BY DEF Message

LEMMA BroadcastType ==
    ASSUME net \subseteq Message, NEW n \in Nodes, NEW m \in Message, Broadcast(n, m)
    PROVE  net' \subseteq Message
<1>1. ASSUME NEW k \in Nodes PROVE [m EXCEPT !.to = k] \in Message
  BY DEF Message
<1>2. QED
  BY <1>1 DEF Broadcast, Others

(* Commands. *)
LEMMA CommandTypes ==
    ASSUME Typed, NEW n \in Nodes, CommandStep(n) \/ \E c \in script : Command(c)
    PROVE  Typed'
<1> USE DEF Typed
<1>1. ASSUME NEW c \in script, Command(c) PROVE Typed'
  <2>1. c \in Commands /\ c.node \in Nodes
    BY <1>1 DEF Command, Commands
  <2>2. LockType'
    BY <1>1, <2>1, LocksTyped DEF Command
  <2>3. UserType'
    BY <1>1, <2>1 DEF Command, UserType
  <2>4. QED
    BY <1>1, <2>2, <2>3, Unchanged DEF Command
<1>2. ASSUME NEW op, Runs(n, op), Returns(n), UNCHANGED <<script, line, misuse>>,
             reader' \in [Readers -> ReaderState]
      PROVE  UserType' /\ LockType'
  <2>1. LockType'
    BY <1>2, LocksTyped DEF Returns
  <2>2. UserType'
    BY <1>2 DEF Returns, UserType
  <2>3. QED
    BY <2>1, <2>2
<1>3. UNCHANGED reader => reader' \in [Readers -> ReaderState]
  BY DEF UserType
<1>4. CASE CliWrite(n)
  <2>1. /\ Runs(n, "write") /\ Returns(n) /\ NewWriter(n, cli[n].pipe, cli[n].arg)
        /\ UNCHANGED <<handler, script, reader, line, net, misuse>>
    BY <1>4 DEF CliWrite
  <2>2. cli[n].pipe \in Pipes /\ cli[n].arg \in Contents
    BY <2>1, CommandFields DEF Runs, Contents
  <2>3. PipeType' /\ ProcType'
    BY <2>1, <2>2, NewWriterType
  <2>4. UserType' /\ LockType'
    BY <1>2, <1>3, <2>1
  <2>5. QED
    BY <2>1, <2>3, <2>4, Unchanged
<1>5. CASE CliMode(n)
  <2> DEFINE p == cli[n].pipe
  <2>1. /\ Runs(n, "mode") /\ Returns(n) /\ Make(n, p)
        /\ obj' = [obj EXCEPT ![Object(n, p)].mode = cli[n].arg]
        /\ UNCHANGED <<proc, handler, script, reader, line, net, misuse>>
    BY <1>5 DEF CliMode
  <2>2. p \in Pipes /\ cli[n].arg \in Modes
    BY <2>1, CommandFields DEF Runs
  <2> HIDE DEF p
  <2>3. obj' \in [Objects -> Pipe]
    <3>1. Object(n, p) \in Objects
      BY <2>1, <2>2, MakeType
    <3>2. QED
      BY <2>1, <2>2, <3>1 DEF PipeType, Pipe
  <2>4. PipeType'
    BY <2>1, <2>2, <2>3, MakeType DEF PipeType
  <2>5. UserType' /\ LockType'
    BY <1>2, <1>3, <2>1
  <2>6. QED
    BY <2>1, <2>4, <2>5, Unchanged
<1>6. CASE CliVia(n)
  <2> DEFINE p == cli[n].pipe
             h == IF cli[n].arg THEN n ELSE None
             m == [type |-> "viahost", to |-> n, from |-> n, pipe |-> p, host |-> h]
  <2>1. /\ Runs(n, "via") /\ Returns(n) /\ Make(n, p) /\ Broadcast(n, m)
        /\ obj' = [obj EXCEPT ![Object(n, p)].via = cli[n].arg, ![Object(n, p)].viaHost = n]
        /\ UNCHANGED <<proc, handler, script, reader, line, misuse>>
    BY <1>6 DEF CliVia
  <2>2. p \in Pipes /\ cli[n].arg \in BOOLEAN
    BY <2>1, CommandFields DEF Runs
  <2>m. m \in Message
    BY <2>2, MessageIn
  <2> HIDE DEF p, m, h
  <2>3. obj' \in [Objects -> Pipe]
    <3>1. Object(n, p) \in Objects
      BY <2>1, <2>2, MakeType
    <3> DEFINE o == Object(n, p)
               w == [obj[o] EXCEPT !.via = cli[n].arg, !.viaHost = n]
    <3>2. obj[o] \in Pipe
      BY <3>1 DEF PipeType
    <3>3. w \in Pipe
      BY <2>2, <3>2 DEF Pipe
    <3>4. obj' = [obj EXCEPT ![o] = w]
      BY <2>1, <3>1 DEF PipeType
    <3> HIDE DEF o, w
    <3>5. QED
      BY <3>3, <3>4 DEF PipeType
  <2>4. PipeType'
    BY <2>1, <2>2, <2>3, MakeType DEF PipeType
  <2>5. UserType' /\ LockType'
    BY <1>2, <1>3, <2>1
  <2>6. net' \subseteq Message
    BY <2>1, <2>m, BroadcastType
  <2>7. QED
    BY <2>1, <2>4, <2>5, <2>6, Unchanged
<1>7. CASE CliDelete(n)
  <2> DEFINE p == cli[n].pipe
             o == Object(n, p)
  <2>1. /\ Runs(n, "delete") /\ Returns(n) /\ UNCHANGED <<gen, obj, proc, handler, script, line, net, misuse>>
        /\ \/ UNCHANGED <<alive, reader>>
           \/ /\ alive' = [alive EXCEPT ![<<n, p>>] = FALSE]
              /\ reader' = [r \in Readers |-> IF r \in obj[o].readers /\ reader[r].pc = "open"
                               THEN [reader[r] EXCEPT !.pc = "done"] ELSE reader[r]]
    BY <1>7 DEF CliDelete
  <2>2. p \in Pipes
    BY <2>1, CommandFields DEF Runs
  <2> HIDE DEF p, o
  <2>3. PipeType'
    BY <2>1, <2>2 DEF PipeType
  <2>4. reader' \in [Readers -> ReaderState]
    BY SMTT(40), <2>1 DEF UserType, ReaderState
  <2>5. UserType' /\ LockType'
    BY <1>2, <2>1, <2>4
  <2>6. QED
    BY <2>1, <2>3, <2>5, Unchanged
<1>8. QED
  BY <1>1, <1>4, <1>5, <1>6, <1>7 DEF CommandStep

(* Readers. *)
LEMMA ReaderTypes ==
    ASSUME Typed, NEW r \in Readers, OpenReader(r) \/ CloseReader(r) \/ ReaderGone(r)
    PROVE  Typed'
<1> USE DEF Typed
<1>1. CASE OpenReader(r)
  <2>1. PipeType' /\ reader' \in [Readers -> ReaderState]
        /\ misuse' \subseteq {"close", "send", "map"}
    BY <1>1, NewReaderType DEF OpenReader
  <2>2. UserType'
    BY <1>1, <2>1 DEF OpenReader, Asked, UserType
  <2>3. QED
    BY <1>1, <2>1, <2>2, Unchanged DEF OpenReader
<1>2. CASE CloseReader(r)
  <2>1. UserType'
    BY <1>2 DEF CloseReader, Asked, UserType, ReaderState
  <2>2. QED
    BY <1>2, <2>1, Unchanged DEF CloseReader
<1>3. CASE ReaderGone(r)
  <2>1. OwnOf(r) \in Objects
    BY ReaderPlace DEF UserType, ReaderState, OwnOf, Objects
  <2>2. PipeType'
    BY <1>3, <2>1 DEF ReaderGone, PipeType, Pipe
  <2>3. UserType'
    BY <1>3 DEF ReaderGone, UserType, ReaderState
  <2>4. QED
    BY <1>3, <2>2, <2>3, Unchanged DEF ReaderGone
<1>4. QED
  BY <1>1, <1>2, <1>3

(* The end of a pipeline keeps the type of its state. *)
LEMMA LineDone ==
    ASSUME NEW x \in [Pipelines -> LineState], NEW l \in Pipelines
    PROVE  [x EXCEPT ![l].done = TRUE] \in [Pipelines -> LineState]
  BY DEF LineState

(* Pipelines. *)
LEMMA PipelineTypes ==
    ASSUME Typed, NEW l \in Pipelines, Plumb(l) \/ PipelineDelete(l) \/ PipelineStep(l)
    PROVE  Typed'
<1> USE DEF Typed
<1>w. Writer(l) \in Procs /\ NodeOf[l] \in Nodes /\ PipeOf[l] \in Pipes /\ Source[l] \in Readers
  BY WriterIsProc
<1>1. CASE Plumb(l)
  <2>1. UserType'
    BY <1>1 DEF Plumb, Asked, UserType, LineState
  <2>2. QED
    BY <1>1, <2>1, Unchanged DEF Plumb
<1>2. CASE PipelineDelete(l)
  <2>a. line' = [line EXCEPT ![l].done = TRUE]
    BY <1>2 DEF PipelineDelete
  <2>b. line' \in [Pipelines -> LineState]
    BY <2>a, LineDone DEF UserType
  <2>c. misuse' \subseteq {"close", "send", "map"}
    BY <1>2 DEF PipelineDelete, UserType
  <2>1. UserType'
    BY <1>2, <2>b, <2>c DEF PipelineDelete, Asked, UserType
  <2>2. QED
    BY <1>2, <2>1, Unchanged DEF PipelineDelete
<1>3. CASE StartPipeline(l)
  <2>1. UserType'
    BY <1>3 DEF StartPipeline, UserType, LineState
  <2>2. QED
    BY <1>3, <2>1, Unchanged DEF StartPipeline
<1>4. CASE StartReader(l)
  <2>1. PipeType' /\ reader' \in [Readers -> ReaderState]
        /\ misuse' \subseteq {"close", "send", "map"}
    BY <1>4, <1>w, NewReaderType DEF StartReader
  <2>2. UserType'
    BY <1>4, <2>1 DEF StartReader, UserType, LineState
  <2>3. ProcType'
    BY <1>4, <1>w DEF StartReader, ProcType, Proc
  <2>4. QED
    BY <1>4, <2>1, <2>2, <2>3, Unchanged DEF StartReader
<1>5. CASE StartWriterLock(l)
  <2>1. ProcType'
    BY <1>5, <1>w DEF StartWriterLock, ProcType, Proc
  <2>2. LockType'
    BY <1>5, <1>w, LocksTyped DEF StartWriterLock
  <2>3. QED
    BY <1>5, <2>1, <2>2, Unchanged DEF StartWriterLock
<1>6. CASE StartWriter(l)
  <2> DEFINE n == NodeOf[l]
             p == PipeOf[l]
             w == [NoProc EXCEPT !.pc = "range", !.pipe = p, !.gen = Gen(n, p)]
  <2>1. /\ Make(n, p) /\ obj' = [obj EXCEPT ![Object(n, p)].numWriters = @ + 1]
        /\ proc' = [proc EXCEPT ![Writer(l)] = w] /\ Unlock(n)
        /\ line' = [line EXCEPT ![l].pc = "running"]
        /\ UNCHANGED <<handler, cli, script, reader, net, misuse>>
    BY <1>6 DEF StartWriter
  <2>2. Gen(n, p) \in Gens /\ Object(n, p) \in Objects
    BY <1>w, <2>1, MakeType
  <2>3. w \in Proc
    BY <1>w, <2>2, NoProcType DEF Proc
  <2>4. LockType'
    BY <1>w, <2>1, LocksTyped
  <2>5. UserType'
    BY <2>1 DEF UserType, LineState
  <2> HIDE DEF w, n, p
  <2>6. ProcType'
    BY <1>w, <2>1, <2>3 DEF ProcType
  <2>7. obj' \in [Objects -> Pipe]
    <3> DEFINE o == Object(n, p)
    <3>1. o \in Objects /\ obj' = [obj EXCEPT ![o].numWriters = @ + 1]
      BY <2>1, <2>2
    <3> HIDE DEF o
    <3>2. obj[o] \in Pipe /\ obj[o].numWriters + 1 \in Nat
      BY <3>1 DEF PipeType, Pipe
    <3>3. [obj[o] EXCEPT !.numWriters = @ + 1] \in Pipe
      BY <3>2 DEF Pipe
    <3>4. QED
      BY <3>1, <3>3 DEF PipeType
  <2>8. PipeType'
    BY <1>w, <2>1, <2>7, MakeType DEF PipeType, n, p
  <2>9. QED
    BY <2>1, <2>4, <2>5, <2>6, <2>8, Unchanged
<1>7. CASE WatchReader(l)
  <2>1. UserType'
    <3>a. line' = [line EXCEPT ![l].done = TRUE]
      BY <1>7 DEF WatchReader
    <3>1. line' \in [Pipelines -> LineState]
      BY <3>a, LineDone DEF UserType
    <3>2. reader' \in [Readers -> ReaderState]
      BY <1>7, <1>w DEF WatchReader, UserType, ReaderState
    <3>3. QED
      BY <1>7, <3>1, <3>2 DEF WatchReader, UserType
  <2>2. QED
    BY <1>7, <2>1, Unchanged DEF WatchReader
<1>8. CASE ReadClosed(l)
  <2>1. UserType'
    BY <1>8 DEF ReadClosed, UserType, LineState, Contents
  <2>2. QED
    BY <1>8, <2>1, Unchanged DEF ReadClosed
<1>9. CASE PassOn(l)
  <2>1. line[l].holds \in Contents
    BY <1>9 DEF PassOn, UserType, LineState
  <2>2. ProcType'
    <3> DEFINE g == Writer(l)
               w == [proc[g] EXCEPT !.pc = "check", !.v = line[l].holds]
    <3>1. proc[g] \in Proc
      BY <1>w DEF ProcType
    <3>2. w \in Proc
      BY <2>1, <3>1 DEF Proc
    <3>3. proc' = [proc EXCEPT ![g] = w]
      BY <1>9, <1>w DEF PassOn, ProcType
    <3> HIDE DEF g, w
    <3>4. QED
      BY <3>2, <3>3 DEF ProcType
  <2>3. UserType'
    BY <1>9 DEF PassOn, UserType, LineState
  <2>4. QED
    BY <1>9, <2>2, <2>3, Unchanged DEF PassOn
<1>10. CASE StopPassing(l)
  <2>1. ProcType'
    <3> DEFINE g == Writer(l)
               w == [proc[g] EXCEPT !.closed = TRUE]
    <3>1. proc[g] \in Proc
      BY <1>w DEF ProcType
    <3>2. w \in Proc
      BY <3>1 DEF Proc
    <3>3. proc' = [proc EXCEPT ![g] = w]
      BY <1>10, <1>w DEF StopPassing, ProcType
    <3> HIDE DEF g, w
    <3>4. QED
      BY <3>2, <3>3 DEF ProcType
  <2>2. UserType'
    BY ZenonT(40), <1>10 DEF StopPassing, UserType, LineState
  <2>3. QED
    BY <1>10, <2>1, <2>2, Unchanged DEF StopPassing
<1>11. QED
  BY <1>1, <1>2, <1>3, <1>4, <1>5, <1>6, <1>7, <1>8, <1>9, <1>10 DEF PipelineStep

(* The writers of a pipe are finitely many, and counted. *)
WritersOf(o) == {g \in Procs : Writing(g) /\ Own(g) = o}

CountInv == \A o \in Objects :
    IsFiniteSet(WritersOf(o)) /\ obj[o].numWriters = Cardinality(WritersOf(o))

(* A writer that is open has its pipe. *)
LEMMA NowIsOwn ==
    ASSUME Typed, WritersHavePipe, NEW g \in Procs, Writing(g)
    PROVE  /\ Now(g) = Own(g) /\ Own(g) \in Objects /\ alive[<<g.node, proc[g].pipe>>]
           /\ obj[Own(g)] \in Pipe
<1>1. alive[<<g.node, proc[g].pipe>>] /\ gen[<<g.node, proc[g].pipe>>] = proc[g].gen
  BY DEF WritersHavePipe
<1>2. Own(g) \in Objects
  BY ProcFields DEF Typed
<1>3. obj[Own(g)] \in Pipe
  BY <1>2 DEF Typed, PipeType
<1>4. QED
  BY <1>1, <1>2, <1>3 DEF Now, Own, Object, Gen

(* Changes of one field. *)
LEMMA ProcSet ==
    ASSUME ProcType, NEW g \in Procs, NEW w \in Proc, proc' = [proc EXCEPT ![g] = w]
    PROVE  ProcType'
  BY DEF ProcType

LEMMA ObjSet ==
    ASSUME PipeType, NEW o \in Objects, NEW w \in Pipe, obj' = [obj EXCEPT ![o] = w],
           UNCHANGED <<gen, alive>>
    PROVE  PipeType'
  BY DEF PipeType

LEMMA LockSet ==
    ASSUME PipeType, NEW o \in Objects, NEW who \in Procs \cup {Handler, None},
           obj' = [obj EXCEPT ![o].lock = who], UNCHANGED <<gen, alive>>
    PROVE  PipeType'
  BY SMTT(40) DEF PipeType, Pipe

LEMMA QueryTypes ==
    ASSUME Typed, WritersHavePipe, NEW g \in Procs, Writing(g), NEW pc \in {"query", "requery"},
           Query(g, pc), UNCHANGED <<gen, alive>>
    PROVE  PipeType' /\ ProcType' /\ net' \subseteq Message /\ LockType'
<1> USE DEF Typed
<1>1. Now(g) = Own(g) /\ Own(g) \in Objects /\ obj[Own(g)] \in Pipe
  BY NowIsOwn
<1> DEFINE o == Own(g)
           w == [obj[o] EXCEPT !.lock = g, !.cache = {}]
           q == [proc[g] EXCEPT !.pc = pc, !.wait = Others(g.node)]
           m == [type |-> "query", to |-> g.node, from |-> g.node, pipe |-> proc[g].pipe, tid |-> g]
<1>2. w \in Pipe
  BY <1>1 DEF Pipe
<1>3. obj' = [obj EXCEPT ![o] = w]
  BY <1>1 DEF Query, PipeType
<1>4. proc[g] \in Proc /\ g.node \in Nodes /\ proc[g].pipe \in Pipes
  BY ProcFields DEF ProcType
<1>5. q \in Proc
  BY <1>4 DEF Proc, Others
<1>6. proc' = [proc EXCEPT ![g] = q]
  BY DEF Query, ProcType
<1>7. m \in Message /\ Broadcast(g.node, m)
  BY <1>4, MessageIn DEF Query, TIDs
<1>8. LockType'
  BY DEF Query, LockType
<1> HIDE DEF o, w, q, m
<1>9. PipeType'
  BY <1>1, <1>2, <1>3, ObjSet DEF o
<1>10. ProcType'
  BY <1>5, <1>6, ProcSet
<1>11. net' \subseteq Message
  BY <1>4, <1>7, BroadcastType
<1>12. QED
  BY <1>8, <1>9, <1>10, <1>11

LEMMA ForwardsType ==
    ASSUME Typed, NEW g \in Procs, NEW data \in SUBSET (Readers \cup {ScheduleAll}),
           Forwards(g, data)
    PROVE  ProcType' /\ net' \subseteq Message /\ LockType'
<1> USE DEF Typed
<1> DEFINE m == [type |-> "forward", to |-> g.node, from |-> g.node, pipe |-> proc[g].pipe,
                 v |-> proc[g].v, data |-> data]
<1>1. g.node \in Nodes /\ proc[g].pipe \in Pipes /\ proc[g].v \in Contents
  BY ProcFields
<1>2. m \in Message /\ Broadcast(g.node, m)
  BY <1>1, MessageIn DEF Forwards
<1> HIDE DEF m
<1>3. net' \subseteq Message
  BY <1>1, <1>2, BroadcastType
<1>4. ProcType'
  BY GoType DEF Forwards
<1>5. LockType'
  BY <1>1, LocksTyped DEF Forwards
<1>6. QED
  BY <1>3, <1>4, <1>5

LEMMA ViaFailsType ==
    ASSUME Typed, NEW g \in Procs, ViaFails(g)
    PROVE  ProcType' /\ net' \subseteq Message /\ LockType'
<1> USE DEF Typed
<1>1. g.node \in Nodes
  BY ProcFields
<1>2. ProcType'
  BY IdleType DEF ViaFails
<1>3. LockType'
  BY <1>1, LocksTyped DEF ViaFails
<1>4. QED
  BY <1>2, <1>3, Unchanged DEF ViaFails

LEMMA NoSuchPipeType ==
    ASSUME Typed, NEW g \in Procs, NoSuchPipe(g), UNCHANGED <<gen, alive>>
    PROVE  PipeType' /\ ProcType' /\ net' \subseteq Message /\ LockType'
<1> USE DEF Typed
<1>1. g.node \in Nodes
  BY ProcFields
<1>2. ProcType'
  BY IdleType DEF NoSuchPipe
<1>3. LockType'
  BY <1>1, LocksTyped DEF NoSuchPipe
<1>4. PipeType'
  BY Unchanged DEF NoSuchPipe, pipesState
<1>5. QED
  BY <1>2, <1>3, <1>4, Unchanged DEF NoSuchPipe

(* Writers. *)
LEMMA WriterTypes ==
    ASSUME Typed, ViaType, WritersHavePipe, CountInv, NEW g \in Procs, WriterStep(g)
    PROVE  Typed'
<1> USE DEF Typed
<1>g. /\ g.node \in Nodes /\ proc[g].pipe \in Pipes /\ proc[g].v \in Contents
      /\ proc[g].r \in Readers \cup {ScheduleAll} /\ Own(g) \in Objects
      /\ proc[g] \in Proc /\ obj[Own(g)] \in Pipe
  BY ProcFields DEF ProcType, PipeType
<1>n. Writing(g) => Now(g) = Own(g)
  BY NowIsOwn
<1>1. CASE Check(g)
  <2> DEFINE pc == IF obj[Own(g)].viaHost \notin {None, g.node} THEN "via" ELSE "schedule"
  <2>1. Go(g, pc) /\ pc \in {"via", "schedule"}
    BY <1>1 DEF Check
  <2> HIDE DEF pc
  <2>2. ProcType'
    BY <2>1, GoType
  <2>3. QED
    BY <1>1, <2>2, Unchanged DEF Check
<1>2. CASE ViaWrite(g)
  <2> DEFINE host == obj[Own(g)].viaHost
             m == [type |-> "viawrite", to |-> host, from |-> g.node, pipe |-> proc[g].pipe,
                   v |-> proc[g].v]
  <2>1. host \in Nodes
    BY <1>2, <1>g DEF ViaWrite, At, ViaType, Pipe
  <2>2. m \in Message
    BY <1>g, <2>1, MessageIn
  <2>3. net' = IF host = g.node THEN net ELSE net \cup {m}
    BY <1>2 DEF ViaWrite
  <2> HIDE DEF m, host
  <2>4. net' \subseteq Message
    BY <2>2, <2>3
  <2>5. ProcType'
    BY <1>2, IdleType DEF ViaWrite
  <2>6. QED
    BY <1>2, <2>4, <2>5, Unchanged DEF ViaWrite
<1>3. CASE ScheduleLock(g)
  <2>1. ProcType'
    BY <1>3, GoType DEF ScheduleLock
  <2>2. LockType'
    BY <1>3, <1>g, LocksTyped DEF ScheduleLock
  <2>3. QED
    BY <1>3, <2>1, <2>2, Unchanged DEF ScheduleLock
<1>4. CASE Schedule(g)
  <2>0. UNCHANGED <<gen, alive, handler, users, misuse>> /\ Writing(g)
    BY <1>4 DEF Schedule, At, Writing
  <2>1. CASE NoSuchPipe(g)
    BY <2>0, <2>1, NoSuchPipeType, Unchanged
  <2>2. CASE /\ proc' = [proc EXCEPT ![g].pc = "forward", ![g].r = ScheduleAll]
             /\ Unlock(g.node) /\ UNCHANGED <<obj, net>>
    <3>1. ProcType'
      BY <2>2, <1>g DEF ProcType, Proc
    <3>2. LockType'
      BY <2>2, <1>g, LocksTyped
    <3>3. PipeType'
      BY <2>0, <2>2, Unchanged DEF pipesState
    <3>4. QED
      BY <2>0, <2>2, <3>1, <3>2, <3>3, Unchanged
  <2>3. CASE Query(g, "query")
    BY <2>0, <2>3, QueryTypes, Unchanged
  <2>4. QED
    BY <1>4, <2>1, <2>2, <2>3 DEF Schedule
<1>5. CASE Queried(g)
  <2>0. UNCHANGED <<gen, alive, handler, users, net, misuse>> /\ Writing(g) /\ Unlock(g.node)
    BY <1>5 DEF Queried, At, Writing
  <2> DEFINE o == Own(g)
  <2>1. PICK r \in Choice(o) :
          /\ proc' = [proc EXCEPT ![g].pc = "forward", ![g].r = r]
          /\ obj' = [obj EXCEPT ![o].lock = None,
                                ![o].last = IF obj[o].mode = "rr" /\ r # ScheduleAll THEN r ELSE @]
    BY <1>5, <1>n, <2>0 DEF Queried
  <2>2. r \in Readers \cup {ScheduleAll}
    BY <1>g, <2>1, ChoiceType
  <2>3. ProcType'
    BY <1>g, <2>1, <2>2 DEF ProcType, Proc
  <2> DEFINE L == IF obj[o].mode = "rr" /\ r # ScheduleAll THEN r ELSE obj[o].last
             w == [obj[o] EXCEPT !.lock = None, !.last = L]
  <2>4. L \in Readers \cup {0}
    BY <1>g, <2>2 DEF Pipe
  <2>5. w \in Pipe
    BY <1>g, <2>4 DEF Pipe
  <2>6. obj' = [obj EXCEPT ![o] = w]
    BY <1>g, <2>1 DEF PipeType, Pipe
  <2> HIDE DEF w, L
  <2>7. PipeType'
    BY <1>g, <2>0, <2>5, <2>6, ObjSet
  <2>8. LockType'
    BY <1>g, <2>0, LocksTyped
  <2>9. QED
    BY <2>0, <2>3, <2>7, <2>8, Unchanged
<1>6. CASE Timeout(g)
  <2>0. /\ UNCHANGED <<gen, alive, users, misuse>> /\ Writing(g) /\ Unlock(g.node) /\ Idle(g)
        /\ obj' = [obj EXCEPT ![Own(g)].lock = None]
    BY <1>6, <1>n DEF Timeout, Writing
  <2>1. ASSUME NEW m \in Message PROVE Over(g, m) \in Message
    BY DEF Over, Message, TIDs
  <2>2. net' \subseteq Message
    BY <1>6, <2>1 DEF Timeout
  <2>3. HandlerType'
    <3>1. handler' = [n \in Nodes |-> IF handler[n].m = None THEN handler[n]
                                      ELSE [handler[n] EXCEPT !.m = Over(g, @)]]
      BY <1>6 DEF Timeout
    <3>2. ASSUME NEW n \in Nodes
          PROVE  handler'[n] \in HandlerState
                 /\ (handler'[n].pc \notin {"idle", "dead"} => handler'[n].m \in Message)
      <4>1. CASE handler[n].m = None
        BY <3>1, <4>1 DEF HandlerType
      <4>2. CASE handler[n].m # None
        <5> DEFINE x == Over(g, handler[n].m)
        <5>1. handler[n] \in HandlerState /\ handler[n].m \in Message
          BY <4>2 DEF HandlerType, HandlerState
        <5>2. x \in Message
          BY <2>1, <5>1
        <5>3. handler'[n] = [handler[n] EXCEPT !.m = x]
          BY <3>1, <4>2
        <5> HIDE DEF x
        <5>4. QED
          BY <5>1, <5>2, <5>3 DEF HandlerState
      <4>3. QED
        BY <4>1, <4>2
    <3>3. handler' \in [Nodes -> HandlerState]
      <4>1. handler' = [n \in Nodes |-> handler'[n]]
        BY <3>1
      <4>2. QED
        BY <3>2, <4>1
    <3>4. QED
      BY <3>2, <3>3 DEF HandlerType
  <2>4. ProcType'
    BY <2>0, IdleType
  <2>5. PipeType'
    BY <1>g, <2>0, LockSet
  <2>6. LockType'
    BY <1>g, <2>0, LocksTyped
  <2>7. QED
    BY <2>0, <2>2, <2>3, <2>4, <2>5, <2>6, Unchanged
<1>7. CASE ForwardLock(g)
  <2>1. ProcType'
    BY <1>7, GoType DEF ForwardLock
  <2>2. LockType'
    BY <1>7, <1>g, LocksTyped DEF ForwardLock
  <2>3. QED
    BY <1>7, <2>1, <2>2, Unchanged DEF ForwardLock
<1>c. obj[Own(g)].cache \in SUBSET (Readers \cup {ScheduleAll})
      /\ {proc[g].r} \in SUBSET (Readers \cup {ScheduleAll})
  BY <1>g DEF Pipe
<1>8. CASE Forward(g)
  <2>0. UNCHANGED <<gen, alive, handler, users, misuse>> /\ Writing(g)
    BY <1>8 DEF Forward, At, Writing
  <2>1. CASE NoSuchPipe(g)
    BY <2>0, <2>1, NoSuchPipeType, Unchanged
  <2>2. CASE (Forwards(g, {proc[g].r}) \/ Forwards(g, obj[Own(g)].cache) \/ ViaFails(g)) /\ UNCHANGED obj
    <3>1. ProcType' /\ net' \subseteq Message /\ LockType'
      BY <1>c, <2>2, ForwardsType, ViaFailsType
    <3>2. PipeType'
      BY <2>0, <2>2, Unchanged DEF pipesState
    <3>3. QED
      BY <2>0, <3>1, <3>2, Unchanged
  <2>3. CASE Query(g, "requery")
    BY <2>0, <2>3, QueryTypes, Unchanged
  <2>4. QED
    BY <1>8, <1>n, <2>0, <2>1, <2>2, <2>3 DEF Forward
<1>9. CASE Requeried(g)
  <2>0. /\ UNCHANGED <<gen, alive, handler, users, misuse>> /\ Writing(g)
        /\ obj' = [obj EXCEPT ![Own(g)].lock = None]
        /\ Forwards(g, obj[Own(g)].cache) \/ ViaFails(g)
    BY <1>9, <1>n DEF Requeried, At, Writing
  <2>1. ProcType' /\ net' \subseteq Message /\ LockType'
    BY <1>c, <2>0, ForwardsType, ViaFailsType
  <2>2. PipeType'
    BY <1>g, <2>0, LockSet
  <2>3. QED
    BY <2>0, <2>1, <2>2, Unchanged
<1>10. CASE WriteLock(g)
  <2> DEFINE T == Recipients(Own(g), proc[g].r)
             w == [proc[g] EXCEPT !.pc = "writing", !.todo = T]
  <2>1. T \subseteq Readers
    BY <1>g DEF Recipients, Pipe
  <2>2. w \in Proc
    BY <1>g, <2>1 DEF Proc
  <2>3. proc' = [proc EXCEPT ![g] = w]
    BY <1>10 DEF WriteLock, ProcType
  <2> HIDE DEF T, w
  <2>4. ProcType'
    BY <2>2, <2>3, ProcSet
  <2>5. PipeType'
    BY <1>10, <1>g, LockSet DEF WriteLock
  <2>6. QED
    BY <1>10, <2>4, <2>5, Unchanged DEF WriteLock
<1>11. ASSUME NEW r \in Readers, WriteTo(g, r) PROVE Typed'
  <2> DEFINE w == [proc[g] EXCEPT !.todo = @ \ {r}]
  <2>1. w \in Proc
    BY <1>g DEF Proc
  <2>2. proc' = [proc EXCEPT ![g] = w]
    BY <1>11 DEF WriteTo, ProcType
  <2> HIDE DEF w
  <2>3. ProcType'
    BY <2>1, <2>2, ProcSet
  <2>4. Send(r, proc[g].v) /\ UNCHANGED <<pipesState, plock, handler, cli, script, net>>
    BY <1>11 DEF WriteTo
  <2>5. UserType'
    BY <1>g, <2>4, SendType DEF UserType
  <2>6. QED
    BY <2>3, <2>4, <2>5, Unchanged
<1>12. CASE WriteEnd(g)
  <2>1. ProcType'
    BY <1>12, IdleType DEF WriteEnd
  <2>2. PipeType'
    BY <1>12, <1>g, LockSet DEF WriteEnd
  <2>3. QED
    BY <1>12, <2>1, <2>2, Unchanged DEF WriteEnd
<1>13. CASE CloseWriter(g)
  <2> DEFINE o == Own(g)
             w == [obj[o] EXCEPT !.numWriters = @ - 1]
  <2>1. g \in WritersOf(o)
    BY <1>13 DEF CloseWriter, At, Writing, WritersOf
  <2>2. obj[o].numWriters \in Nat /\ obj[o].numWriters # 0
    <3>1. IsFiniteSet(WritersOf(o)) /\ obj[o].numWriters = Cardinality(WritersOf(o))
      BY <1>g DEF CountInv
    <3>2. QED
      BY <2>1, <3>1, FS_CardinalityType, FS_EmptySet
  <2>3. obj[o].numWriters - 1 \in Nat
    BY <2>2
  <2>4. w \in Pipe
    BY <1>g, <2>3 DEF Pipe
  <2>5. obj' = [obj EXCEPT ![o] = w]
    BY <1>13, <1>g DEF CloseWriter, PipeType
  <2> HIDE DEF w
  <2>6. PipeType'
    BY <1>13, <1>g, <2>4, <2>5, ObjSet DEF CloseWriter
  <2>7. ProcType'
    BY <1>13, NoProcType, ProcSet DEF CloseWriter
  <2>8. QED
    BY <1>13, <2>6, <2>7, Unchanged DEF CloseWriter
<1>14. QED
  BY <1>1, <1>2, <1>3, <1>4, <1>5, <1>6, <1>7, <1>8, <1>9, <1>10, <1>11, <1>12, <1>13
  DEF WriterStep

(* handleMessages. *)
LEMMA IdleHandlerType == IdleHandler \in HandlerState /\ IdleHandler.pc = "idle"
  BY DEF IdleHandler, HandlerState

LEMMA HandlerSet ==
    ASSUME HandlerType, NEW n \in Nodes, NEW h \in HandlerState,
           h.pc \notin {"idle", "dead"} => h.m \in Message, handler' = [handler EXCEPT ![n] = h]
    PROVE  HandlerType'
  BY DEF HandlerType

LEMMA DoneType ==
    ASSUME Typed, NEW n \in Nodes, Done(n)
    PROVE  HandlerType' /\ LockType'
<1> USE DEF Typed
<1>1. HandlerType'
  BY IdleHandlerType, HandlerSet DEF Done
<1>2. LockType'
  BY LocksTyped DEF Done
<1>3. QED
  BY <1>1, <1>2

(* A transaction that is answered is not over: its writer waits for it. *)
LEMMA HandlerTypes ==
    ASSUME Typed, WritersHavePipe, NEW n \in Nodes, HandlerStep(n)
    PROVE  Typed'
<1> USE DEF Typed
<1>h. handler[n] \in HandlerState
  BY DEF HandlerType
<1>1. ASSUME NEW m \in net, Receive(n, m) PROVE Typed'
  <2> DEFINE h == [IdleHandler EXCEPT !.pc = "got", !.m = m]
  <2>1. h \in HandlerState /\ h.m \in Message
    BY DEF IdleHandler, HandlerState
  <2>2. handler' = [handler EXCEPT ![n] = h]
    BY <1>1 DEF Receive
  <2> HIDE DEF h
  <2>3. HandlerType'
    BY <2>1, <2>2, HandlerSet
  <2>4. net' \subseteq Message
    BY <1>1 DEF Receive
  <2>5. QED
    BY <1>1, <2>3, <2>4, Unchanged DEF Receive
<1>2. CASE LookUpTID(n)
  <2> DEFINE h == IF handler[n].m.tid # None THEN [handler[n] EXCEPT !.pc = "answer"]
                  ELSE [IdleHandler EXCEPT !.pc = "dead"]
  <2>0. handler[n].m \in Message
    BY <1>2, HandlerFields DEF LookUpTID
  <2>1. h \in HandlerState /\ (h.pc \notin {"idle", "dead"} => h.m \in Message)
    BY <1>h, <2>0 DEF IdleHandler, HandlerState
  <2>2. handler' = [handler EXCEPT ![n] = h]
    BY <1>2, <1>h DEF LookUpTID, HandlerType
  <2> HIDE DEF h
  <2>3. HandlerType'
    BY <2>1, <2>2, HandlerSet
  <2>4. QED
    BY <1>2, <2>3, Unchanged DEF LookUpTID
<1>3. CASE Answer(n)
  <2> DEFINE m == handler[n].m
             g == m.tid
  <2>0. m \in Message /\ m.type = "response" /\ m.from \in Nodes /\ m.tid \in TIDs
        /\ m.readers \subseteq Readers
    BY <1>3, HandlerFields, MessageFields DEF Answer
  <2>1. HandlerType'
    BY <1>3, IdleHandlerType, HandlerSet DEF Answer
  <2>2. UNCHANGED <<gen, alive, plock, users, net, misuse>>
    BY <1>3 DEF Answer
  <2>3. CASE m.tid = None
    <3>1. UNCHANGED <<proc, obj>>
      BY <1>3, <2>3 DEF Answer
    <3>2. PipeType'
      BY <2>2, <3>1, Unchanged DEF pipesState
    <3>3. QED
      BY <2>1, <2>2, <3>1, <3>2, Unchanged
  <2>4. CASE m.tid # None
    <3>1. g \in Procs
      BY <2>0, <2>4 DEF TIDs
    <3>2. proc' = [proc EXCEPT ![g].wait = @ \ {m.from}]
          /\ obj' = [obj EXCEPT ![Now(g)].cache = @ \cup m.readers]
      BY <1>3, <2>4 DEF Answer
    <3>3. proc[g] \in Proc
      BY <3>1 DEF ProcType
    <3>4. ProcType'
      BY <3>1, <3>2, <3>3 DEF ProcType, Proc
    <3>5. obj' \in [Objects -> Pipe]
      <4> DEFINE o == Now(g)
      <4>1. CASE o \in Objects
        <5> HIDE DEF o
        <5>1. obj[o] \in Pipe
          BY <4>1 DEF PipeType
        <5>2. [obj[o] EXCEPT !.cache = @ \cup m.readers] \in Pipe
          BY <2>0, <5>1 DEF Pipe
        <5>3. obj' = [obj EXCEPT ![o] = [obj[o] EXCEPT !.cache = @ \cup m.readers]]
          BY <3>2 DEF o
        <5>4. QED
          BY <5>2, <5>3 DEF PipeType
      <4>2. CASE o \notin Objects
        <5> HIDE DEF o
        <5>1. obj' = [obj EXCEPT ![o].cache = @ \cup m.readers]
          BY <3>2 DEF o
        <5>2. obj' = obj
          BY <4>2, <5>1 DEF PipeType
        <5>3. QED
          BY <5>2 DEF PipeType
      <4>3. QED
        BY <4>1, <4>2
    <3>6. PipeType'
      BY <2>2, <3>5 DEF PipeType
    <3>7. QED
      BY <2>1, <2>2, <3>4, <3>6, Unchanged
  <2>5. QED
    BY <2>3, <2>4
<1>4. CASE HandlerLock(n)
  <2> DEFINE D == IF handler[n].m.type = "forward" THEN handler[n].m.data ELSE {}
             h == [handler[n] EXCEPT !.pc = "locked", !.data = D]
  <2>0. handler[n].m \in Message
    BY <1>4 DEF HandlerLock, HandlerType
  <2>1. D \in SUBSET (Readers \cup {ScheduleAll})
    BY <2>0, MessageFields
  <2>2. handler' = [handler EXCEPT ![n] = h]
    BY <1>4, <1>h DEF HandlerLock, HandlerType, HandlerState
  <2> HIDE DEF D
  <2>3. h \in HandlerState /\ h.m \in Message
    BY <1>h, <2>0, <2>1 DEF HandlerState
  <2> HIDE DEF h
  <2>4. HandlerType'
    BY <2>2, <2>3, HandlerSet
  <2>5. LockType'
    BY <1>4, LocksTyped DEF HandlerLock
  <2>6. QED
    BY <1>4, <2>4, <2>5, Unchanged DEF HandlerLock
<1>5. CASE SendReaders(n)
  <2> DEFINE m == handler[n].m
             o == Object(n, m.pipe)
             R == IF alive[<<n, m.pipe>>] THEN obj[o].readers ELSE {}
             a == [type |-> "response", to |-> m.from, from |-> n, tid |-> m.tid, readers |-> R]
  <2>0. m \in Message /\ m.from \in Nodes /\ m.tid \in TIDs /\ m.pipe \in Pipes
    BY <1>5, HandlerFields, MessageFields DEF SendReaders
  <2>1. R \in SUBSET Readers
    BY <2>0, ObjectIn DEF PipeType, Pipe
  <2>2. net' = net \cup {a} /\ Done(n) /\ UNCHANGED <<pipesState, proc, users, misuse>>
    BY <1>5 DEF SendReaders
  <2> HIDE DEF R
  <2>3. a \in Message
    BY <2>0, <2>1, MessageIn
  <2> HIDE DEF a
  <2>4. QED
    BY <2>2, <2>3, DoneType, Unchanged
<1>6. CASE HandleViaWrite(n)
  <2> DEFINE m == handler[n].m
  <2>0. m \in Message /\ m.pipe \in Pipes /\ m.v \in Contents
    BY <1>6, HandlerFields, MessageFields DEF HandleViaWrite
  <2>1. NewWriter(n, m.pipe, m.v) /\ Done(n) /\ UNCHANGED <<users, net, misuse>>
    BY <1>6 DEF HandleViaWrite
  <2>2. PipeType' /\ ProcType'
    BY <2>0, <2>1, NewWriterType
  <2>3. QED
    BY <2>1, <2>2, DoneType, Unchanged
<1>7. CASE HandleViaHost(n)
  <2> DEFINE m == handler[n].m
             o == Object(n, m.pipe)
             h == IF m.host # None THEN m.host ELSE n
  <2>0. m \in Message /\ m.pipe \in Pipes /\ h \in Nodes
    BY <1>7, HandlerFields, MessageFields DEF HandleViaHost
  <2>1. /\ Make(n, m.pipe) /\ obj' = [obj EXCEPT ![o].viaHost = h] /\ Done(n)
        /\ UNCHANGED <<proc, users, net, misuse>>
    BY <1>7 DEF HandleViaHost
  <2>2. o \in Objects
    BY <2>0, <2>1, MakeType
  <2> HIDE DEF h
  <2>3. obj' \in [Objects -> Pipe]
    BY SMTT(40), <2>0, <2>1, <2>2 DEF PipeType, Pipe
  <2>4. PipeType'
    BY <2>0, <2>1, <2>3, MakeType DEF PipeType
  <2>5. QED
    BY <2>1, <2>4, DoneType, Unchanged
<1>8. CASE WriteNoForward(n)
  <2> DEFINE m == handler[n].m
             o == Object(n, m.pipe)
  <2>0. m \in Message /\ m.pipe \in Pipes
    <3>1. Handles(n, "locked", "forward")
      BY <1>8 DEF WriteNoForward
    <3>2. QED
      BY <3>1, HandlerFields, MessageFields
  <2>1. UNCHANGED <<gen, alive, proc, users, net, misuse>>
    BY <1>8 DEF WriteNoForward
  <2>2. CASE Done(n) /\ UNCHANGED obj
    <3>1. PipeType'
      BY <2>1, <2>2, Unchanged DEF pipesState
    <3>2. QED
      BY <2>1, <2>2, <3>1, DoneType, Unchanged
  <2>3. CASE ~ (Done(n) /\ UNCHANGED obj)
    <3>1. alive[<<n, m.pipe>>] /\ obj' = [obj EXCEPT ![o].lock = Handler] /\ UNCHANGED plock
      BY <1>8, <2>3 DEF WriteNoForward
    <3>2. PICK r \in handler[n].data :
             handler' = [handler EXCEPT ![n].pc = "writing", ![n].data = @ \ {r},
                                        ![n].todo = Recipients(o, r)]
      BY <1>8, <2>3 DEF WriteNoForward
    <3>3. o \in Objects
      BY <2>0, <3>1, ObjectIn
    <3>4. PipeType'
      BY <2>1, <3>1, <3>3, LockSet
    <3> DEFINE T == Recipients(o, r)
               h == [handler[n] EXCEPT !.pc = "writing", !.data = @ \ {r}, !.todo = T]
    <3>5. T \in SUBSET Readers
      BY <3>3 DEF Recipients, PipeType, Pipe
    <3>6. handler' = [handler EXCEPT ![n] = h]
      BY <3>2, <1>h DEF HandlerType, HandlerState
    <3> HIDE DEF T
    <3>7. h \in HandlerState /\ h.m \in Message
      BY <1>h, <2>0, <3>5 DEF HandlerState
    <3> HIDE DEF h
    <3>8. HandlerType'
      BY <3>6, <3>7, HandlerSet
    <3>9. QED
      BY <2>1, <3>1, <3>4, <3>8, Unchanged
  <2>4. QED
    BY <2>2, <2>3
<1>9. ASSUME NEW r \in Readers, HandlerWrites(n, r) PROVE Typed'
  <2> DEFINE m == handler[n].m
             h == [handler[n] EXCEPT !.todo = @ \ {r}]
  <2>0. m \in Message /\ m.v \in Contents
    BY <1>9, HandlerFields, MessageFields DEF HandlerWrites
  <2>1. Send(r, m.v) /\ UNCHANGED <<pipesState, plock, proc, cli, script, net>>
    BY <1>9 DEF HandlerWrites
  <2>2. handler' = [handler EXCEPT ![n] = h]
    BY <1>9, <1>h DEF HandlerWrites, HandlerType
  <2>3. h \in HandlerState /\ h.m \in Message
    BY <1>h, <2>0 DEF HandlerState
  <2> HIDE DEF h
  <2>4. HandlerType'
    BY <2>2, <2>3, HandlerSet
  <2>5. UserType'
    BY <2>0, <2>1, SendType DEF UserType
  <2>6. QED
    BY <2>1, <2>4, <2>5, Unchanged
<1>10. CASE HandlerWrote(n)
  <2> DEFINE o == Object(n, handler[n].m.pipe)
             h == [handler[n] EXCEPT !.pc = "locked", !.todo = {}]
  <2>0. handler[n].m \in Message
    BY <1>10, HandlerFields DEF HandlerWrote
  <2>1. /\ obj' = [obj EXCEPT ![o].lock = None]
        /\ UNCHANGED <<gen, alive, plock, proc, users, net, misuse>>
    BY <1>10 DEF HandlerWrote
  <2>2. handler' = [handler EXCEPT ![n] = h]
    BY <1>10, <1>h DEF HandlerWrote, HandlerType, HandlerState
  <2>3. h \in HandlerState /\ h.m \in Message
    BY <1>h, <2>0 DEF HandlerState
  <2> HIDE DEF h, o
  <2>4. HandlerType'
    BY <2>2, <2>3, HandlerSet
  <2>5. obj' \in [Objects -> Pipe]
    BY ZenonT(40), <2>1 DEF PipeType, Pipe
  <2>6. PipeType'
    BY <2>1, <2>5 DEF PipeType
  <2>7. QED
    BY <2>1, <2>4, <2>6, Unchanged
<1>11. QED
  BY <1>1, <1>2, <1>3, <1>4, <1>5, <1>6, <1>7, <1>8, <1>9, <1>10 DEF HandlerStep

----------------------------------------------------------------------------
(* Writers, and the channels of readers. *)

(* A pipeline that has not started has no writer. *)
Early == {"none", "registered", "started"}

StartedInv == \A l \in Pipelines : line[l].pc \in Early => proc[Writer(l)].pc = "off"

WriterInv == StartedInv /\ WritersHavePipe /\ CountInv

(* The channel of a reader is open as long as it is in pp.readers of the   *)
(* pipe that it was made for.                                              *)
IsOpen(r) == reader[r].pc \in {"open", "done"}

ReadersInv == \A o \in Objects : \A r \in obj[o].readers : OwnOf(r) = o /\ IsOpen(r)

(* A writer that goes over the readers, or waits for the answers to a      *)
(* query, holds the lock of its pipe.                                      *)
Holding == {"writing", "query", "requery"}

HoldOf(g) ==
    /\ proc[g].pc \in Holding => obj[Own(g)].lock = g
    /\ proc[g].pc = "writing" => \A r \in proc[g].todo : OwnOf(r) = Own(g) /\ IsOpen(r)

HoldInv == \A g \in Procs : HoldOf(g)

(* So does handleMessages when it goes over them. *)
Target(n) == Object(n, handler[n].m.pipe)

HandlerOf(n) == handler[n].pc = "writing" =>
    /\ handler[n].m.type = "forward" /\ alive[<<n, handler[n].m.pipe>>]
    /\ obj[Target(n)].lock = Handler
    /\ \A r \in handler[n].todo : OwnOf(r) = Target(n) /\ IsOpen(r)

HandlerInv == \A n \in Nodes : HandlerOf(n)

ChannelInv == ReadersInv /\ HoldInv /\ HandlerInv /\ OpenChannels

IInv == TypeInv /\ WriterInv /\ ChannelInv

----------------------------------------------------------------------------
(* What most steps leave alone, and the parts of the invariant that this   *)
(* keeps.                                                                  *)

PipeKept(np) == alive[np] => alive'[np] /\ gen'[np] = gen[np]

PipesKept == \A np \in Nodes \X Pipes : PipeKept(np)

WriterKept(g) ==
    /\ Writing(g)' <=> Writing(g)
    /\ Writing(g) => proc'[g].pipe = proc[g].pipe /\ proc'[g].gen = proc[g].gen

NoNewHold(g) == proc'[g].pc \in Holding =>
    /\ proc'[g].pc = proc[g].pc /\ proc'[g].todo \subseteq proc[g].todo
    /\ proc'[g].pipe = proc[g].pipe /\ proc'[g].gen = proc[g].gen

NoNewVia(g) == proc'[g].pc = "via" =>
    proc[g].pc = "via" /\ proc'[g].pipe = proc[g].pipe /\ proc'[g].gen = proc[g].gen

OffKept(g) == proc[g].pc = "off" => proc'[g].pc = "off"

ProcKept(g) == WriterKept(g) /\ NoNewHold(g) /\ NoNewVia(g) /\ OffKept(g)

CountsKept == \A o \in Objects : obj'[o].numWriters = obj[o].numWriters

NoNewReaders == \A o \in Objects : obj'[o].readers \subseteq obj[o].readers

ViasKept == \A o \in Objects : obj[o].viaHost # None => obj'[o].viaHost # None

LockKept(o) == obj[o].lock # None => obj'[o].lock = obj[o].lock

ObjsKept == CountsKept /\ NoNewReaders /\ ViasKept /\ \A o \in Objects : LockKept(o)

ReadersKept == \A r \in Readers : IsOpen(r) => IsOpen(r)' /\ reader'[r].gen = reader[r].gen

LinesKept == \A l \in Pipelines : line'[l].pc \in Early => line[l].pc \in Early

NoNewWrite(n) == handler'[n].pc = "writing" =>
    /\ handler[n].pc = "writing" /\ handler'[n].todo \subseteq handler[n].todo
    /\ handler'[n].m.type = handler[n].m.type /\ handler'[n].m.pipe = handler[n].m.pipe

HandlersKept == \A n \in Nodes : NoNewWrite(n)

NoMisuse == "send" \in misuse' => "send" \in misuse

(* Steps of one goroutine. *)
LEMMA OthersKept ==
    ASSUME ProcType, NEW g \in Procs, NEW w, proc' = [proc EXCEPT ![g] = w]
    PROVE  proc'[g] = w /\ \A h \in Procs \ {g} : proc'[h] = proc[h] /\ ProcKept(h)
<1>1. proc'[g] = w /\ \A h \in Procs \ {g} : proc'[h] = proc[h]
  BY DEF ProcType
<1>2. QED
  BY <1>1 DEF ProcKept, WriterKept, NoNewHold, NoNewVia, OffKept, Writing

LEMMA StartedKept ==
    ASSUME StartedInv, LinesKept, \A l \in Pipelines : line'[l].pc \in Early => OffKept(Writer(l))
    PROVE  StartedInv'
<1>1. ASSUME NEW l \in Pipelines, line'[l].pc \in Early PROVE proc'[Writer(l)].pc = "off"
  BY <1>1 DEF StartedInv, LinesKept, OffKept
<1>2. QED
  BY <1>1 DEF StartedInv, Writer

LEMMA HavePipeKept ==
    ASSUME Typed, WritersHavePipe, PipesKept, \A g \in Procs : WriterKept(g)
    PROVE  WritersHavePipe'
<1> SUFFICES ASSUME NEW g \in Procs, Writing(g)'
             PROVE  alive'[<<g.node, proc'[g].pipe>>]
                    /\ gen'[<<g.node, proc'[g].pipe>>] = proc'[g].gen
  BY DEF WritersHavePipe
<1>1. Writing(g) /\ proc'[g].pipe = proc[g].pipe /\ proc'[g].gen = proc[g].gen
  BY DEF WriterKept
<1>2. <<g.node, proc[g].pipe>> \in Nodes \X Pipes
  BY ProcFields DEF Typed
<1>3. QED
  BY <1>1, <1>2 DEF WritersHavePipe, PipesKept, PipeKept

LEMMA SameWriters ==
    ASSUME \A g \in Procs : WriterKept(g), NEW o
    PROVE  WritersOf(o)' = WritersOf(o)
<1>1. ASSUME NEW g \in Procs PROVE (Writing(g)' /\ Own(g)' = o) <=> (Writing(g) /\ Own(g) = o)
  BY DEF WriterKept, Own
<1>2. QED
  BY <1>1 DEF WritersOf

LEMMA CountKept ==
    ASSUME CountInv, CountsKept, \A g \in Procs : WriterKept(g)
    PROVE  CountInv'
  BY SameWriters DEF CountInv, CountsKept

LEMMA ViaKept ==
    ASSUME Typed, ViaType, ViasKept, \A g \in Procs : NoNewVia(g)
    PROVE  ViaType'
<1> SUFFICES ASSUME NEW g \in Procs, proc'[g].pc = "via" PROVE obj'[Own(g)'].viaHost # None
  BY DEF ViaType
<1>1. proc[g].pc = "via" /\ Own(g)' = Own(g)
  BY DEF NoNewVia, Own
<1>2. Own(g) \in Objects
  BY ProcFields DEF Typed
<1>3. QED
  BY <1>1, <1>2 DEF ViaType, ViasKept

LEMMA OwnOfKept ==
    ASSUME ReadersKept, NEW r \in Readers, IsOpen(r)
    PROVE  IsOpen(r)' /\ OwnOf(r)' = OwnOf(r)
  BY DEF ReadersKept, OwnOf

LEMMA ReadersInvKept ==
    ASSUME Typed, ReadersInv, ReadersKept, NoNewReaders
    PROVE  ReadersInv'
<1> SUFFICES ASSUME NEW o \in Objects, NEW r \in obj'[o].readers
             PROVE  OwnOf(r)' = o /\ IsOpen(r)'
  BY DEF ReadersInv
<1>1. r \in obj[o].readers /\ obj[o] \in Pipe
  BY DEF NoNewReaders, Typed, PipeType
<1>2. r \in Readers /\ OwnOf(r) = o /\ IsOpen(r)
  BY <1>1 DEF ReadersInv, Pipe
<1>3. QED
  BY <1>2, OwnOfKept

LEMMA HoldOfKept ==
    ASSUME Typed, NEW g \in Procs, HoldOf(g), ReadersKept, NoNewHold(g),
           proc'[g].pc \in Holding => obj'[Own(g)].lock = obj[Own(g)].lock
    PROVE  HoldOf(g)'
<1>1. proc'[g].pc \in Holding => Own(g)' = Own(g)
  BY DEF NoNewHold, Own
<1>2. ASSUME proc'[g].pc = "writing", NEW r \in proc'[g].todo
      PROVE  OwnOf(r)' = Own(g)' /\ IsOpen(r)'
  <2>1. proc[g].pc = "writing" /\ r \in proc[g].todo
    BY <1>2 DEF NoNewHold, Holding
  <2>2. r \in Readers /\ OwnOf(r) = Own(g) /\ IsOpen(r)
    BY <2>1, ProcFields DEF HoldOf, Typed
  <2>3. QED
    BY <1>1, <1>2, <2>2, OwnOfKept DEF Holding
<1>3. proc'[g].pc \in Holding => obj'[Own(g)'].lock = g
  BY <1>1 DEF NoNewHold, HoldOf
<1>4. QED
  BY <1>2, <1>3 DEF HoldOf

LEMMA HoldKept ==
    ASSUME Typed, HoldInv, ReadersKept, \A o \in Objects : LockKept(o), NEW g \in Procs, NoNewHold(g)
    PROVE  HoldOf(g)'
<1>1. proc'[g].pc \in Holding => obj'[Own(g)].lock = obj[Own(g)].lock
  <2>1. Own(g) \in Objects
    BY ProcFields DEF Typed
  <2>2. SUFFICES ASSUME proc'[g].pc \in Holding PROVE obj[Own(g)].lock # None
    BY <2>1 DEF LockKept
  <2>3. obj[Own(g)].lock = g
    BY <2>2 DEF HoldInv, HoldOf, NoNewHold
  <2>4. QED
    BY <2>3, NameAssumption
<1>2. QED
  BY <1>1, HoldOfKept DEF HoldInv

(* The pipe of a handler stays where it is. *)
LEMMA TargetKept ==
    ASSUME Typed, NEW n \in Nodes, NEW p \in Pipes, alive[<<n, p>>], PipeKept(<<n, p>>)
    PROVE  Object(n, p)' = Object(n, p) /\ alive'[<<n, p>>] /\ Object(n, p) \in Objects
<1>1. Object(n, p) \in Objects
  BY ObjectIn DEF Typed
<1>2. QED
  BY <1>1 DEF PipeKept, Object, Gen

LEMMA HandlerOfKept ==
    ASSUME Typed, NEW n \in Nodes, HandlerOf(n), ReadersKept, NoNewWrite(n),
           handler'[n].pc = "writing" => /\ PipeKept(<<n, handler[n].m.pipe>>)
                                         /\ obj'[Target(n)].lock = obj[Target(n)].lock
    PROVE  HandlerOf(n)'
<1> SUFFICES ASSUME handler'[n].pc = "writing" PROVE HandlerOf(n)'
  BY DEF HandlerOf
<1>1. handler[n].pc = "writing" /\ handler'[n].m.pipe = handler[n].m.pipe
      /\ handler'[n].m.type = handler[n].m.type /\ handler'[n].todo \subseteq handler[n].todo
  BY DEF NoNewWrite
<1>2. handler[n].m \in Message /\ handler[n].m.type = "forward" /\ handler[n].todo \subseteq Readers
  BY <1>1 DEF HandlerOf, Typed, HandlerType, HandlerState
<1>3. PICK p \in Pipes : p = handler[n].m.pipe
  BY <1>2, MessageFields
<1>4. alive[<<n, p>>] /\ obj[Target(n)].lock = Handler
  BY <1>1, <1>3 DEF HandlerOf
<1>5. alive'[<<n, p>>] /\ Object(n, p)' = Object(n, p)
  BY <1>3, <1>4, TargetKept
<1>6. Target(n) = Object(n, p) /\ Target(n)' = Object(n, p)'
  BY <1>1, <1>3 DEF Target, Object, Gen
<1>7. ASSUME NEW r \in handler'[n].todo PROVE OwnOf(r)' = Target(n)' /\ IsOpen(r)'
  <2>1. r \in Readers /\ OwnOf(r) = Target(n) /\ IsOpen(r)
    BY <1>1, <1>2 DEF HandlerOf
  <2>2. QED
    BY <1>5, <1>6, <2>1, OwnOfKept
<1>8. alive'[<<n, handler'[n].m.pipe>>] /\ obj'[Target(n)'].lock = Handler
  BY <1>1, <1>3, <1>4, <1>5, <1>6
<1>9. QED
  BY <1>1, <1>2, <1>7, <1>8 DEF HandlerOf

LEMMA HandlersInvKept ==
    ASSUME Typed, HandlerInv, ReadersKept, PipesKept, \A o \in Objects : LockKept(o),
           NEW n \in Nodes, NoNewWrite(n)
    PROVE  HandlerOf(n)'
<1>1. ASSUME handler'[n].pc = "writing"
      PROVE  PipeKept(<<n, handler[n].m.pipe>>) /\ obj'[Target(n)].lock = obj[Target(n)].lock
  <2>1. handler[n].pc = "writing" /\ obj[Target(n)].lock = Handler
        /\ alive[<<n, handler[n].m.pipe>>] /\ handler[n].m.type = "forward"
    BY <1>1 DEF HandlerInv, HandlerOf, NoNewWrite
  <2>2. handler[n].m \in Message
    BY <2>1 DEF Typed, HandlerType
  <2>3. handler[n].m.pipe \in Pipes
    BY <2>1, <2>2, MessageFields
  <2>4. Target(n) \in Objects
    BY <2>1, <2>3, ObjectIn DEF Typed, Target
  <2>5. QED
    BY <2>1, <2>3, <2>4, NameAssumption DEF LockKept, PipesKept
<1>2. QED
  BY <1>1, HandlerOfKept DEF HandlerInv

(* Together. *)
Rest == WriterInv /\ ViaType /\ ChannelInv

LEMMA WriterPart ==
    ASSUME Typed, Rest, PipesKept, \A g \in Procs : WriterKept(g) /\ OffKept(g), CountsKept, LinesKept
    PROVE  WriterInv'
<1>1. StartedInv'
  BY StartedKept, WriterIsProc DEF Rest, WriterInv
<1>2. WritersHavePipe' /\ CountInv'
  BY HavePipeKept, CountKept DEF Rest, WriterInv
<1>3. QED
  BY <1>1, <1>2 DEF WriterInv

LEMMA HoldPart ==
    ASSUME Typed, Rest, ReadersKept, \A o \in Objects : LockKept(o), \A g \in Procs : NoNewHold(g)
    PROVE  HoldInv'
<1>1. ASSUME NEW g \in Procs PROVE HoldOf(g)'
  BY HoldKept DEF Rest, ChannelInv
<1>2. QED
  BY <1>1 DEF HoldInv

LEMMA HandlerPart ==
    ASSUME Typed, Rest, ReadersKept, PipesKept, \A o \in Objects : LockKept(o), HandlersKept
    PROVE  HandlerInv'
<1>1. ASSUME NEW n \in Nodes PROVE HandlerOf(n)'
  BY HandlersInvKept DEF Rest, ChannelInv, HandlersKept
<1>2. QED
  BY <1>1 DEF HandlerInv

LEMMA ChannelPart ==
    ASSUME Typed, Rest, PipesKept, \A g \in Procs : NoNewHold(g) /\ NoNewVia(g), NoNewReaders, ViasKept,
           \A o \in Objects : LockKept(o), ReadersKept, HandlersKept, NoMisuse
    PROVE  ViaType' /\ ChannelInv'
<1>1. ViaType'
  BY ViaKept DEF Rest
<1>2. ReadersInv'
  BY ReadersInvKept DEF Rest, ChannelInv
<1>3. HoldInv' /\ HandlerInv'
  BY HoldPart, HandlerPart
<1>4. OpenChannels'
  BY DEF Rest, ChannelInv, OpenChannels, NoMisuse
<1>5. QED
  BY <1>1, <1>2, <1>3, <1>4 DEF ChannelInv

LEMMA AllKept ==
    ASSUME Typed, Rest, PipesKept, \A g \in Procs : ProcKept(g), ObjsKept, ReadersKept, LinesKept,
           HandlersKept, NoMisuse
    PROVE  Rest'
<1>1. WriterInv'
  BY WriterPart DEF ProcKept, ObjsKept
<1>2. ViaType' /\ ChannelInv'
  BY ChannelPart DEF ProcKept, ObjsKept
<1>3. QED
  BY <1>1, <1>2 DEF Rest

(* Variables that do not change. *)
LEMMA Same ==
    /\ UNCHANGED proc => \A g \in Procs : ProcKept(g)
    /\ UNCHANGED obj => ObjsKept
    /\ UNCHANGED <<gen, alive>> => PipesKept
    /\ UNCHANGED reader => ReadersKept
    /\ UNCHANGED line => LinesKept
    /\ UNCHANGED handler => HandlersKept
    /\ UNCHANGED misuse => NoMisuse
<1>1. UNCHANGED proc => \A g \in Procs : ProcKept(g)
  BY DEF ProcKept, WriterKept, NoNewHold, NoNewVia, OffKept, Writing
<1>2. UNCHANGED obj => ObjsKept
  BY DEF ObjsKept, CountsKept, NoNewReaders, ViasKept, LockKept
<1>3. (UNCHANGED <<gen, alive>> => PipesKept) /\ (UNCHANGED reader => ReadersKept)
      /\ (UNCHANGED line => LinesKept) /\ (UNCHANGED misuse => NoMisuse)
  BY DEF PipesKept, PipeKept, ReadersKept, IsOpen, LinesKept, NoMisuse
<1>4. UNCHANGED handler => HandlersKept
  BY DEF HandlersKept, NoNewWrite
<1>5. QED
  BY <1>1, <1>2, <1>3, <1>4

LEMMA MakeKeeps ==
    ASSUME PipeType, NEW n \in Nodes, NEW p \in Pipes, Make(n, p)
    PROVE  PipesKept
<1>1. ASSUME NEW np \in Nodes \X Pipes, alive[np] PROVE alive'[np] /\ gen'[np] = gen[np]
  <2>1. CASE np = <<n, p>>
    BY <1>1, <2>1 DEF Make, Gen, PipeType
  <2>2. CASE np # <<n, p>>
    BY <1>1, <2>2 DEF Make, PipeType
  <2>3. QED
    BY <2>1, <2>2
<1>2. QED
  BY <1>1 DEF PipesKept, PipeKept

(* Steps that change one goroutine, pipe or handler. *)
LEMMA OneProc ==
    ASSUME NEW g \in Procs, \A h \in Procs \ {g} : proc'[h] = proc[h], ProcKept(g)
    PROVE  \A h \in Procs : ProcKept(h)
  BY DEF ProcKept, WriterKept, NoNewHold, NoNewVia, OffKept, Writing

LEMMA Goes ==
    ASSUME ProcType, NEW g \in Procs, Writing(g), NEW pc, Go(g, pc),
           pc \notin Holding \cup {"off", "open", "opening"}
    PROVE  /\ \A h \in Procs : WriterKept(h) /\ NoNewHold(h) /\ OffKept(h)
           /\ pc # "via" => \A h \in Procs : ProcKept(h)
           /\ \A h \in Procs \ {g} : ProcKept(h)
<1>1. proc'[g] = [proc[g] EXCEPT !.pc = pc] /\ \A h \in Procs \ {g} : proc'[h] = proc[h]
  BY DEF ProcType, Go
<1>2. proc'[g].pc = pc /\ proc'[g].pipe = proc[g].pipe /\ proc'[g].gen = proc[g].gen
  BY <1>1 DEF ProcType, Proc
<1>3. WriterKept(g) /\ NoNewHold(g) /\ OffKept(g) /\ (pc # "via" => NoNewVia(g))
  BY <1>2 DEF WriterKept, NoNewHold, OffKept, NoNewVia, Writing
<1>4. \A h \in Procs \ {g} : ProcKept(h)
  BY <1>1 DEF ProcKept, WriterKept, NoNewHold, NoNewVia, OffKept, Writing
<1>5. QED
  BY <1>3, <1>4 DEF ProcKept

LEMMA Idles ==
    ASSUME ProcType, NEW g \in Procs, Writing(g), Idle(g)
    PROVE  \A h \in Procs : ProcKept(h)
<1>1. proc'[g] = [NoProc EXCEPT !.pc = "range", !.pipe = proc[g].pipe, !.gen = proc[g].gen,
                                !.closed = proc[g].closed]
      /\ \A h \in Procs \ {g} : proc'[h] = proc[h]
  BY DEF ProcType, Idle
<1>2. proc'[g].pc = "range" /\ proc'[g].pipe = proc[g].pipe /\ proc'[g].gen = proc[g].gen
  BY <1>1, NoProcType DEF Proc
<1>3. ProcKept(g)
  BY <1>2 DEF ProcKept, WriterKept, NoNewHold, NoNewVia, OffKept, Writing, Holding
<1>4. QED
  BY <1>1, <1>3, OneProc

ObjKept(o) ==
    /\ obj'[o].numWriters = obj[o].numWriters /\ obj'[o].readers \subseteq obj[o].readers
    /\ obj[o].viaHost # None => obj'[o].viaHost # None
    /\ LockKept(o)

LEMMA OneObj ==
    ASSUME NEW o \in Objects, \A q \in Objects \ {o} : obj'[q] = obj[q], ObjKept(o)
    PROVE  ObjsKept
<1>1. ASSUME NEW q \in Objects PROVE ObjKept(q)
  BY DEF ObjKept, LockKept
<1>2. QED
  BY <1>1 DEF ObjKept, ObjsKept, CountsKept, NoNewReaders, ViasKept

LEMMA OneHandler ==
    ASSUME NEW n \in Nodes, \A k \in Nodes \ {n} : handler'[k] = handler[k], NoNewWrite(n)
    PROVE  HandlersKept
  BY DEF HandlersKept, NoNewWrite

LEMMA DoneKeeps ==
    ASSUME HandlerType, NEW n \in Nodes, Done(n)
    PROVE  HandlersKept
<1>1. handler'[n] = IdleHandler /\ \A k \in Nodes \ {n} : handler'[k] = handler[k]
  BY DEF HandlerType, Done
<1>2. NoNewWrite(n)
  BY <1>1 DEF NoNewWrite, IdleHandler
<1>3. QED
  BY <1>1, <1>2, OneHandler

(* A writer is opened. *)
LEMMA Joins ==
    ASSUME Typed, WriterInv, PipesKept, NEW g \in Procs, NEW o \in Objects, ~Writing(g),
           \A h \in Procs \ {g} : proc'[h] = proc[h],
           Writing(g)', Own(g)' = o, o[1] = g.node, alive'[<<o[1], o[2]>>], gen'[<<o[1], o[2]>>] = o[3],
           obj'[o].numWriters = obj[o].numWriters + 1,
           \A q \in Objects \ {o} : obj'[q].numWriters = obj[q].numWriters
    PROVE  WritersHavePipe' /\ CountInv'
<1>1. \A h \in Procs \ {g} : (Writing(h)' <=> Writing(h)) /\ Own(h)' = Own(h)
  BY DEF Writing, Own
<1>2. WritersHavePipe'
  <2>1. ASSUME NEW h \in Procs, h # g, Writing(h)'
        PROVE  alive'[<<h.node, proc'[h].pipe>>] /\ gen'[<<h.node, proc'[h].pipe>>] = proc'[h].gen
    <3>1. Writing(h) /\ proc'[h] = proc[h]
      BY <1>1, <2>1
    <3>2. <<h.node, proc[h].pipe>> \in Nodes \X Pipes
      BY ProcFields DEF Typed
    <3>3. QED
      BY <3>1, <3>2 DEF WriterInv, WritersHavePipe, PipesKept, PipeKept
  <2>2. alive'[<<g.node, proc'[g].pipe>>] /\ gen'[<<g.node, proc'[g].pipe>>] = proc'[g].gen
    BY DEF Own
  <2>3. QED
    BY <2>1, <2>2 DEF WritersHavePipe
<1>3. WritersOf(o)' = WritersOf(o) \cup {g} /\ g \notin WritersOf(o)
  BY <1>1 DEF WritersOf
<1>4. ASSUME NEW q \in Objects, q # o PROVE WritersOf(q)' = WritersOf(q)
  BY <1>1, <1>4 DEF WritersOf
<1>5. ASSUME NEW q \in Objects
      PROVE  IsFiniteSet(WritersOf(q)') /\ obj'[q].numWriters = Cardinality(WritersOf(q)')
  <2>1. CASE q = o
    <3>1. IsFiniteSet(WritersOf(o)) /\ obj[o].numWriters = Cardinality(WritersOf(o))
      BY DEF WriterInv, CountInv
    <3>2. IsFiniteSet(WritersOf(o) \cup {g})
          /\ Cardinality(WritersOf(o) \cup {g}) = Cardinality(WritersOf(o)) + 1
      BY <1>3, <3>1, FS_AddElement
    <3>3. QED
      BY <1>3, <2>1, <3>1, <3>2
  <2>2. CASE q # o
    BY <1>4, <2>2 DEF WriterInv, CountInv
  <2>3. QED
    BY <2>1, <2>2
<1>6. CountInv'
  BY <1>5 DEF CountInv
<1>7. QED
  BY <1>2, <1>6

LEMMA NewWriterKeeps ==
    ASSUME Typed, Rest, NEW n \in Nodes, NEW p \in Pipes, NEW v \in Contents, NewWriter(n, p, v),
           UNCHANGED <<reader, line, misuse>>, HandlersKept
    PROVE  Rest'
<1> DEFINE g == [name |-> v, node |-> n]
<1> DEFINE o == Object(n, p)
<1> DEFINE w == [NoProc EXCEPT !.pc = "check", !.pipe = p, !.gen = Gen(n, p), !.v = v, !.closed = TRUE]
<1>1. g \in Procs /\ g.node = n /\ o \in Objects /\ Make(n, p) /\ proc[g].pc = "off"
  BY MakeType DEF Typed, NewWriter, Procs
<1>2. PipesKept
  BY <1>1, MakeKeeps DEF Typed
<1>3. proc'[g] = w /\ \A h \in Procs \ {g} : proc'[h] = proc[h]
  BY <1>1 DEF NewWriter, Typed, ProcType
<1>4. proc'[g].pc = "check" /\ proc'[g].pipe = p /\ proc'[g].gen = Gen(n, p)
  BY <1>3, NoProcType DEF Proc
<1>5. obj'[o] = [obj[o] EXCEPT !.numWriters = @ + 1] /\ \A q \in Objects \ {o} : obj'[q] = obj[q]
  BY <1>1 DEF NewWriter, Typed, PipeType
<1>6. obj'[o].numWriters = obj[o].numWriters + 1 /\ obj'[o].readers = obj[o].readers
      /\ obj'[o].viaHost = obj[o].viaHost /\ obj'[o].lock = obj[o].lock
  BY <1>1, <1>5 DEF Typed, PipeType, Pipe
<1>7. \A q \in Objects : obj'[q].readers = obj[q].readers /\ obj'[q].viaHost = obj[q].viaHost
                         /\ obj'[q].lock = obj[q].lock
  BY <1>5, <1>6
<1>8. NoNewReaders /\ ViasKept /\ \A q \in Objects : LockKept(q)
  BY <1>7 DEF NoNewReaders, ViasKept, LockKept
<1>9. \A h \in Procs : NoNewHold(h) /\ NoNewVia(h)
  BY <1>3, <1>4 DEF NoNewHold, NoNewVia, Holding
<1>10. ViaType' /\ ChannelInv'
  BY <1>2, <1>8, <1>9, ChannelPart, Same
<1>11. StartedInv'
  <2>1. ASSUME NEW l \in Pipelines PROVE OffKept(Writer(l))
    <3>1. Writer(l) \in Procs /\ Writer(l).name = l /\ g.name = v
      BY WriterIsProc DEF Writer
    <3>2. l # v
      BY NameAssumption
    <3>3. Writer(l) # g
      BY <3>1, <3>2
    <3>4. QED
      BY <1>3, <3>1, <3>3 DEF OffKept
  <2>2. QED
    BY <2>1, StartedKept, Same DEF Rest, WriterInv
<1>12. WritersHavePipe' /\ CountInv'
  <2>1. Own(g)' = o /\ o[1] = g.node /\ o[2] = p /\ o[3] = Gen(n, p)
    BY <1>1, <1>4 DEF Own, Object
  <2>2. alive'[<<n, p>>] /\ gen'[<<n, p>>] = Gen(n, p)
    BY <1>1 DEF Make, Typed, PipeType
  <2>3. ~Writing(g) /\ Writing(g)'
    BY <1>1, <1>4 DEF Writing
  <2>4. obj'[o].numWriters = obj[o].numWriters + 1
        /\ \A q \in Objects \ {o} : obj'[q].numWriters = obj[q].numWriters
    BY <1>5, <1>6
  <2> HIDE DEF g, o
  <2>5. QED
    BY <1>1, <1>2, <1>3, <2>1, <2>2, <2>3, <2>4, Joins DEF Rest
<1>13. QED
  BY <1>10, <1>11, <1>12 DEF Rest, WriterInv

(* PipeDelete. *)
LEMMA DeleteKeeps ==
    ASSUME Typed, Rest, NEW n \in Nodes, CliDelete(n)
    PROVE  Rest'
<1>1. PICK p \in Pipes : p = cli[n].pipe
  BY CommandFields DEF CliDelete, Runs, Typed
<1> DEFINE o == Object(n, p)
<1>2. UNCHANGED <<gen, obj, proc, handler, line, misuse>> /\ (alive[<<n, p>>] => Unlocked(o))
  BY <1>1 DEF CliDelete
<1>3. CASE ~(alive[<<n, p>>] /\ obj[o].numWriters = 0)
  <2>1. UNCHANGED <<alive, reader>>
    BY <1>1, <1>3 DEF CliDelete
  <2>2. QED
    BY <1>2, <2>1, AllKept, Same
<1>4. CASE alive[<<n, p>>] /\ obj[o].numWriters = 0
  <2>1. o \in Objects /\ o = <<n, p, gen[<<n, p>>]>> /\ obj[o].lock = None
    BY <1>2, <1>4, ObjectIn DEF Typed, Unlocked
  <2>2. \A np \in Nodes \X Pipes : np # <<n, p>> => alive'[np] = alive[np] /\ gen'[np] = gen[np]
    BY <1>1, <1>2, <1>4 DEF CliDelete, Typed, PipeType
  <2>3. reader' = [r \in Readers |-> IF r \in obj[o].readers /\ reader[r].pc = "open"
                                     THEN [reader[r] EXCEPT !.pc = "done"] ELSE reader[r]]
    BY <1>1, <1>4 DEF CliDelete
  <2>4. ReadersKept
    <3>1. ASSUME NEW r \in Readers, IsOpen(r) PROVE IsOpen(r)' /\ reader'[r].gen = reader[r].gen
      <4>1. reader[r] \in ReaderState /\ (reader'[r] = reader[r] \/ reader'[r] = [reader[r] EXCEPT !.pc = "done"])
        BY <2>3 DEF Typed, UserType
      <4>2. QED
        BY <3>1, <4>1 DEF IsOpen, ReaderState
    <3>2. QED
      BY <3>1 DEF ReadersKept
  <2>5. WritersHavePipe'
    <3>1. SUFFICES ASSUME NEW g \in Procs, Writing(g)
                   PROVE  alive'[<<g.node, proc[g].pipe>>]
      BY <1>2 DEF Rest, WriterInv, WritersHavePipe, Writing
    <3>2. alive[<<g.node, proc[g].pipe>>] /\ gen[<<g.node, proc[g].pipe>>] = proc[g].gen
      BY <3>1 DEF Rest, WriterInv, WritersHavePipe
    <3>3. <<g.node, proc[g].pipe>> \in Nodes \X Pipes
      BY ProcFields DEF Typed
    <3>4. CASE <<g.node, proc[g].pipe>> = <<n, p>>
      <4>1. g \in WritersOf(o)
        BY <2>1, <3>1, <3>2, <3>4 DEF WritersOf, Own
      <4>2. IsFiniteSet(WritersOf(o)) /\ Cardinality(WritersOf(o)) = 0
        BY <1>4, <2>1 DEF Rest, WriterInv, CountInv
      <4>3. WritersOf(o) = {}
        BY <4>2, FS_EmptySet
      <4>4. QED
        BY <4>1, <4>3
    <3>5. QED
      BY <2>2, <3>2, <3>3, <3>4
  <2>6. StartedInv' /\ CountInv'
    <3>1. LinesKept /\ CountsKept /\ \A g \in Procs : ProcKept(g)
      BY <1>2, Same DEF ObjsKept
    <3>2. QED
      BY <3>1, StartedKept, CountKept, WriterIsProc DEF Rest, WriterInv, ProcKept
  <2>7. ViaType' /\ ReadersInv' /\ HoldInv' /\ OpenChannels'
    <3>1. ObjsKept /\ \A g \in Procs : ProcKept(g)
      BY <1>2, Same
    <3>2. ViaType'
      BY <3>1, ViaKept DEF Rest, ObjsKept, ProcKept
    <3>3. ReadersInv'
      BY <2>4, <3>1, ReadersInvKept DEF Rest, ChannelInv, ObjsKept
    <3>4. HoldInv'
      BY <2>4, <3>1, HoldPart DEF ObjsKept, ProcKept
    <3>5. QED
      BY <1>2, <3>2, <3>3, <3>4 DEF Rest, ChannelInv, OpenChannels
  <2>8. HandlerInv'
    <3>1. ASSUME NEW k \in Nodes PROVE HandlerOf(k)'
      <4>1. HandlerOf(k) /\ NoNewWrite(k) /\ (k \in Nodes)
        BY <1>2 DEF NoNewWrite, Rest, ChannelInv, HandlerInv
      <4>2. ASSUME handler'[k].pc = "writing"
            PROVE  PipeKept(<<k, handler[k].m.pipe>>) /\ obj'[Target(k)].lock = obj[Target(k)].lock
        <5>1. handler[k].pc = "writing" /\ obj[Target(k)].lock = Handler
              /\ handler[k].m.type = "forward"
          BY <1>2, <4>1, <4>2 DEF HandlerOf
        <5>2. handler[k].m.pipe \in Pipes
          BY <5>1, MessageFields DEF Typed, HandlerType
        <5>3. <<k, handler[k].m.pipe>> # <<n, p>>
          BY <2>1, <5>1, NameAssumption DEF Target
        <5>4. QED
          BY <1>2, <2>2, <5>2, <5>3 DEF PipeKept
      <4>3. QED
        BY <2>4, <4>1, <4>2, HandlerOfKept
    <3>2. QED
      BY <3>1 DEF HandlerInv
  <2>9. QED
    BY <2>5, <2>6, <2>7, <2>8 DEF Rest, WriterInv, ChannelInv
<1>5. QED
  BY <1>3, <1>4

LEMMA CommandSteps ==
    ASSUME Typed, Rest, NEW n \in Nodes, CommandStep(n) \/ \E c \in script : Command(c)
    PROVE  Rest'
<1>1. CASE \E c \in script : Command(c)
  BY <1>1, AllKept, Same DEF Command, pipesState
<1>2. CASE CliWrite(n)
  <2>1. cli[n].pipe \in Pipes /\ cli[n].arg \in Contents
    BY <1>2, CommandFields DEF CliWrite, Runs, Typed, Contents
  <2>2. HandlersKept /\ UNCHANGED <<reader, line, misuse>> /\ NewWriter(n, cli[n].pipe, cli[n].arg)
    BY <1>2, Same DEF CliWrite
  <2>3. QED
    BY <2>1, <2>2, NewWriterKeeps
<1>3. CASE CliMode(n) \/ CliVia(n)
  <2>1. PICK p \in Pipes : p = cli[n].pipe
    BY <1>3, CommandFields DEF CliMode, CliVia, Runs, Typed
  <2> DEFINE o == Object(n, p)
  <2>2. Make(n, p) /\ UNCHANGED <<proc, handler, reader, line, misuse>>
    BY <1>3, <2>1 DEF CliMode, CliVia
  <2>3. o \in Objects /\ PipesKept
    BY <2>2, MakeType, MakeKeeps DEF Typed
  <2>4. /\ \A q \in Objects \ {o} : obj'[q] = obj[q]
        /\ \/ obj'[o] = [obj[o] EXCEPT !.mode = cli[n].arg]
           \/ obj'[o] = [obj[o] EXCEPT !.via = cli[n].arg, !.viaHost = n]
    BY <1>3, <2>1, <2>3 DEF CliMode, CliVia, Typed, PipeType
  <2>5. ObjKept(o)
    <3>1. obj[o] \in Pipe /\ n # None
      BY <2>3, NameAssumption DEF Typed, PipeType
    <3>2. obj'[o].numWriters = obj[o].numWriters /\ obj'[o].readers = obj[o].readers
          /\ obj'[o].lock = obj[o].lock /\ obj'[o].viaHost \in {obj[o].viaHost, n}
      BY <2>4, <3>1 DEF Pipe
    <3>3. QED
      BY <3>1, <3>2 DEF ObjKept, LockKept
  <2>6. ObjsKept
    <3> HIDE DEF o
    <3>1. QED
      BY <2>3, <2>4, <2>5, OneObj
  <2>7. QED
    BY <2>2, <2>3, <2>6, AllKept, Same
<1>4. QED
  BY <1>1, <1>2, <1>3, DeleteKeeps DEF CommandStep

(* Readers. *)
LEMMA NewReaderKeeps ==
    ASSUME Typed, Rest, NEW r \in Readers, NewReader(r), HandlersKept,
           \A g \in Procs : NoNewHold(g) /\ NoNewVia(g)
    PROVE  /\ ViaType' /\ ChannelInv'
           /\ PipesKept /\ CountsKept
<1> DEFINE n == NodeOf[r]
<1> DEFINE p == PipeOf[r]
<1> DEFINE o == Object(n, p)
<1>1. n \in Nodes /\ p \in Pipes /\ Make(n, p)
  BY ReaderPlace DEF NewReader
<1>2. PipesKept /\ o \in Objects
  BY <1>1, MakeKeeps, MakeType DEF Typed
<1>3. reader[r] \in ReaderState /\ reader[r].pc = "none"
  BY DEF Typed, UserType, NewReader
<1>4. reader'[r] = [reader[r] EXCEPT !.pc = "open", !.gen = Gen(n, p)]
      /\ \A k \in Readers \ {r} : reader'[k] = reader[k]
  BY DEF NewReader, Typed, UserType
<1>5. reader'[r].pc = "open" /\ reader'[r].gen = Gen(n, p)
  BY <1>3, <1>4 DEF ReaderState
<1>6. ReadersKept
  BY <1>3, <1>4 DEF ReadersKept, IsOpen
<1>7. obj'[o] = [obj[o] EXCEPT !.readers = @ \cup {r}] /\ \A q \in Objects \ {o} : obj'[q] = obj[q]
  BY <1>2 DEF NewReader, Typed, PipeType
<1>8. obj'[o].numWriters = obj[o].numWriters /\ obj'[o].readers = obj[o].readers \cup {r}
      /\ obj'[o].viaHost = obj[o].viaHost /\ obj'[o].lock = obj[o].lock
  BY <1>2, <1>7 DEF Typed, PipeType, Pipe
<1>9. \A q \in Objects : obj'[q].numWriters = obj[q].numWriters /\ obj'[q].viaHost = obj[q].viaHost
                         /\ obj'[q].lock = obj[q].lock
  BY <1>7, <1>8
<1>10. CountsKept /\ ViasKept /\ \A q \in Objects : LockKept(q)
  BY <1>9 DEF CountsKept, ViasKept, LockKept
<1>11. OwnOf(r)' = o /\ IsOpen(r)'
  BY <1>5 DEF OwnOf, Object, IsOpen
<1>12. ReadersInv'
  <2>1. ASSUME NEW q \in Objects, NEW k \in obj'[q].readers PROVE OwnOf(k)' = q /\ IsOpen(k)'
    <3>1. CASE k \in obj[q].readers
      <4>1. k \in Readers /\ OwnOf(k) = q /\ IsOpen(k)
        BY <3>1 DEF Rest, ChannelInv, ReadersInv, Typed, PipeType, Pipe
      <4>2. QED
        BY <1>6, <4>1, OwnOfKept
    <3>2. CASE k \notin obj[q].readers
      <4>1. q = o /\ k = r
        BY <1>7, <1>8, <2>1, <3>2
      <4>2. QED
        BY <1>11, <4>1
    <3>3. QED
      BY <3>1, <3>2
  <2>2. QED
    BY <2>1 DEF ReadersInv
<1>13. HoldInv' /\ HandlerInv'
  BY <1>2, <1>6, <1>10, HoldPart, HandlerPart
<1>14. ViaType' /\ OpenChannels'
  BY <1>10, ViaKept DEF NewReader, Rest, ChannelInv, OpenChannels
<1>15. QED
  BY <1>2, <1>10, <1>12, <1>13, <1>14 DEF ChannelInv

(* The channel of a reader is closed when no one holds the lock of its pipe. *)
LEMMA GoneKeeps ==
    ASSUME Typed, Rest, NEW r \in Readers, ReaderGone(r)
    PROVE  Rest'
<1> DEFINE o == OwnOf(r)
<1>1. o \in Objects /\ obj[o].lock = None /\ UNCHANGED <<gen, alive, proc, handler, line, misuse>>
  BY ReaderPlace DEF ReaderGone, Unlocked, OwnOf, Objects, Typed, UserType, ReaderState
<1>2. \A k \in Readers \ {r} : reader'[k] = reader[k]
  BY DEF ReaderGone, Typed, UserType
<1>3. reader[r] \in ReaderState /\ reader'[r] = [reader[r] EXCEPT !.pc = "gone"]
  BY DEF ReaderGone, Typed, UserType
<1>4. reader'[r].gen = reader[r].gen
  BY <1>3 DEF ReaderState
<1>5. obj'[o] = [obj[o] EXCEPT !.readers = @ \ {r}] /\ \A q \in Objects \ {o} : obj'[q] = obj[q]
  BY <1>1 DEF ReaderGone, Typed, PipeType
<1>6. obj'[o].numWriters = obj[o].numWriters /\ obj'[o].readers = obj[o].readers \ {r}
      /\ obj'[o].viaHost = obj[o].viaHost /\ obj'[o].lock = obj[o].lock
  BY <1>1, <1>5 DEF Typed, PipeType, Pipe
<1>7. \A q \in Objects : obj'[q].lock = obj[q].lock
  BY <1>5, <1>6
<1>8. ObjsKept
  <2>1. ObjKept(o)
    BY <1>6 DEF ObjKept, LockKept
  <2> HIDE DEF o
  <2>2. QED
    BY <1>1, <1>5, <2>1, OneObj
<1>9. PipesKept /\ LinesKept /\ HandlersKept /\ NoMisuse /\ \A g \in Procs : ProcKept(g)
  BY <1>1, Same
<1>10. ASSUME NEW k \in Readers, k # r PROVE OwnOf(k)' = OwnOf(k) /\ (IsOpen(k)' <=> IsOpen(k))
  BY <1>2, <1>10 DEF OwnOf, IsOpen
<1>11. WriterInv' /\ ViaType'
  BY <1>8, <1>9, WriterPart, ViaKept DEF Rest, ObjsKept, ProcKept
<1>12. ReadersInv'
  <2>1. ASSUME NEW q \in Objects, NEW k \in obj'[q].readers PROVE OwnOf(k)' = q /\ IsOpen(k)'
    <3>1. k \in obj[q].readers
      BY <1>5, <1>6
    <3>2. k \in Readers /\ OwnOf(k) = q /\ IsOpen(k)
      BY <3>1 DEF Rest, ChannelInv, ReadersInv, Typed, PipeType, Pipe
    <3>3. k # r
      BY <1>6, <2>1, <3>2
    <3>4. QED
      BY <1>10, <3>2, <3>3
  <2>2. QED
    BY <2>1 DEF ReadersInv
<1>13. HoldInv'
  <2>1. ASSUME NEW g \in Procs PROVE HoldOf(g)'
    <3>1. HoldOf(g) /\ Own(g) \in Objects /\ Own(g)' = Own(g) /\ proc'[g] = proc[g]
          /\ proc[g].todo \subseteq Readers /\ g # None
      BY <1>1, ProcFields, NameAssumption DEF Rest, ChannelInv, HoldInv, Typed, Own
    <3>2. ASSUME proc[g].pc = "writing", NEW k \in proc[g].todo PROVE OwnOf(k)' = Own(g)' /\ IsOpen(k)'
      <4>1. OwnOf(k) = Own(g) /\ IsOpen(k) /\ obj[Own(g)].lock = g /\ k \in Readers
        BY <3>1, <3>2 DEF HoldOf, Holding
      <4>2. k # r
        BY <1>1, <3>1, <4>1
      <4>3. QED
        BY <1>10, <3>1, <4>1, <4>2
    <3>3. QED
      BY <1>7, <3>1, <3>2 DEF HoldOf
  <2>2. QED
    BY <2>1 DEF HoldInv
<1>14. HandlerInv'
  <2>1. ASSUME NEW n \in Nodes, handler'[n].pc = "writing" PROVE HandlerOf(n)'
    <3>1. HandlerOf(n) /\ handler[n].pc = "writing" /\ handler[n].m \in Message /\ handler[n].todo \subseteq Readers
      BY <1>1, <2>1 DEF Rest, ChannelInv, HandlerInv, Typed, HandlerType, HandlerState
    <3>2. handler[n].m.type = "forward" /\ alive[<<n, handler[n].m.pipe>>] /\ obj[Target(n)].lock = Handler
      BY <3>1 DEF HandlerOf
    <3>3. Target(n)' = Target(n)
      BY <1>1 DEF Target, Object, Gen
    <3>4. Target(n) \in Objects
      BY <3>1, <3>2, MessageFields, ObjectIn DEF Target, Typed
    <3>5. ASSUME NEW k \in handler[n].todo PROVE OwnOf(k)' = Target(n) /\ IsOpen(k)'
      <4>1. OwnOf(k) = Target(n) /\ IsOpen(k) /\ k \in Readers
        BY <3>1 DEF HandlerOf
      <4>2. k # r
        BY <1>1, <3>2, <4>1, NameAssumption
      <4>3. QED
        BY <1>10, <4>1, <4>2
    <3>6. QED
      BY <1>1, <1>7, <3>2, <3>3, <3>4, <3>5 DEF HandlerOf
  <2>2. QED
    BY <2>1 DEF HandlerInv, HandlerOf
<1>15. QED
  BY <1>1, <1>11, <1>12, <1>13, <1>14 DEF Rest, ChannelInv, OpenChannels

LEMMA ReaderSteps ==
    ASSUME Typed, Rest, NEW r \in Readers, OpenReader(r) \/ CloseReader(r) \/ ReaderGone(r)
    PROVE  Rest'
<1>1. CASE OpenReader(r)
  <2>1. NewReader(r) /\ HandlersKept /\ LinesKept /\ \A g \in Procs : ProcKept(g)
    BY <1>1, Same DEF OpenReader
  <2>2. ViaType' /\ ChannelInv' /\ PipesKept /\ CountsKept
    BY <2>1, NewReaderKeeps DEF ProcKept
  <2>3. WriterInv'
    BY <2>1, <2>2, WriterPart DEF ProcKept
  <2>4. QED
    BY <2>2, <2>3 DEF Rest
<1>2. CASE CloseReader(r)
  <2>1. reader'[r] = [reader[r] EXCEPT !.pc = "done"] /\ reader[r] \in ReaderState
        /\ \A k \in Readers \ {r} : reader'[k] = reader[k]
    BY <1>2 DEF CloseReader, Typed, UserType
  <2>2. reader'[r].pc = "done" /\ reader'[r].gen = reader[r].gen
    BY <2>1 DEF ReaderState
  <2>3. ReadersKept
    BY <2>1, <2>2 DEF ReadersKept, IsOpen
  <2>4. QED
    BY <1>2, <2>3, AllKept, Same DEF CloseReader, pipesState
<1>3. QED
  BY <1>1, <1>2, GoneKeeps

(* Pipelines. *)
LEMMA LineMoves ==
    ASSUME UserType, NEW l \in Pipelines, \A k \in Pipelines \ {l} : line'[k] = line[k],
           line'[l].pc \in Early => line[l].pc \in Early
    PROVE  LinesKept
  BY DEF LinesKept

LEMMA StartReaderKeeps ==
    ASSUME Typed, Rest, NEW l \in Pipelines, StartReader(l)
    PROVE  Rest'
<1> DEFINE g == Writer(l)
<1>1. g \in Procs /\ Source[l] \in Readers /\ NewReader(Source[l]) /\ HandlersKept
      /\ line[l].pc = "started"
  BY WriterIsProc, Same DEF StartReader
<1>2. proc[g].pc = "off"
  BY <1>1 DEF Rest, WriterInv, StartedInv, Early
<1>3. proc'[g] = [proc[g] EXCEPT !.pc = "open"] /\ \A h \in Procs \ {g} : proc'[h] = proc[h]
  BY <1>1 DEF StartReader, Typed, ProcType
<1>4. proc'[g].pc = "open"
  BY <1>1, <1>3 DEF Typed, ProcType, Proc
<1>5. \A h \in Procs : WriterKept(h) /\ NoNewHold(h) /\ NoNewVia(h)
  <2>1. WriterKept(g) /\ NoNewHold(g) /\ NoNewVia(g)
    BY <1>2, <1>4 DEF WriterKept, NoNewHold, NoNewVia, Writing, Holding
  <2>2. \A h \in Procs \ {g} : WriterKept(h) /\ NoNewHold(h) /\ NoNewVia(h)
    BY <1>3 DEF WriterKept, NoNewHold, NoNewVia, Writing
  <2>3. QED
    BY <2>1, <2>2
<1>6. ViaType' /\ ChannelInv' /\ PipesKept /\ CountsKept
  BY <1>1, <1>5, NewReaderKeeps
<1>7. line'[l].pc = "reading" /\ \A k \in Pipelines \ {l} : line'[k] = line[k]
  BY DEF StartReader, Typed, UserType, LineState
<1>8. StartedInv'
  <2>1. LinesKept
    BY <1>7, LineMoves DEF Typed, Early
  <2>2. ASSUME NEW k \in Pipelines, line'[k].pc \in Early PROVE OffKept(Writer(k))
    <3>1. k # l
      BY <1>7, <2>2 DEF Early
    <3>2. Writer(k) # g /\ Writer(k) \in Procs
      BY <3>1, WriterIsProc DEF Writer
    <3>3. QED
      BY <1>3, <3>2 DEF OffKept
  <2>3. QED
    BY <2>1, <2>2, StartedKept DEF Rest, WriterInv
<1>9. WritersHavePipe' /\ CountInv'
  BY <1>5, <1>6, HavePipeKept, CountKept DEF Rest, WriterInv
<1>10. QED
  BY <1>6, <1>8, <1>9 DEF Rest, WriterInv

LEMMA StartWriterKeeps ==
    ASSUME Typed, Rest, NEW l \in Pipelines, StartWriter(l)
    PROVE  Rest'
<1> DEFINE g == Writer(l)
<1> DEFINE n == NodeOf[l]
<1> DEFINE p == PipeOf[l]
<1> DEFINE o == Object(n, p)
<1> DEFINE w == [NoProc EXCEPT !.pc = "range", !.pipe = p, !.gen = Gen(n, p)]
<1>1. g \in Procs /\ g.node = n /\ n \in Nodes /\ p \in Pipes /\ Make(n, p) /\ proc[g].pc = "opening"
  BY WriterIsProc DEF StartWriter
<1>2. PipesKept /\ o \in Objects
  BY <1>1, MakeKeeps, MakeType DEF Typed
<1>3. proc'[g] = w /\ \A h \in Procs \ {g} : proc'[h] = proc[h]
  BY <1>1 DEF StartWriter, Typed, ProcType
<1>4. proc'[g].pc = "range" /\ proc'[g].pipe = p /\ proc'[g].gen = Gen(n, p)
  BY <1>3, NoProcType DEF Proc
<1>5. obj'[o] = [obj[o] EXCEPT !.numWriters = @ + 1] /\ \A q \in Objects \ {o} : obj'[q] = obj[q]
  BY <1>2 DEF StartWriter, Typed, PipeType
<1>6. obj'[o].numWriters = obj[o].numWriters + 1 /\ obj'[o].readers = obj[o].readers
      /\ obj'[o].viaHost = obj[o].viaHost /\ obj'[o].lock = obj[o].lock
  BY <1>2, <1>5 DEF Typed, PipeType, Pipe
<1>7. \A q \in Objects : obj'[q].readers = obj[q].readers /\ obj'[q].viaHost = obj[q].viaHost
                         /\ obj'[q].lock = obj[q].lock
  BY <1>5, <1>6
<1>8. NoNewReaders /\ ViasKept /\ \A q \in Objects : LockKept(q)
  BY <1>7 DEF NoNewReaders, ViasKept, LockKept
<1>9. \A h \in Procs : NoNewHold(h) /\ NoNewVia(h) /\ OffKept(h)
  BY <1>1, <1>3, <1>4 DEF NoNewHold, NoNewVia, Holding, OffKept
<1>10. ViaType' /\ ChannelInv'
  BY <1>2, <1>8, <1>9, ChannelPart, Same DEF StartWriter
<1>11. StartedInv'
  <2>1. line'[l].pc = "running" /\ \A k \in Pipelines \ {l} : line'[k] = line[k]
    BY DEF StartWriter, Typed, UserType, LineState
  <2>2. LinesKept
    BY <2>1, LineMoves DEF Typed, Early
  <2>3. QED
    BY <1>9, <2>2, StartedKept, WriterIsProc DEF Rest, WriterInv
<1>12. WritersHavePipe' /\ CountInv'
  <2>1. Own(g)' = o /\ o[1] = g.node /\ o[2] = p /\ o[3] = Gen(n, p)
    BY <1>1, <1>4 DEF Own, Object
  <2>2. alive'[<<n, p>>] /\ gen'[<<n, p>>] = Gen(n, p)
    BY <1>1 DEF Make, Typed, PipeType
  <2>3. ~Writing(g) /\ Writing(g)'
    BY <1>1, <1>4 DEF Writing
  <2>4. obj'[o].numWriters = obj[o].numWriters + 1
        /\ \A q \in Objects \ {o} : obj'[q].numWriters = obj[q].numWriters
    BY <1>5, <1>6
  <2> HIDE DEF g, o, n, p
  <2>5. QED
    BY <1>1, <1>2, <1>3, <2>1, <2>2, <2>3, <2>4, Joins DEF Rest
<1>13. QED
  BY <1>10, <1>11, <1>12 DEF Rest, WriterInv

LEMMA PipelineSteps ==
    ASSUME Typed, Rest, NEW l \in Pipelines, Plumb(l) \/ PipelineDelete(l) \/ PipelineStep(l)
    PROVE  Rest'
<1>1. Writer(l) \in Procs /\ Source[l] \in Readers
  BY WriterIsProc
<1>2. CASE Plumb(l) \/ StartPipeline(l) \/ PipelineDelete(l) \/ ReadClosed(l) \/ WatchReader(l)
  <2>1. LinesKept
    <3>1. line[l] \in LineState /\ \A k \in Pipelines \ {l} : line'[k] = line[k]
      BY <1>2 DEF Plumb, StartPipeline, PipelineDelete, ReadClosed, WatchReader, Typed, UserType
    <3>2. line'[l].pc \in Early => line[l].pc \in Early
      BY <1>2, <3>1 DEF Plumb, StartPipeline, PipelineDelete, ReadClosed, WatchReader, Typed, UserType,
           LineState, Early
    <3>3. QED
      BY <3>1, <3>2, LineMoves DEF Typed
  <2>2. ReadersKept
    <3>1. CASE WatchReader(l)
      <4> DEFINE r == Source[l]
      <4>1. reader[r] \in ReaderState /\ \A k \in Readers \ {r} : reader'[k] = reader[k]
        BY <1>1, <3>1 DEF WatchReader, Typed, UserType
      <4>2. reader'[r] = [reader[r] EXCEPT !.pc = IF @ = "open" THEN "done" ELSE @]
        BY <1>1, <3>1 DEF WatchReader, Typed, UserType
      <4>3. reader'[r].gen = reader[r].gen /\ reader'[r].pc = IF reader[r].pc = "open" THEN "done" ELSE reader[r].pc
        BY <4>1, <4>2 DEF ReaderState
      <4>4. QED
        BY <4>1, <4>3 DEF ReadersKept, IsOpen
    <3>2. CASE ~WatchReader(l)
      BY <1>2, <3>2, Same DEF Plumb, StartPipeline, PipelineDelete, ReadClosed
    <3>3. QED
      BY <3>1, <3>2
  <2>3. NoMisuse
    BY <1>2 DEF NoMisuse, Plumb, StartPipeline, PipelineDelete, ReadClosed, WatchReader
  <2>4. UNCHANGED <<gen, alive, obj, proc, handler>>
    BY <1>2 DEF Plumb, StartPipeline, PipelineDelete, ReadClosed, WatchReader, pipesState
  <2>5. QED
    BY <2>1, <2>2, <2>3, <2>4, AllKept, Same
<1>3. CASE StartWriterLock(l) \/ PassOn(l) \/ StopPassing(l)
  <2> DEFINE g == Writer(l)
  <2>1. \A h \in Procs \ {g} : proc'[h] = proc[h]
    BY <1>1, <1>3 DEF StartWriterLock, PassOn, StopPassing, Typed, ProcType
  <2>2. proc[g] \in Proc
    BY <1>1 DEF Typed, ProcType
  <2>3. \/ proc[g].pc = "open" /\ proc'[g] = [proc[g] EXCEPT !.pc = "opening"]
        \/ proc[g].pc = "range" /\ proc'[g] = [proc[g] EXCEPT !.pc = "check", !.v = line[l].holds]
        \/ proc'[g] = [proc[g] EXCEPT !.closed = TRUE]
    BY <1>1, <1>3 DEF StartWriterLock, PassOn, StopPassing, Typed, ProcType
  <2>4. /\ proc'[g].pipe = proc[g].pipe /\ proc'[g].gen = proc[g].gen /\ proc'[g].todo = proc[g].todo
        /\ \/ proc[g].pc = "open" /\ proc'[g].pc = "opening"
           \/ proc[g].pc = "range" /\ proc'[g].pc = "check"
           \/ proc'[g].pc = proc[g].pc
    BY <2>2, <2>3 DEF Proc
  <2>5. ProcKept(g)
    BY <2>4 DEF ProcKept, WriterKept, NoNewHold, NoNewVia, OffKept, Writing, Holding
  <2>6. LinesKept
    <3>1. line[l] \in LineState /\ (UNCHANGED line \/ \A k \in Pipelines \ {l} : line'[k] = line[k])
      BY <1>3 DEF StartWriterLock, PassOn, StopPassing, users, Typed, UserType
    <3>2. line'[l].pc \in Early => line[l].pc \in Early
      BY <1>3, <3>1 DEF StartWriterLock, PassOn, StopPassing, users, Typed, UserType, LineState, Early
    <3>3. QED
      BY <3>1, <3>2, LineMoves, Same DEF Typed
  <2>7. UNCHANGED <<gen, alive, obj, handler, reader, misuse>>
    BY <1>3 DEF StartWriterLock, PassOn, StopPassing, pipesState, users
  <2>8. \A h \in Procs : ProcKept(h)
    <3> HIDE DEF g
    <3>1. QED
      BY <1>1, <2>1, <2>5, OneProc DEF g
  <2>9. QED
    BY <2>6, <2>7, <2>8, AllKept, Same
<1>4. QED
  BY <1>2, <1>3, StartReaderKeeps, StartWriterKeeps DEF PipelineStep

(* Locks of pipes. *)
LEMMA Acquires ==
    ASSUME Typed, Rest, NEW g \in Procs, \A h \in Procs \ {g} : proc'[h] = proc[h],
           WriterKept(g), OffKept(g), NoNewVia(g), HoldOf(g)', ObjsKept,
           PipesKept, ReadersKept, LinesKept, HandlersKept, NoMisuse
    PROVE  Rest'
<1>1. \A h \in Procs \ {g} : ProcKept(h)
  BY DEF ProcKept, WriterKept, NoNewHold, NoNewVia, OffKept, Writing
<1>2. \A h \in Procs : WriterKept(h) /\ OffKept(h) /\ NoNewVia(h)
  BY <1>1 DEF ProcKept
<1>3. WriterInv'
  BY <1>2, WriterPart DEF ObjsKept
<1>4. ViaType' /\ ReadersInv' /\ HandlerInv'
  BY <1>2, ViaKept, ReadersInvKept, HandlerPart DEF ObjsKept, Rest, ChannelInv
<1>5. HoldInv'
  <2>1. ASSUME NEW h \in Procs PROVE HoldOf(h)'
    <3>1. CASE h = g
      BY <3>1
    <3>2. CASE h # g
      BY <1>1, <3>2, HoldKept DEF Rest, ChannelInv, ObjsKept, ProcKept
    <3>3. QED
      BY <3>1, <3>2
  <2>2. QED
    BY <2>1 DEF HoldInv
<1>6. QED
  BY <1>3, <1>4, <1>5 DEF Rest, ChannelInv, OpenChannels, NoMisuse

LEMMA Releases ==
    ASSUME Typed, Rest, NEW g \in Procs, proc[g].pc \in Holding, proc'[g].pc \notin Holding,
           \A h \in Procs : ProcKept(h), CountsKept, NoNewReaders, ViasKept,
           \A o \in Objects \ {Own(g)} : obj'[o].lock = obj[o].lock,
           PipesKept, ReadersKept, LinesKept, HandlersKept, NoMisuse
    PROVE  Rest'
<1>1. WriterInv'
  BY WriterPart DEF ProcKept
<1>2. ViaType' /\ ReadersInv'
  BY ViaKept, ReadersInvKept DEF ProcKept, Rest, ChannelInv
<1>3. obj[Own(g)].lock = g
  BY DEF Rest, ChannelInv, HoldInv, HoldOf
<1>4. HoldInv'
  <2>1. ASSUME NEW h \in Procs PROVE HoldOf(h)'
    <3>1. HoldOf(h) /\ NoNewHold(h) /\ Own(h) \in Objects
      BY ProcFields DEF Rest, ChannelInv, HoldInv, ProcKept, Typed
    <3>2. ASSUME proc'[h].pc \in Holding PROVE obj'[Own(h)].lock = obj[Own(h)].lock
      <4>1. obj[Own(h)].lock = h /\ h # g
        BY <3>1, <3>2 DEF HoldOf, NoNewHold
      <4>2. QED
        BY <1>3, <3>1, <4>1
    <3>3. QED
      BY <3>1, <3>2, HoldOfKept
  <2>2. QED
    BY <2>1 DEF HoldInv
<1>5. HandlerInv'
  <2>1. ASSUME NEW n \in Nodes PROVE HandlerOf(n)'
    <3>1. HandlerOf(n) /\ NoNewWrite(n)
      BY DEF Rest, ChannelInv, HandlerInv, HandlersKept
    <3>2. ASSUME handler'[n].pc = "writing"
          PROVE  PipeKept(<<n, handler[n].m.pipe>>) /\ obj'[Target(n)].lock = obj[Target(n)].lock
      <4>1. handler[n].pc = "writing" /\ obj[Target(n)].lock = Handler
            /\ alive[<<n, handler[n].m.pipe>>] /\ handler[n].m.type = "forward"
        BY <3>1, <3>2 DEF HandlerOf, NoNewWrite
      <4>2. handler[n].m.pipe \in Pipes
        BY <4>1, MessageFields DEF Typed, HandlerType
      <4>3. Target(n) \in Objects
        BY <4>1, <4>2, ObjectIn DEF Typed, Target
      <4>4. Target(n) # Own(g)
        BY <1>3, <4>1, NameAssumption
      <4>5. QED
        BY <4>2, <4>3, <4>4 DEF PipesKept
    <3>3. QED
      BY <3>1, <3>2, HandlerOfKept
  <2>2. QED
    BY <2>1 DEF HandlerInv
<1>6. QED
  BY <1>1, <1>2, <1>4, <1>5 DEF Rest, ChannelInv, OpenChannels, NoMisuse

LEMMA SendKeeps ==
    ASSUME Typed, NEW r \in Readers, IsOpen(r), NEW v, Send(r, v)
    PROVE  ReadersKept /\ LinesKept /\ NoMisuse
<1>1. CASE reader[r].pc = "done"
  BY <1>1, Same DEF Send
<1>2. CASE reader[r].pc = "open"
  <2>1. reader[r] \in ReaderState /\ \A k \in Readers \ {r} : reader'[k] = reader[k]
    BY <1>2 DEF Send, Typed, UserType
  <2>2. reader'[r].pc = reader[r].pc /\ reader'[r].gen = reader[r].gen
    BY <1>2, <2>1 DEF Send, Typed, UserType, ReaderState
  <2>3. ReadersKept
    BY <2>1, <2>2 DEF ReadersKept, IsOpen
  <2>4. ASSUME NEW l \in Pipelines PROVE line'[l].pc = line[l].pc
    <3>1. line[l] \in LineState /\ (line'[l] = line[l] \/ line'[l] = [line[l] EXCEPT !.holds = v])
      BY <1>2 DEF Send, Typed, UserType
    <3>2. QED
      BY <3>1 DEF LineState
  <2>5. LinesKept
    BY <2>4 DEF LinesKept
  <2>6. QED
    BY <1>2, <2>3, <2>5 DEF Send, NoMisuse
<1>3. QED
  BY <1>1, <1>2 DEF IsOpen

(* Writers. *)
LEMMA QueryKeeps ==
    ASSUME Typed, Rest, NEW g \in Procs, Writing(g), Unlocked(Now(g)), NEW pc \in {"query", "requery"},
           Query(g, pc), UNCHANGED <<gen, alive, handler, users, misuse>>
    PROVE  Rest'
<1> DEFINE o == Own(g)
<1>1. Now(g) = o /\ o \in Objects /\ obj[o] \in Pipe /\ obj[o].lock = None /\ proc[g] \in Proc
  BY NowIsOwn DEF Rest, WriterInv, Typed, ProcType, Unlocked
<1>2. obj'[o] = [obj[o] EXCEPT !.lock = g, !.cache = {}] /\ \A q \in Objects \ {o} : obj'[q] = obj[q]
  BY <1>1 DEF Query, Typed, PipeType
<1>3. obj'[o].lock = g /\ obj'[o].numWriters = obj[o].numWriters /\ obj'[o].readers = obj[o].readers
      /\ obj'[o].viaHost = obj[o].viaHost
  BY <1>1, <1>2 DEF Pipe
<1>4. ObjKept(o)
  BY <1>1, <1>3 DEF ObjKept, LockKept
<1>5. proc'[g] = [proc[g] EXCEPT !.pc = pc, !.wait = Others(g.node)]
      /\ \A h \in Procs \ {g} : proc'[h] = proc[h]
  BY DEF Query, Typed, ProcType
<1>6. proc'[g].pc = pc /\ proc'[g].pipe = proc[g].pipe /\ proc'[g].gen = proc[g].gen
  BY <1>1, <1>5 DEF Proc
<1>7. WriterKept(g) /\ OffKept(g) /\ NoNewVia(g)
  BY <1>6 DEF WriterKept, OffKept, NoNewVia, Writing
<1>8. Own(g)' = Own(g)
  BY <1>6 DEF Own
<1>9. HoldOf(g)'
  BY <1>3, <1>6, <1>8 DEF HoldOf
<1>10. ObjsKept
  <2> HIDE DEF o
  <2>1. QED
    BY <1>1, <1>2, <1>4, OneObj
<1>11. QED
  BY <1>5, <1>7, <1>9, <1>10, Acquires, Same DEF users

(* A goroutine that goes on with another reader chosen. *)
LEMMA ForwardKept ==
    ASSUME ProcType, NEW g \in Procs, Writing(g), NEW r,
           proc' = [proc EXCEPT ![g].pc = "forward", ![g].r = r]
    PROVE  (\A h \in Procs : ProcKept(h)) /\ proc'[g].pc = "forward"
<1>1. proc'[g] = [proc[g] EXCEPT !.pc = "forward", !.r = r] /\ \A h \in Procs \ {g} : proc'[h] = proc[h]
  BY DEF ProcType
<1>2. proc'[g].pc = "forward" /\ proc'[g].pipe = proc[g].pipe /\ proc'[g].gen = proc[g].gen
  BY <1>1 DEF ProcType, Proc
<1>3. ProcKept(g)
  BY <1>2 DEF ProcKept, WriterKept, NoNewHold, NoNewVia, OffKept, Writing, Holding
<1>4. QED
  BY <1>1, <1>2, <1>3, OneProc

LEMMA ScheduleKeeps ==
    ASSUME Typed, Rest, NEW g \in Procs, ScheduleLock(g) \/ Schedule(g) \/ Check(g) \/ ViaWrite(g)
    PROVE  Rest'
<1>1. Writing(g)
  BY DEF Writing, ScheduleLock, Schedule, Check, ViaWrite, At
<1>2. UNCHANGED <<gen, alive, handler, reader, line, misuse>>
  BY DEF ScheduleLock, Schedule, Check, ViaWrite, pipesState, users
<1>3. CASE ScheduleLock(g)
  <2>1. \A h \in Procs : ProcKept(h)
    BY <1>1, <1>3, Goes DEF ScheduleLock, Holding, Typed
  <2>2. QED
    BY <1>2, <1>3, <2>1, AllKept, Same DEF ScheduleLock, pipesState
<1>4. CASE ViaWrite(g)
  <2>1. \A h \in Procs : ProcKept(h)
    BY <1>1, <1>4, Idles DEF ViaWrite, Typed
  <2>2. QED
    BY <1>2, <1>4, <2>1, AllKept, Same DEF ViaWrite, pipesState
<1>5. CASE Check(g)
  <2> DEFINE pc == IF obj[Own(g)].viaHost \notin {None, g.node} THEN "via" ELSE "schedule"
  <2>1. Go(g, pc) /\ UNCHANGED obj
    BY <1>5 DEF Check, pipesState
  <2>2. pc \notin Holding \cup {"off", "open", "opening"}
    BY DEF Holding
  <2>3. /\ \A h \in Procs : WriterKept(h) /\ NoNewHold(h) /\ OffKept(h)
        /\ \A h \in Procs \ {g} : ProcKept(h)
    <3> HIDE DEF pc
    <3>1. QED
      BY <1>1, <2>1, <2>2, Goes DEF Typed
  <2>4. ObjsKept /\ PipesKept /\ ReadersKept /\ LinesKept /\ HandlersKept /\ NoMisuse
    BY <1>2, <2>1, Same
  <2>5. WriterInv' /\ ReadersInv' /\ HoldInv' /\ HandlerInv'
    BY <2>3, <2>4, WriterPart, ReadersInvKept, HoldPart, HandlerPart DEF ObjsKept, Rest, ChannelInv
  <2>6. ViaType'
    <3>1. ASSUME NEW h \in Procs, proc'[h].pc = "via" PROVE obj'[Own(h)'].viaHost # None
      <4>1. CASE h = g
        <5>1. proc'[g].pc = pc /\ Own(g)' = Own(g)
          BY <2>1 DEF Go, Own, Typed, ProcType, Proc
        <5>2. QED
          BY <2>1, <3>1, <4>1, <5>1
      <4>2. CASE h # g
        BY <2>1, <2>3, <3>1, <4>2 DEF ProcKept, NoNewVia, Rest, ViaType, Own
      <4>3. QED
        BY <4>1, <4>2
    <3>2. QED
      BY <3>1 DEF ViaType
  <2>7. QED
    BY <2>4, <2>5, <2>6 DEF Rest, ChannelInv, OpenChannels, NoMisuse
<1>6. CASE Schedule(g)
  <2>1. CASE NoSuchPipe(g)
    <3>1. UNCHANGED obj /\ \A h \in Procs : ProcKept(h)
      BY <1>1, <2>1, Idles DEF NoSuchPipe, Typed
    <3>2. QED
      BY <1>2, <3>1, AllKept, Same
  <2>2. CASE proc' = [proc EXCEPT ![g].pc = "forward", ![g].r = ScheduleAll] /\ UNCHANGED obj
    <3>1. \A h \in Procs : ProcKept(h)
      BY <1>1, <2>2, ForwardKept DEF Typed
    <3>2. QED
      BY <1>2, <2>2, <3>1, AllKept, Same
  <2>3. CASE Query(g, "query") /\ Unlocked(Now(g))
    BY <1>1, <1>6, <2>3, QueryKeeps DEF Schedule
  <2>4. QED
    BY <1>6, <2>1, <2>2, <2>3 DEF Schedule
<1>7. QED
  BY <1>3, <1>4, <1>5, <1>6

(* What the release of a lock leaves of a pipe. *)
LEMMA LockGiven ==
    ASSUME PipeType, NEW o \in Objects, \A q \in Objects \ {o} : obj'[q] = obj[q],
           obj'[o].numWriters = obj[o].numWriters, obj'[o].readers = obj[o].readers,
           obj'[o].viaHost = obj[o].viaHost
    PROVE  CountsKept /\ NoNewReaders /\ ViasKept /\ \A q \in Objects \ {o} : obj'[q].lock = obj[q].lock
<1>1. \A q \in Objects : obj'[q].numWriters = obj[q].numWriters /\ obj'[q].readers = obj[q].readers
                         /\ obj'[q].viaHost = obj[q].viaHost
  OBVIOUS
<1>2. QED
  BY <1>1 DEF CountsKept, NoNewReaders, ViasKept

LEMMA QueriedKeeps ==
    ASSUME Typed, Rest, NEW g \in Procs, Queried(g) \/ Timeout(g) \/ Requeried(g)
    PROVE  Rest'
<1> DEFINE o == Own(g)
<1>1. Writing(g) /\ proc[g].pc \in Holding
  BY DEF Writing, Queried, Timeout, Requeried, At, Holding
<1>2. Now(g) = o /\ o \in Objects /\ obj[o] \in Pipe
  BY <1>1, NowIsOwn DEF Rest, WriterInv
<1>3. UNCHANGED <<gen, alive, reader, line, misuse>>
  BY DEF Queried, Timeout, Requeried, users
<1>4. /\ \A q \in Objects \ {o} : obj'[q] = obj[q]
      /\ \/ obj'[o] = [obj[o] EXCEPT !.lock = None]
         \/ \E k : obj'[o] = [obj[o] EXCEPT !.lock = None, !.last = k]
  BY ZenonT(40), <1>2 DEF Queried, Timeout, Requeried, Typed, PipeType
<1>5. obj'[o].numWriters = obj[o].numWriters /\ obj'[o].readers = obj[o].readers
      /\ obj'[o].viaHost = obj[o].viaHost
  BY <1>2, <1>4 DEF Pipe
<1>6. CountsKept /\ NoNewReaders /\ ViasKept /\ \A q \in Objects \ {o} : obj'[q].lock = obj[q].lock
  <2> HIDE DEF o
  <2>1. QED
    BY <1>2, <1>4, <1>5, LockGiven DEF Typed
<1>7. (\A h \in Procs : ProcKept(h)) /\ proc'[g].pc \notin Holding
  <2>1. CASE Queried(g)
    <3>1. PICK r \in Choice(Now(g)) : proc' = [proc EXCEPT ![g].pc = "forward", ![g].r = r]
      BY <2>1 DEF Queried
    <3>2. QED
      BY <1>1, <3>1, ForwardKept DEF Typed, Holding
  <2>2. CASE Idle(g)
    BY <1>1, <2>2, Idles, IdleType DEF Typed, Holding
  <2>3. CASE Go(g, "write")
    <3>1. proc'[g].pc = "write"
      BY <2>3 DEF Go, Typed, ProcType, Proc
    <3>2. QED
      BY <1>1, <2>3, <3>1, Goes DEF Typed, Holding
  <2>4. QED
    BY <2>1, <2>2, <2>3 DEF Timeout, Requeried, Forwards, ViaFails
<1>8. HandlersKept
  <2>1. CASE Timeout(g)
    <3>1. ASSUME NEW n \in Nodes, handler'[n].pc = "writing" PROVE handler'[n] = handler[n]
      <4>1. handler[n] \in HandlerState /\ HandlerOf(n)
        BY DEF Typed, HandlerType, Rest, ChannelInv, HandlerInv
      <4>2. handler'[n] = handler[n] \/ handler'[n] = [handler[n] EXCEPT !.m = Over(g, handler[n].m)]
        BY <2>1 DEF Timeout
      <4>3. handler[n].pc = "writing"
        BY <3>1, <4>1, <4>2 DEF HandlerState
      <4>4. Over(g, handler[n].m) = handler[n].m
        BY <4>1, <4>3 DEF HandlerOf, Over
      <4>5. QED
        BY <4>1, <4>2, <4>4 DEF HandlerState
    <3>2. QED
      BY <3>1 DEF HandlersKept, NoNewWrite
  <2>2. CASE ~Timeout(g)
    BY <2>2, Same DEF Queried, Requeried
  <2>3. QED
    BY <2>1, <2>2
<1>9. QED
  BY <1>1, <1>3, <1>6, <1>7, <1>8, Releases, Same

LEMMA ForwardKeeps ==
    ASSUME Typed, Rest, NEW g \in Procs, ForwardLock(g) \/ Forward(g)
    PROVE  Rest'
<1>1. Writing(g)
  BY DEF Writing, ForwardLock, Forward, At
<1>2. UNCHANGED <<gen, alive, handler, reader, line, misuse>>
  BY DEF ForwardLock, Forward, pipesState, users
<1>3. CASE Query(g, "requery") /\ Unlocked(Now(g)) /\ Forward(g)
  BY <1>1, <1>3, QueryKeeps DEF Forward
<1>4. CASE (Go(g, "forwarding") \/ Go(g, "write")) /\ UNCHANGED obj
  <2>1. \A h \in Procs : ProcKept(h)
    <3>1. CASE Go(g, "forwarding")
      BY <1>1, <3>1, Goes DEF Typed, Holding
    <3>2. CASE Go(g, "write")
      BY <1>1, <3>2, Goes DEF Typed, Holding
    <3>3. QED
      BY <1>4, <3>1, <3>2
  <2>2. QED
    BY <1>2, <1>4, <2>1, AllKept, Same
<1>5. CASE Idle(g) /\ UNCHANGED obj
  <2>1. \A h \in Procs : ProcKept(h)
    BY <1>1, <1>5, Idles DEF Typed
  <2>2. QED
    BY <1>2, <1>5, <2>1, AllKept, Same
<1>6. QED
  BY <1>3, <1>4, <1>5 DEF ForwardLock, Forward, NoSuchPipe, Forwards, ViaFails, pipesState

LEMMA WriteKeeps ==
    ASSUME Typed, Rest, NEW g \in Procs,
           WriteLock(g) \/ (\E r \in Readers : WriteTo(g, r)) \/ WriteEnd(g)
    PROVE  Rest'
<1> DEFINE o == Own(g)
<1>1. Writing(g)
  BY DEF Writing, WriteLock, WriteTo, WriteEnd, At
<1>2. o \in Objects /\ obj[o] \in Pipe /\ proc[g] \in Proc /\ HoldOf(g)
  BY <1>1, NowIsOwn DEF Rest, WriterInv, Typed, ProcType, ChannelInv, HoldInv
<1>3. UNCHANGED <<gen, alive, handler>>
  BY DEF WriteLock, WriteTo, WriteEnd, pipesState
<1>4. CASE WriteLock(g)
  <2>1. obj'[o] = [obj[o] EXCEPT !.lock = g] /\ \A q \in Objects \ {o} : obj'[q] = obj[q]
    BY <1>2, <1>4 DEF WriteLock, Typed, PipeType
  <2>2. obj'[o].lock = g /\ obj'[o].numWriters = obj[o].numWriters /\ obj'[o].readers = obj[o].readers
        /\ obj'[o].viaHost = obj[o].viaHost
    BY <1>2, <2>1 DEF Pipe
  <2>3. ObjKept(o)
    BY <1>4, <2>2 DEF ObjKept, LockKept, WriteLock, Unlocked
  <2>4. ObjsKept
    <3> HIDE DEF o
    <3>1. QED
      BY <1>2, <2>1, <2>3, OneObj
  <2>5. proc'[g] = [proc[g] EXCEPT !.pc = "writing", !.todo = Recipients(o, proc[g].r)]
        /\ \A h \in Procs \ {g} : proc'[h] = proc[h]
    BY <1>4 DEF WriteLock, Typed, ProcType
  <2>6. proc'[g].pc = "writing" /\ proc'[g].pipe = proc[g].pipe /\ proc'[g].gen = proc[g].gen
        /\ proc'[g].todo \subseteq obj[o].readers
    BY <1>2, <2>5 DEF Proc, Recipients
  <2>7. WriterKept(g) /\ OffKept(g) /\ NoNewVia(g)
    BY <1>1, <2>6 DEF WriterKept, OffKept, NoNewVia, Writing
  <2>8. UNCHANGED <<reader, line, misuse>>
    BY <1>4 DEF WriteLock, users
  <2>9. HoldOf(g)'
    <3>1. Own(g)' = o
      BY <2>6 DEF Own
    <3>2. ASSUME NEW r \in proc'[g].todo PROVE OwnOf(r)' = o /\ IsOpen(r)'
      <4>1. OwnOf(r) = o /\ IsOpen(r)
        BY <1>2, <2>6 DEF Rest, ChannelInv, ReadersInv
      <4>2. QED
        BY <2>8, <4>1 DEF OwnOf, IsOpen
    <3>3. QED
      BY <2>2, <3>1, <3>2 DEF HoldOf
  <2>10. QED
    BY <1>3, <2>4, <2>5, <2>7, <2>8, <2>9, Acquires, Same
<1>5. ASSUME NEW r \in Readers, WriteTo(g, r) PROVE Rest'
  <2>1. proc[g].pc = "writing" /\ r \in proc[g].todo /\ Send(r, proc[g].v) /\ UNCHANGED obj
    BY <1>5 DEF WriteTo, At, pipesState
  <2>2. ReadersKept /\ LinesKept /\ NoMisuse
    BY <1>2, <2>1, SendKeeps DEF HoldOf
  <2>3. proc'[g] = [proc[g] EXCEPT !.todo = @ \ {r}] /\ \A h \in Procs \ {g} : proc'[h] = proc[h]
    BY <1>5 DEF WriteTo, Typed, ProcType
  <2>4. proc'[g].pc = proc[g].pc /\ proc'[g].pipe = proc[g].pipe /\ proc'[g].gen = proc[g].gen
        /\ proc'[g].todo \subseteq proc[g].todo
    BY <1>2, <2>3 DEF Proc
  <2>5. ProcKept(g)
    BY <2>4 DEF ProcKept, WriterKept, NoNewHold, NoNewVia, OffKept, Writing
  <2>6. \A h \in Procs : ProcKept(h)
    BY <2>3, <2>5, OneProc
  <2>7. QED
    BY <1>3, <2>1, <2>2, <2>6, AllKept, Same
<1>6. CASE WriteEnd(g)
  <2>1. obj'[o] = [obj[o] EXCEPT !.lock = None] /\ \A q \in Objects \ {o} : obj'[q] = obj[q]
    BY <1>2, <1>6 DEF WriteEnd, Typed, PipeType
  <2>2. obj'[o].numWriters = obj[o].numWriters /\ obj'[o].readers = obj[o].readers
        /\ obj'[o].viaHost = obj[o].viaHost
    BY <1>2, <2>1 DEF Pipe
  <2>3. CountsKept /\ NoNewReaders /\ ViasKept /\ \A q \in Objects \ {o} : obj'[q].lock = obj[q].lock
    <3> HIDE DEF o
    <3>1. QED
      BY <1>2, <2>1, <2>2, LockGiven DEF Typed
  <2>4. Idle(g) /\ proc[g].pc \in Holding /\ UNCHANGED <<reader, line, misuse>>
    BY <1>6 DEF WriteEnd, At, Holding, users
  <2>5. (\A h \in Procs : ProcKept(h)) /\ proc'[g].pc \notin Holding
    BY <1>1, <2>4, Idles, IdleType DEF Typed, Holding
  <2>6. QED
    BY <1>3, <2>3, <2>4, <2>5, Releases, Same
<1>7. QED
  BY <1>4, <1>5, <1>6

LEMMA CloseKeeps ==
    ASSUME Typed, Rest, NEW g \in Procs, CloseWriter(g)
    PROVE  Rest'
<1>1. Writing(g) /\ proc[g].pc = "range"
  BY DEF Writing, CloseWriter, At
<1>2. PICK o \in Objects : o = Own(g) /\ obj[o] \in Pipe
  BY <1>1, NowIsOwn DEF Rest, WriterInv
<1>3. UNCHANGED <<gen, alive, handler, reader, line, misuse>>
  BY DEF CloseWriter, users
<1>4. obj'[o] = [obj[o] EXCEPT !.numWriters = @ - 1] /\ \A q \in Objects \ {o} : obj'[q] = obj[q]
  BY <1>2 DEF CloseWriter, Typed, PipeType
<1>5. obj'[o].numWriters = obj[o].numWriters - 1 /\ obj'[o].readers = obj[o].readers
      /\ obj'[o].viaHost = obj[o].viaHost /\ obj'[o].lock = obj[o].lock
  BY <1>2, <1>4 DEF Pipe
<1>6. \A q \in Objects : obj'[q].readers = obj[q].readers /\ obj'[q].viaHost = obj[q].viaHost
                         /\ obj'[q].lock = obj[q].lock
  BY <1>4, <1>5
<1>7. NoNewReaders /\ ViasKept /\ \A q \in Objects : LockKept(q)
  BY <1>6 DEF NoNewReaders, ViasKept, LockKept
<1>8. proc'[g] = NoProc /\ proc'[g].pc = "off" /\ \A h \in Procs \ {g} : proc'[h] = proc[h]
  BY DEF CloseWriter, Typed, ProcType, NoProc
<1>9. \A h \in Procs : NoNewHold(h) /\ NoNewVia(h) /\ OffKept(h)
  BY <1>8 DEF NoNewHold, NoNewVia, Holding, OffKept
<1>10. ViaType' /\ ChannelInv' /\ StartedInv'
  BY <1>3, <1>7, <1>9, ChannelPart, Same, StartedKept, WriterIsProc DEF Rest, WriterInv
<1>11. ~Writing(g)' /\ \A h \in Procs \ {g} : (Writing(h)' <=> Writing(h)) /\ Own(h)' = Own(h)
  BY <1>8 DEF Writing, Own
<1>12. WritersHavePipe'
  <2>1. ASSUME NEW h \in Procs, Writing(h)'
        PROVE  alive'[<<h.node, proc'[h].pipe>>] /\ gen'[<<h.node, proc'[h].pipe>>] = proc'[h].gen
    <3>1. Writing(h) /\ proc'[h] = proc[h]
      BY <1>8, <1>11, <2>1
    <3>2. QED
      BY <1>3, <3>1 DEF Rest, WriterInv, WritersHavePipe
  <2>2. QED
    BY <2>1 DEF WritersHavePipe
<1>13. CountInv'
  <2>1. WritersOf(o)' = WritersOf(o) \ {g} /\ g \in WritersOf(o)
    <3>1. ASSUME NEW h \in Procs
          PROVE  (Writing(h)' /\ Own(h)' = o) <=> (h # g /\ Writing(h) /\ Own(h) = o)
      BY <1>11
    <3>2. g \in WritersOf(o)
      BY <1>1, <1>2 DEF WritersOf
    <3>3. QED
      BY <3>1, <3>2 DEF WritersOf
  <2>2. ASSUME NEW q \in Objects, q # o PROVE WritersOf(q)' = WritersOf(q)
    <3>1. ASSUME NEW h \in Procs PROVE (Writing(h)' /\ Own(h)' = q) <=> (Writing(h) /\ Own(h) = q)
      BY <1>2, <1>11, <2>2
    <3>2. QED
      BY <3>1 DEF WritersOf
  <2>3. ASSUME NEW q \in Objects
        PROVE  IsFiniteSet(WritersOf(q)') /\ obj'[q].numWriters = Cardinality(WritersOf(q)')
    <3>1. CASE q = o
      <4>1. IsFiniteSet(WritersOf(o)) /\ obj[o].numWriters = Cardinality(WritersOf(o))
        BY <1>2 DEF Rest, WriterInv, CountInv
      <4>2. IsFiniteSet(WritersOf(o) \ {g})
            /\ Cardinality(WritersOf(o) \ {g}) = Cardinality(WritersOf(o)) - 1
        BY <2>1, <4>1, FS_RemoveElement
      <4>3. QED
        BY <1>5, <2>1, <3>1, <4>1, <4>2
    <3>2. CASE q # o
      BY <1>4, <2>2, <3>2 DEF Rest, WriterInv, CountInv
    <3>3. QED
      BY <3>1, <3>2
  <2>4. QED
    BY <2>3 DEF CountInv
<1>14. QED
  BY <1>10, <1>12, <1>13 DEF Rest, WriterInv

LEMMA WriterSteps ==
    ASSUME Typed, Rest, NEW g \in Procs, WriterStep(g)
    PROVE  Rest'
  BY ScheduleKeeps, QueriedKeeps, ForwardKeeps, WriteKeeps, CloseKeeps DEF WriterStep

(* The goroutine handleMessages. *)
LEMMA MessageKeeps ==
    ASSUME Typed, Rest, NEW n \in Nodes,
           (\E m \in net : Receive(n, m)) \/ LookUpTID(n) \/ HandlerLock(n) \/ SendReaders(n)
    PROVE  Rest'
<1>1. UNCHANGED <<gen, alive, obj, proc, reader, line, misuse>>
  BY DEF Receive, LookUpTID, HandlerLock, SendReaders, pipesState, users
<1>2. HandlersKept
  <2>1. CASE SendReaders(n)
    BY <2>1, DoneKeeps DEF SendReaders, Typed
  <2>2. CASE ~SendReaders(n)
    <3>1. \A k \in Nodes \ {n} : handler'[k] = handler[k]
      BY <2>2 DEF Receive, LookUpTID, HandlerLock, Typed, HandlerType
    <3>2. handler[n] \in HandlerState /\ IdleHandler \in HandlerState
      BY IdleHandlerType DEF Typed, HandlerType
    <3>3. \/ \E m : handler'[n] = [IdleHandler EXCEPT !.pc = "got", !.m = m]
          \/ handler'[n] = [handler[n] EXCEPT !.pc = "answer"]
          \/ handler'[n] = [IdleHandler EXCEPT !.pc = "dead"]
          \/ \E d : handler'[n] = [handler[n] EXCEPT !.pc = "locked", !.data = d]
      BY <2>2 DEF Receive, LookUpTID, HandlerLock, Typed, HandlerType
    <3>4. handler'[n].pc # "writing"
      BY <3>2, <3>3 DEF HandlerState
    <3>5. QED
      BY <3>1, <3>4, OneHandler DEF NoNewWrite
  <2>3. QED
    BY <2>1, <2>2
<1>3. QED
  BY <1>1, <1>2, AllKept, Same

LEMMA AnswerKeeps ==
    ASSUME Typed, Rest, NEW n \in Nodes, Answer(n)
    PROVE  Rest'
<1> DEFINE m == handler[n].m
<1>1. m \in Message /\ m.type = "response" /\ UNCHANGED <<gen, alive, reader, line, misuse>>
  BY HandlerFields DEF Answer, Typed, users
<1>2. HandlersKept
  <2>1. handler'[n] = IdleHandler /\ \A k \in Nodes \ {n} : handler'[k] = handler[k]
    BY DEF Typed, HandlerType, Answer
  <2>2. QED
    BY <2>1, OneHandler DEF NoNewWrite, IdleHandler
<1>3. CASE m.tid = None
  BY <1>1, <1>2, <1>3, AllKept, Same DEF Answer
<1>4. CASE m.tid # None
  <2>1. PICK g \in Procs : g = m.tid
    BY <1>1, <1>4, MessageFields DEF TIDs
  <2>2. proc'[g] = [proc[g] EXCEPT !.wait = @ \ {m.from}] /\ \A h \in Procs \ {g} : proc'[h] = proc[h]
    BY <1>4, <2>1 DEF Answer, Typed, ProcType
  <2>3. proc'[g].pc = proc[g].pc /\ proc'[g].pipe = proc[g].pipe /\ proc'[g].gen = proc[g].gen
        /\ proc'[g].todo = proc[g].todo
    BY <2>2 DEF Typed, ProcType, Proc
  <2>4. \A h \in Procs : ProcKept(h)
    <3>1. ProcKept(g)
      BY <2>3 DEF ProcKept, WriterKept, NoNewHold, NoNewVia, OffKept, Writing
    <3>2. QED
      BY <2>2, <3>1, OneProc
  <2>5. ObjsKept
    <3> DEFINE o == Now(g)
    <3>1. obj' = [obj EXCEPT ![o].cache = @ \cup m.readers]
      BY <1>4, <2>1 DEF Answer
    <3>2. CASE o \in Objects
      <4>1. obj'[o] = [obj[o] EXCEPT !.cache = @ \cup m.readers] /\ \A q \in Objects \ {o} : obj'[q] = obj[q]
        BY <3>1, <3>2 DEF Typed, PipeType
      <4>2. ObjKept(o)
        BY <3>2, <4>1 DEF ObjKept, LockKept, Typed, PipeType, Pipe
      <4> HIDE DEF o
      <4>3. QED
        BY <3>2, <4>1, <4>2, OneObj
    <3>3. CASE o \notin Objects
      <4>1. obj' = obj
        BY <3>1, <3>3 DEF Typed, PipeType
      <4>2. QED
        BY <4>1, Same
    <3>4. QED
      BY <3>2, <3>3
  <2>6. QED
    BY <1>1, <1>2, <2>4, <2>5, AllKept, Same
<1>5. QED
  BY <1>3, <1>4

LEMMA ViaHostKeeps ==
    ASSUME Typed, Rest, NEW n \in Nodes, HandleViaHost(n)
    PROVE  Rest'
<1>1. handler[n].m \in Message /\ handler[n].m.type = "viahost"
  BY HandlerFields DEF HandleViaHost, Typed
<1>2. PICK p \in Pipes : p = handler[n].m.pipe
  BY <1>1, MessageFields
<1> DEFINE o == Object(n, p)
<1> DEFINE x == IF handler[n].m.host # None THEN handler[n].m.host ELSE n
<1>3. Make(n, p) /\ UNCHANGED <<proc, reader, line, misuse>> /\ HandlersKept
  BY <1>2, DoneKeeps DEF HandleViaHost, Typed, users
<1>4. o \in Objects /\ PipesKept /\ obj[o] \in Pipe /\ x # None
  BY <1>3, MakeType, MakeKeeps, NameAssumption DEF Typed, PipeType
<1>5. obj'[o] = [obj[o] EXCEPT !.viaHost = x] /\ \A q \in Objects \ {o} : obj'[q] = obj[q]
  BY <1>2, <1>4 DEF HandleViaHost, Typed, PipeType
<1>6. ObjKept(o)
  <2> HIDE DEF o, x
  <2>1. QED
    BY <1>4, <1>5 DEF ObjKept, LockKept, Pipe
<1>7. ObjsKept
  <2> HIDE DEF o
  <2>1. QED
    BY <1>4, <1>5, <1>6, OneObj
<1>8. QED
  BY <1>3, <1>4, <1>7, AllKept, Same

(* A write of the handler goes over the readers of a pipe of its node, with  *)
(* the lock of that pipe.                                                    *)
LEMMA HandlerWriteKeeps ==
    ASSUME Typed, Rest, NEW n \in Nodes,
           WriteNoForward(n) \/ (\E r \in Readers : HandlerWrites(n, r)) \/ HandlerWrote(n)
    PROVE  Rest'
<1>1. UNCHANGED <<gen, alive, proc>> /\ handler[n] \in HandlerState
  BY DEF WriteNoForward, HandlerWrites, HandlerWrote, pipesState, users, Typed, HandlerType
<1>2. handler[n].m \in Message /\ handler[n].m.type = "forward" /\ HandlerOf(n)
  BY HandlerFields DEF WriteNoForward, HandlerWrites, HandlerWrote, Typed, Rest, ChannelInv, HandlerInv
<1>3. PICK p \in Pipes : p = handler[n].m.pipe
  BY <1>2, MessageFields
<1>4. PipesKept /\ \A g \in Procs : ProcKept(g)
  BY <1>1, Same
<1> DEFINE o == Object(n, p)
<1>5. o = Target(n) /\ (alive[<<n, p>>] => o \in Objects /\ obj[o] \in Pipe)
  BY <1>3, ObjectIn DEF Target, Typed, PipeType
<1>6. CASE WriteNoForward(n)
  <2>1. UNCHANGED <<reader, line, misuse>>
    BY <1>6 DEF WriteNoForward, users
  <2>2. CASE Done(n) /\ UNCHANGED obj
    BY <1>4, <2>1, <2>2, DoneKeeps, AllKept, Same DEF Typed
  <2>3. CASE ~(Done(n) /\ UNCHANGED obj)
    <3>1. alive[<<n, p>>] /\ Unlocked(o) /\ obj' = [obj EXCEPT ![o].lock = Handler]
      BY <1>3, <1>6, <2>3 DEF WriteNoForward
    <3>2. PICK r \in handler[n].data :
             handler' = [handler EXCEPT ![n].pc = "writing", ![n].data = @ \ {r}, ![n].todo = Recipients(o, r)]
      BY <1>3, <1>6, <2>3 DEF WriteNoForward
    <3>3. o \in Objects /\ obj[o] \in Pipe /\ obj[o].lock = None
      BY <1>5, <3>1 DEF Unlocked
    <3>4. obj'[o] = [obj[o] EXCEPT !.lock = Handler] /\ \A q \in Objects \ {o} : obj'[q] = obj[q]
      BY <3>1, <3>3 DEF Typed, PipeType
    <3>5. obj'[o].lock = Handler /\ obj'[o].numWriters = obj[o].numWriters
          /\ obj'[o].readers = obj[o].readers /\ obj'[o].viaHost = obj[o].viaHost
      BY <3>3, <3>4 DEF Pipe
    <3>6. ObjKept(o)
      BY <3>3, <3>5 DEF ObjKept, LockKept
    <3>7. ObjsKept
      <4> HIDE DEF o
      <4>1. QED
        BY <3>3, <3>4, <3>6, OneObj
    <3>8. handler'[n] = [handler[n] EXCEPT !.pc = "writing", !.data = @ \ {r}, !.todo = Recipients(o, r)]
          /\ \A k \in Nodes \ {n} : handler'[k] = handler[k]
      BY <3>2 DEF Typed, HandlerType
    <3>9. handler'[n].pc = "writing" /\ handler'[n].m = handler[n].m
          /\ handler'[n].todo \subseteq obj[o].readers
      BY <1>1, <3>8 DEF HandlerState, Recipients
    <3>10. Target(n)' = o
      BY <1>1, <1>5, <3>9 DEF Target, Object, Gen
    <3>11. HandlerOf(n)'
      <4>1. ASSUME NEW k \in handler'[n].todo PROVE OwnOf(k)' = o /\ IsOpen(k)'
        <5>1. OwnOf(k) = o /\ IsOpen(k)
          BY <3>3, <3>9 DEF Rest, ChannelInv, ReadersInv
        <5>2. QED
          BY <2>1, <5>1 DEF OwnOf, IsOpen
      <4>2. handler'[n].m.type = "forward" /\ alive'[<<n, handler'[n].m.pipe>>]
        BY <1>1, <1>2, <1>3, <3>1, <3>9
      <4>3. QED
        BY <3>5, <3>10, <4>1, <4>2 DEF HandlerOf
    <3>12. ReadersKept /\ LinesKept /\ NoMisuse
      BY <2>1, Same
    <3>13. HandlerInv'
      <4>1. ASSUME NEW k \in Nodes, k # n PROVE HandlerOf(k)'
        <5>1. NoNewWrite(k)
          BY <3>8, <4>1 DEF NoNewWrite
        <5>2. QED
          BY <1>4, <3>7, <3>12, <5>1, HandlersInvKept DEF Rest, ChannelInv, ObjsKept
      <4>2. QED
        BY <3>11, <4>1 DEF HandlerInv
    <3>14. WriterInv' /\ ViaType' /\ ReadersInv' /\ HoldInv'
      BY <1>4, <3>7, <3>12, WriterPart, ViaKept, ReadersInvKept, HoldPart
         DEF ProcKept, ObjsKept, Rest, ChannelInv
    <3>15. QED
      BY <3>12, <3>13, <3>14 DEF Rest, ChannelInv, OpenChannels, NoMisuse
  <2>4. QED
    BY <2>2, <2>3
<1>7. ASSUME NEW r \in Readers, HandlerWrites(n, r) PROVE Rest'
  <2>1. handler[n].pc = "writing" /\ r \in handler[n].todo /\ Send(r, handler[n].m.v) /\ UNCHANGED obj
    BY <1>7 DEF HandlerWrites, Handles, pipesState
  <2>2. ReadersKept /\ LinesKept /\ NoMisuse
    BY <1>2, <2>1, SendKeeps DEF HandlerOf
  <2>3. handler'[n] = [handler[n] EXCEPT !.todo = @ \ {r}] /\ \A k \in Nodes \ {n} : handler'[k] = handler[k]
    BY <1>7 DEF HandlerWrites, Typed, HandlerType
  <2>4. handler'[n].pc = handler[n].pc /\ handler'[n].m = handler[n].m /\ handler'[n].todo \subseteq handler[n].todo
    BY <1>1, <2>3 DEF HandlerState
  <2>5. HandlersKept
    BY <2>3, <2>4, OneHandler DEF NoNewWrite
  <2>6. QED
    BY <1>4, <2>1, <2>2, <2>5, AllKept, Same
<1>8. CASE HandlerWrote(n)
  <2>1. UNCHANGED <<reader, line, misuse>> /\ obj' = [obj EXCEPT ![o].lock = None]
        /\ handler[n].pc = "writing"
        /\ handler' = [handler EXCEPT ![n].pc = "locked", ![n].todo = {}]
    BY <1>3, <1>8 DEF HandlerWrote, Handles, users
  <2>2. o \in Objects /\ obj[o] \in Pipe /\ obj[o].lock = Handler
    BY <1>2, <1>3, <1>5, <2>1 DEF HandlerOf
  <2>3. obj'[o] = [obj[o] EXCEPT !.lock = None] /\ \A q \in Objects \ {o} : obj'[q] = obj[q]
    BY <2>1, <2>2 DEF Typed, PipeType
  <2>4. obj'[o].numWriters = obj[o].numWriters /\ obj'[o].readers = obj[o].readers
        /\ obj'[o].viaHost = obj[o].viaHost
    BY <2>2, <2>3 DEF Pipe
  <2>5. CountsKept /\ NoNewReaders /\ ViasKept /\ \A q \in Objects \ {o} : obj'[q].lock = obj[q].lock
    <3> HIDE DEF o
    <3>1. QED
      BY <2>2, <2>3, <2>4, LockGiven DEF Typed
  <2>6. ReadersKept /\ LinesKept /\ NoMisuse
    BY <2>1, Same
  <2>7. WriterInv' /\ ViaType' /\ ReadersInv'
    BY <1>4, <2>5, <2>6, WriterPart, ViaKept, ReadersInvKept DEF ProcKept, Rest, ChannelInv
  <2>8. HoldInv'
    <3>1. ASSUME NEW h \in Procs PROVE HoldOf(h)'
      <4>1. HoldOf(h) /\ NoNewHold(h) /\ Own(h) \in Objects
        BY <1>4, ProcFields DEF Rest, ChannelInv, HoldInv, ProcKept, Typed
      <4>2. ASSUME proc'[h].pc \in Holding PROVE obj'[Own(h)].lock = obj[Own(h)].lock
        <5>1. obj[Own(h)].lock = h
          BY <4>1, <4>2 DEF HoldOf, NoNewHold
        <5>2. Own(h) # o
          BY <2>2, <5>1, NameAssumption
        <5>3. QED
          BY <2>5, <4>1, <5>2
      <4>3. QED
        BY <2>6, <4>1, <4>2, HoldOfKept
    <3>2. QED
      BY <3>1 DEF HoldInv
  <2>9. handler'[n].pc = "locked" /\ \A k \in Nodes \ {n} : handler'[k] = handler[k]
    BY <1>1, <2>1 DEF Typed, HandlerType, HandlerState
  <2>10. HandlerInv'
    <3>1. ASSUME NEW k \in Nodes, k # n PROVE HandlerOf(k)'
      <4>1. HandlerOf(k) /\ NoNewWrite(k)
        BY <2>9, <3>1 DEF NoNewWrite, Rest, ChannelInv, HandlerInv
      <4>2. ASSUME handler'[k].pc = "writing"
            PROVE  PipeKept(<<k, handler[k].m.pipe>>) /\ obj'[Target(k)].lock = obj[Target(k)].lock
        <5>1. handler[k].pc = "writing" /\ alive[<<k, handler[k].m.pipe>>] /\ handler[k].m.type = "forward"
          BY <4>1, <4>2 DEF HandlerOf, NoNewWrite
        <5>2. handler[k].m.pipe \in Pipes
          BY <5>1, MessageFields DEF Typed, HandlerType
        <5>3. Target(k) \in Objects
          BY <5>1, <5>2, ObjectIn DEF Typed, Target
        <5>4. Target(k) # o
          BY <3>1 DEF Target, Object
        <5>5. QED
          BY <1>4, <2>5, <5>2, <5>3, <5>4 DEF PipesKept
      <4>3. QED
        BY <2>6, <4>1, <4>2, HandlerOfKept
    <3>2. HandlerOf(n)'
      BY <2>9 DEF HandlerOf
    <3>3. QED
      BY <3>1, <3>2 DEF HandlerInv
  <2>11. QED
    BY <2>6, <2>7, <2>8, <2>10 DEF Rest, ChannelInv, OpenChannels, NoMisuse
<1>9. QED
  BY <1>6, <1>7, <1>8

LEMMA HandlerSteps ==
    ASSUME Typed, Rest, NEW n \in Nodes, HandlerStep(n)
    PROVE  Rest'
<1>1. CASE HandleViaWrite(n)
  <2>1. handler[n].m \in Message /\ handler[n].m.type = "viawrite"
    BY <1>1, HandlerFields DEF HandleViaWrite, Typed
  <2>2. handler[n].m.pipe \in Pipes /\ handler[n].m.v \in Contents
    BY <2>1, MessageFields
  <2>3. NewWriter(n, handler[n].m.pipe, handler[n].m.v) /\ HandlersKept /\ UNCHANGED <<reader, line, misuse>>
    BY <1>1, DoneKeeps DEF HandleViaWrite, Typed, users
  <2>4. QED
    BY <2>2, <2>3, NewWriterKeeps
<1>2. QED
  BY <1>1, MessageKeeps, AnswerKeeps, ViaHostKeeps, HandlerWriteKeeps DEF HandlerStep

----------------------------------------------------------------------------
(* The theorems. *)

LEMMA Starts == Init => IInv
<1> SUFFICES ASSUME Init PROVE IInv
  OBVIOUS
<1>1. NoProc.pc = "off" /\ NewPipe \in Pipe /\ IdleHandler \in HandlerState
  BY IdleHandlerType DEF NoProc, NewPipe, Pipe, Modes
<1>2. PipeType /\ ProcType /\ LockType /\ net \subseteq Message
  <2>1. 0 \in 0 .. MaxGen
    BY BoundAssumption
  <2>2. QED
    BY <1>1, <2>1, NoProcType DEF Init, PipeType, ProcType, LockType
<1>3. HandlerType
  BY <1>1 DEF Init, HandlerType, IdleHandler
<1>4. UserType
  <2>1. 1 \in Gens
    BY BoundAssumption DEF Gens
  <2>2. [pc |-> "none", gen |-> 1, got |-> {}, twice |-> {}] \in ReaderState
    BY <2>1 DEF ReaderState
  <2>3. [pc |-> "none", done |-> FALSE, holds |-> None] \in LineState
    BY DEF LineState
  <2>4. QED
    BY <2>2, <2>3, ScriptAssumption DEF Init, UserType
<1>5. \A g \in Procs : proc[g].pc = "off"
  BY <1>1 DEF Init
<1>6. ViaType /\ HoldInv /\ WritersHavePipe /\ StartedInv
  BY <1>5, WriterIsProc DEF ViaType, HoldInv, HoldOf, Holding, WritersHavePipe, Writing, StartedInv
<1>7. ReadersInv /\ HandlerInv /\ OpenChannels
  BY DEF Init, ReadersInv, NewPipe, HandlerInv, HandlerOf, IdleHandler, OpenChannels
<1>8. CountInv
  <2>1. ASSUME NEW o \in Objects PROVE WritersOf(o) = {} /\ obj[o].numWriters = 0
    BY <1>5 DEF WritersOf, Writing, Init, NewPipe
  <2>2. QED
    BY <2>1, FS_EmptySet DEF CountInv
<1>9. QED
  BY <1>2, <1>3, <1>4, <1>6, <1>7, <1>8 DEF IInv, TypeInv, WriterInv, ChannelInv

LEMMA Parts == IInv <=> Typed /\ Rest
  BY DEF IInv, TypeInv, Typed, Rest

LEMMA Inductive == IInv /\ [Next]_vars => IInv'
<1> SUFFICES ASSUME Typed, Rest, [Next]_vars PROVE Typed' /\ Rest'
  BY Parts DEF IInv, TypeInv, Typed, Rest
<1>1. WritersHavePipe /\ CountInv /\ ViaType
  BY DEF Rest, WriterInv
<1>2. CASE UNCHANGED vars
  <2>1. UNCHANGED <<pipesState, proc, handler, users, misuse, plock, net, gen, alive, obj, reader, line>>
    BY <1>2 DEF vars, pipesState, users
  <2>2. Rest'
    BY <2>1, AllKept, Same
  <2>3. Typed'
    BY <2>1, Unchanged DEF Typed
  <2>4. QED
    BY <2>2, <2>3
<1>3. ASSUME NEW c \in script, Command(c) PROVE Typed' /\ Rest'
  <2>1. PICK n \in Nodes : TRUE
    BY <1>3 DEF Command, Commands
  <2>2. QED
    BY <1>3, <2>1, CommandTypes, CommandSteps
<1>4. ASSUME NEW n \in Nodes, CommandStep(n) \/ HandlerStep(n) PROVE Typed' /\ Rest'
  BY <1>1, <1>4, CommandTypes, CommandSteps, HandlerTypes, HandlerSteps
<1>5. ASSUME NEW r \in Readers, OpenReader(r) \/ CloseReader(r) \/ ReaderGone(r) PROVE Typed' /\ Rest'
  BY <1>5, ReaderTypes, ReaderSteps
<1>6. ASSUME NEW l \in Pipelines, Plumb(l) \/ PipelineDelete(l) \/ PipelineStep(l) PROVE Typed' /\ Rest'
  BY <1>6, PipelineTypes, PipelineSteps
<1>7. ASSUME NEW g \in Procs, WriterStep(g) PROVE Typed' /\ Rest'
  BY <1>1, <1>7, WriterTypes, WriterSteps
<1>8. QED
  BY <1>2, <1>3, <1>4, <1>5, <1>6, <1>7 DEF Next

(* The invariant of the plumbing, for every command, value, pipeline and        *)
(* message in any order.                                                        *)
THEOREM Invariant == Spec => []IInv
<1>1. IInv /\ [Next]_vars => IInv'
  BY Inductive
<1>2. QED
  BY Starts, <1>1, PTL DEF Spec

(* Pipes keep their writers and count them: PipeDelete never takes a pipe from  *)
(* under an open writer, on whichever node and however it was made.             *)
THEOREM WritersAreSound == Spec => []WritersSound
<1>1. IInv => WritersSound
  <2> SUFFICES ASSUME IInv PROVE WritersSound
    OBVIOUS
  <2>1. WritersHavePipe
    BY DEF IInv, WriterInv
  <2>2. WritersCounted
    BY DEF IInv, WriterInv, CountInv, WritersCounted, WritersOf
  <2>3. ASSUME NEW n \in Nodes PROVE handler[n].m = None \/ handler[n].m \in Message
    BY DEF IInv, TypeInv, HandlerType, HandlerState
  <2>4. ASSUME NEW r \in Readers PROVE reader[r].got \subseteq Contents /\ reader[r].twice \subseteq Contents
    BY DEF IInv, TypeInv, UserType, ReaderState
  <2>5. TypeOK
    BY <2>3, <2>4 DEF IInv, TypeInv, PipeType, ProcType, UserType, LockType, TypeOK
  <2>6. QED
    BY <2>1, <2>2, <2>5 DEF WritersSound
<1>2. QED
  BY Invariant, <1>1, PTL

(* No value is sent on a closed channel, which would end the process: a reader  *)
(* is closed under the lock of its pipe, and a write that goes over the readers *)
(* holds it until the last of them has taken the value.                         *)
THEOREM ChannelsAreOpen == Spec => []OpenChannels
<1>1. IInv => OpenChannels
  BY DEF IInv, ChannelInv
<1>2. QED
  BY Invariant, <1>1, PTL

----------------------------------------------------------------------------
(* Delivery.  A way of a value to a reader is a place from which the value *)
(* can still get to it: the command that writes it, a pipeline that holds  *)
(* it, a writer, or a message on its way or in a handler.                  *)

Vals == Values \ {Empty}

(* A writer that has a value, before and after it sends it to other nodes. *)
Deciding == {"check", "via", "schedule", "scheduling", "query", "forward", "forwarding", "requery"}
Sending == {"write", "writing"}

Writes(c, v, q) == c.op = "write" /\ c.pipe = q /\ c.arg = v
Carries(m, type, v, q) == m.type = type /\ m.pipe = q /\ m.v = v
IsFor(data, r) == ScheduleAll \in data \/ r \in data
Works(n) == handler[n].pc \notin {"idle", "dead"}

(* The recipients that a handler has not begun to write for *)
Pending(n) == IF handler[n].pc = "got" THEN handler[n].m.data ELSE handler[n].data

ScriptWay(v, r, c) == c \in script /\ Writes(c, v, PipeOf[r])

CliWay(v, r, n) == n \in Nodes /\ cli[n] # None /\ Writes(cli[n], v, PipeOf[r])

LineWay(v, r, l) == l \in Pipelines /\ PipeOf[l] = PipeOf[r] /\ line[l].holds = v

ProcWay(v, r, g) ==
    /\ g \in Procs /\ proc[g].v = v /\ proc[g].pipe = PipeOf[r]
    /\ \/ proc[g].pc \in Deciding
       \/ proc[g].pc = "write" /\ g.node = NodeOf[r] /\ proc[g].r \in {ScheduleAll, r}
       \/ proc[g].pc = "writing" /\ r \in proc[g].todo

NetWay(v, r, m) ==
    /\ m \in net
    /\ \/ Carries(m, "viawrite", v, PipeOf[r])
       \/ Carries(m, "forward", v, PipeOf[r]) /\ m.to = NodeOf[r] /\ IsFor(m.data, r)

HandlerWay(v, r, n) ==
    /\ n \in Nodes /\ Works(n)
    /\ \/ Carries(handler[n].m, "viawrite", v, PipeOf[r])
       \/ Carries(handler[n].m, "forward", v, PipeOf[r]) /\ n = NodeOf[r] /\ IsFor(Pending(n), r)

TodoWay(v, r, n) ==
    /\ n \in Nodes /\ handler[n].pc = "writing" /\ r \in handler[n].todo
    /\ Carries(handler[n].m, "forward", v, PipeOf[r])

Way(v, r, k, i) ==
    \/ k = "script" /\ ScriptWay(v, r, i)
    \/ k = "cli" /\ CliWay(v, r, i)
    \/ k = "line" /\ LineWay(v, r, i)
    \/ k = "proc" /\ ProcWay(v, r, i)
    \/ k = "net" /\ NetWay(v, r, i)
    \/ k = "handler" /\ HandlerWay(v, r, i)
    \/ k = "todo" /\ TodoWay(v, r, i)

Some(v, r) == \E k, i : Way(v, r, k, i)

One(v, r) == \A k1, i1, k2, i2 : Way(v, r, k1, i1) /\ Way(v, r, k2, i2) => k1 = k2 /\ i1 = i2

(* The pipes that pipelines lead to *)
Leads(reach) == \A p \in Pipes :
    /\ p \in reach[p]
    /\ \A l \in Pipelines : PipeOf[Source[l]] \in reach[p] =>
          /\ PipeOf[l] \in reach[p] \ {p}
          /\ \A m \in Pipelines : PipeOf[Source[m]] \in reach[p] /\ PipeOf[m] = PipeOf[l] => m = l

Reach == CHOOSE reach \in [Pipes -> SUBSET Pipes] : Leads(reach)

(* A value is on a pipe because it was written to it, the pipe home[v], or *)
(* because the reader of a pipeline got it.                                *)
Origin(home, v, q) ==
    /\ q \in Reach[home[v]]
    /\ q = home[v] \/ \E l \in Pipelines : PipeOf[l] = q /\ v \in reader[Source[l]].got

(* There is one way of a value to a reader, and none once it has got it. *)
OneWay(home, v, r) ==
    /\ One(v, r) /\ (v \in reader[r].got => ~Some(v, r))
    /\ (Some(v, r) \/ v \in reader[r].got => Origin(home, v, PipeOf[r]))
    /\ v \notin reader[r].twice

(* There is none to a reader that was not chosen. *)
Passes(g, v, r) ==
    /\ proc[g].pc \in Sending /\ proc[g].v = v /\ proc[g].r \notin {ScheduleAll, r}
    /\ PipeOf[r] = proc[g].pipe /\ obj[Own(g)].viaHost = None

NoWay(home, g, r) == \A v \in Vals :
    Passes(g, v, r) => v \notin reader[r].got /\ ~Some(v, r) /\ Origin(home, v, PipeOf[r])

(* The writer of a pipeline has its pipe. *)
LinePipe == \A l \in Pipelines : Writing(Writer(l)) => proc[Writer(l)].pipe = PipeOf[l]

(* forward asks for readers only for a value that is for all of them. *)
Requeries == \A g \in Procs : proc[g].pc = "requery" => proc[g].r = ScheduleAll

(* A message is for all readers, or for some. *)
Sorted(data) == ScheduleAll \in data => data = {ScheduleAll}

NetSorted == \A m \in net : m.type = "forward" => Sorted(m.data)
HandlerSorted == \A n \in Nodes : Works(n) /\ handler[n].m.type = "forward" => Sorted(Pending(n))

(* A pipe with a via has had a host for it. *)
ViaHosted == \A o \in Objects : obj[o].viaHost = None => ~obj[o].via

Delivery(home) ==
    /\ \A v \in Vals, r \in Readers : OneWay(home, v, r)
    /\ \A g \in Procs, r \in Readers : NoWay(home, g, r)
    /\ LinePipe /\ Requeries /\ NetSorted /\ HandlerSorted /\ ViaHosted

----------------------------------------------------------------------------
(* What a step does to the ways of a value to a reader. *)

Fewer(v, r) == \A k, i : Way(v, r, k, i)' => Way(v, r, k, i)

Moved(v, r) == Some(v, r) /\ One(v, r)'

GotKept(v, r) == (v \in reader'[r].got <=> v \in reader[r].got)
                 /\ (v \in reader'[r].twice => v \in reader[r].twice)

Flows(v, r) == (Fewer(v, r) \/ Moved(v, r)) /\ GotKept(v, r)

Taken(v, r) ==
    /\ \E k1, i1 : Way(v, r, k1, i1) /\ \A k, i : Way(v, r, k, i)' => Way(v, r, k, i) /\ ~(k = k1 /\ i = i1)
    /\ v \in reader'[r].twice => v \in reader[r].twice \/ v \in reader[r].got

(* The reader of a pipeline gets a value for the pipe of r. *)
Born(v, r) == \E s \in Readers :
    /\ \E l \in Pipelines : Source[l] = s /\ PipeOf[l] = PipeOf[r]
    /\ Some(v, s) /\ v \in reader'[s].got /\ GotKept(v, r)
    /\ \A k, i : Way(v, r, k, i)' => \/ Way(v, r, k, i)
                                     \/ k = "line" /\ i \in Pipelines /\ Source[i] = s /\ PipeOf[i] = PipeOf[r]

LEMMA ReachLeads ==
    ASSUME OnePath
    PROVE  Reach \in [Pipes -> SUBSET Pipes] /\ Leads(Reach)
<1>1. \E reach \in [Pipes -> SUBSET Pipes] : Leads(reach)
  BY DEF OnePath, Leads
<1>2. QED
  BY <1>1 DEF Reach

LEMMA OriginKept ==
    ASSUME NEW home, NEW v, NEW q, Origin(home, v, q),
           \A s \in Readers : v \in reader[s].got => v \in reader'[s].got
    PROVE  Origin(home, v, q)'
  BY PlaceAssumption DEF Origin

(* A value that gets to a pipe by a pipeline is not there yet. *)
LEMMA NotYet ==
    ASSUME OnePath, NEW home \in [Values -> Pipes], NEW v \in Vals, NEW s \in Readers,
           \A r \in Readers : OneWay(home, v, r), Some(v, s),
           NEW l \in Pipelines, Source[l] = s
    PROVE  /\ ~Origin(home, v, PipeOf[l]) /\ PipeOf[l] \in Reach[home[v]]
           /\ \A m \in Pipelines : Source[m] = s /\ PipeOf[m] = PipeOf[l] => m = l
<1>1. Leads(Reach) /\ home[v] \in Pipes
  BY ReachLeads DEF Vals
<1>2. Origin(home, v, PipeOf[s]) /\ v \notin reader[s].got
  BY DEF OneWay
<1>3. PipeOf[Source[l]] \in Reach[home[v]]
  BY <1>2 DEF Origin
<1>4. /\ PipeOf[l] \in Reach[home[v]] \ {home[v]}
      /\ \A m \in Pipelines : PipeOf[Source[m]] \in Reach[home[v]] /\ PipeOf[m] = PipeOf[l] => m = l
  BY <1>1, <1>3 DEF Leads
<1>5. ASSUME NEW m \in Pipelines, PipeOf[m] = PipeOf[l], v \in reader[Source[m]].got
      PROVE  FALSE
  <2>1. Source[m] \in Readers
    BY WriterIsProc
  <2>2. PipeOf[Source[m]] \in Reach[home[v]]
    BY <1>5, <2>1 DEF OneWay, Origin
  <2>3. m = l
    BY <1>4, <1>5, <2>2
  <2>4. QED
    BY <1>2, <1>5, <2>3
<1>6. ~Origin(home, v, PipeOf[l])
  BY <1>4, <1>5 DEF Origin
<1>7. QED
  BY <1>3, <1>4, <1>6

LEMMA FlowsKeep ==
    ASSUME NEW home, NEW v, NEW r \in Readers, OneWay(home, v, r), Flows(v, r),
           \A s \in Readers : v \in reader[s].got => v \in reader'[s].got
    PROVE  OneWay(home, v, r)' /\ (Some(v, r)' => Some(v, r))
<1>1. Some(v, r)' => Some(v, r)
  BY DEF Flows, Fewer, Moved, Some
<1>2. One(v, r)'
  <2>1. CASE Fewer(v, r)
    BY <2>1 DEF Fewer, OneWay, One
  <2>2. CASE Moved(v, r)
    BY <2>2 DEF Moved
  <2>3. QED
    BY <2>1, <2>2 DEF Flows
<1>3. v \in reader'[r].got => ~Some(v, r)'
  BY <1>1 DEF Flows, GotKept, OneWay
<1>4. Some(v, r)' \/ v \in reader'[r].got => Origin(home, v, PipeOf[r])'
  BY <1>1, OriginKept DEF Flows, GotKept, OneWay
<1>5. v \notin reader'[r].twice
  BY DEF Flows, GotKept, OneWay
<1>6. QED
  BY <1>1, <1>2, <1>3, <1>4, <1>5 DEF OneWay

LEMMA TakenKeeps ==
    ASSUME NEW home, NEW v, NEW r \in Readers, OneWay(home, v, r), Taken(v, r),
           \A s \in Readers : v \in reader[s].got => v \in reader'[s].got
    PROVE  OneWay(home, v, r)' /\ ~Some(v, r)'
<1>1. PICK k1, i1 : /\ Way(v, r, k1, i1)
                    /\ \A k, i : Way(v, r, k, i)' => Way(v, r, k, i) /\ ~(k = k1 /\ i = i1)
  BY DEF Taken
<1>2. \A k, i : ~Way(v, r, k, i)'
  BY <1>1 DEF OneWay, One
<1>3. ~Some(v, r)' /\ One(v, r)'
  BY <1>2 DEF Some, One
<1>4. Some(v, r)
  BY <1>1 DEF Some
<1>5. Origin(home, v, PipeOf[r])'
  BY <1>4, OriginKept DEF OneWay
<1>6. v \notin reader'[r].twice
  BY <1>4 DEF Taken, OneWay
<1>7. QED
  BY <1>3, <1>5, <1>6 DEF OneWay

LEMMA BornKeeps ==
    ASSUME OnePath, NEW home \in [Values -> Pipes], NEW v \in Vals, NEW r \in Readers, Born(v, r),
           \A s \in Readers : OneWay(home, v, s)
    PROVE  OneWay(home, v, r)' /\ ~Origin(home, v, PipeOf[r])
<1>1. PICK s \in Readers :
        /\ \E l \in Pipelines : Source[l] = s /\ PipeOf[l] = PipeOf[r]
        /\ Some(v, s) /\ v \in reader'[s].got /\ GotKept(v, r)
        /\ \A k, i : Way(v, r, k, i)' =>
              \/ Way(v, r, k, i)
              \/ k = "line" /\ i \in Pipelines /\ Source[i] = s /\ PipeOf[i] = PipeOf[r]
  BY DEF Born
<1>2. PICK l \in Pipelines : Source[l] = s /\ PipeOf[l] = PipeOf[r]
  BY <1>1
<1>3. /\ ~Origin(home, v, PipeOf[r]) /\ PipeOf[r] \in Reach[home[v]]
      /\ \A m \in Pipelines : Source[m] = s /\ PipeOf[m] = PipeOf[r] => m = l
  BY <1>1, <1>2, NotYet
<1>4. ~Some(v, r) /\ v \notin reader[r].got
  BY <1>3 DEF OneWay
<1>5. \A k, i : Way(v, r, k, i)' => k = "line" /\ i = l
  BY <1>1, <1>3, <1>4 DEF Some
<1>6. One(v, r)'
  BY <1>5 DEF One
<1>7. v \notin reader'[r].got /\ v \notin reader'[r].twice
  BY <1>1, <1>4 DEF GotKept, OneWay
<1>8. Origin(home, v, PipeOf[r])'
  BY <1>1, <1>2, <1>3 DEF Origin
<1>9. QED
  BY <1>3, <1>6, <1>7, <1>8 DEF OneWay

(* A writer that has sent its value to other nodes sent it before. *)
SentKept(g) == proc'[g].pc \in Sending =>
    /\ proc[g].pc \in Sending /\ proc'[g].v = proc[g].v /\ proc'[g].r = proc[g].r
    /\ proc'[g].pipe = proc[g].pipe /\ Own(g)' = Own(g)

HostsKept == \A o \in Objects : obj'[o].viaHost = None => obj[o].viaHost = None

Step(v, r) == Flows(v, r) \/ Taken(v, r) \/ Born(v, r)

LEMMA StepsKeep ==
    ASSUME OnePath, NEW home \in [Values -> Pipes], ProcType, HostsKept,
           \A v \in Vals, r \in Readers : OneWay(home, v, r) /\ Step(v, r),
           \A s \in Readers : reader[s].got \subseteq reader'[s].got
    PROVE  /\ \A v \in Vals, r \in Readers : OneWay(home, v, r)'
           /\ \A g \in Procs, r \in Readers : SentKept(g) /\ NoWay(home, g, r) => NoWay(home, g, r)'
<1>1. ASSUME NEW v \in Vals, NEW r \in Readers
      PROVE  OneWay(home, v, r)' /\ (Some(v, r)' => Some(v, r) \/ ~Origin(home, v, PipeOf[r]))
             /\ (v \in reader'[r].got => v \in reader[r].got \/ Some(v, r))
  <2>1. CASE Flows(v, r)
    BY <2>1, FlowsKeep DEF Flows, GotKept
  <2>2. CASE Taken(v, r)
    BY <2>2, TakenKeeps DEF Taken, Some
  <2>3. CASE Born(v, r)
    BY <2>3, BornKeeps DEF Born, GotKept
  <2>4. QED
    BY <2>1, <2>2, <2>3 DEF Step
<1>2. ASSUME NEW g \in Procs, NEW r \in Readers, SentKept(g), NoWay(home, g, r),
             NEW v \in Vals, Passes(g, v, r)'
      PROVE  v \notin reader'[r].got /\ ~Some(v, r)' /\ Origin(home, v, PipeOf[r])'
  <2>1. Own(g) \in Objects
    BY ProcFields
  <2>2. Passes(g, v, r)
    BY <1>2, <2>1 DEF SentKept, HostsKept, Passes
  <2>3. v \notin reader[r].got /\ ~Some(v, r) /\ Origin(home, v, PipeOf[r])
    BY <1>2, <2>2 DEF NoWay
  <2>4. v \notin reader'[r].got /\ ~Some(v, r)'
    BY <1>1, <2>3
  <2>5. Origin(home, v, PipeOf[r])'
    BY <2>3, OriginKept
  <2>6. QED
    BY <2>4, <2>5
<1>3. QED
  BY <1>1, <1>2 DEF NoWay

----------------------------------------------------------------------------
(* Parts of the state that a step leaves alone, as far as ways go. *)

ScriptQuiet == script' \subseteq script

CliQuiet(n) == cli'[n] \in {cli[n], None}

LineQuiet(l) == line'[l].holds \in {line[l].holds, None, Empty}

ProcQuiet(g) ==
    \/ proc'[g].pc \in {"off", "open", "opening"}
    \/ /\ proc'[g].pc = "range"
       /\ \/ Writing(g) /\ proc'[g].pipe = proc[g].pipe
          \/ \E l \in Pipelines : g = Writer(l) /\ proc'[g].pipe = PipeOf[l]
    \/ /\ proc'[g].v = proc[g].v /\ proc'[g].pipe = proc[g].pipe /\ proc'[g].gen = proc[g].gen
       /\ \/ /\ proc'[g].pc \in Deciding /\ proc[g].pc \in Deciding
             /\ proc'[g].pc = "requery" =>
                   proc'[g].r = ScheduleAll \/ (proc[g].pc = "requery" /\ proc'[g].r = proc[g].r)
          \/ /\ proc'[g].pc = proc[g].pc /\ proc[g].pc \in Sending /\ proc'[g].r = proc[g].r
             /\ proc'[g].todo \subseteq proc[g].todo
          \/ /\ proc[g].pc = "write" /\ proc'[g].pc = "writing" /\ proc'[g].r = proc[g].r
             /\ \A r \in proc'[g].todo : g.node = NodeOf[r] /\ proc[g].r \in {ScheduleAll, r}

NetQuiet == \A m \in net' : m \in net \/ m.type \notin {"forward", "viawrite"}

HandlerQuiet(n) == Works(n)' =>
    /\ Works(n) /\ handler'[n].m.type = handler[n].m.type
    /\ handler'[n].m.type \in {"forward", "viawrite"} => handler'[n].m = handler[n].m
    /\ handler'[n].m.type = "forward" => Pending(n)' \subseteq Pending(n)
    /\ handler'[n].pc = "writing" => handler[n].pc = "writing" /\ handler'[n].todo \subseteq handler[n].todo

GotQuiet(r) == reader'[r].got = reader[r].got /\ reader'[r].twice = reader[r].twice

ViaQuiet(o) == obj'[o].viaHost = None => obj[o].viaHost = None /\ (obj'[o].via => obj[o].via)

LEMMA ScriptFewer ==
    ASSUME ScriptQuiet, NEW v, NEW r, NEW i, ScriptWay(v, r, i)'
    PROVE  ScriptWay(v, r, i)
  BY DEF ScriptQuiet, ScriptWay

LEMMA CliFewer ==
    ASSUME NEW v, NEW r, NEW i, CliQuiet(i), CliWay(v, r, i)'
    PROVE  CliWay(v, r, i)
  BY DEF CliQuiet, CliWay

LEMMA LineFewer ==
    ASSUME NEW v \in Vals, NEW r, NEW i, LineQuiet(i), LineWay(v, r, i)'
    PROVE  LineWay(v, r, i)
  BY NameAssumption DEF LineQuiet, LineWay, Vals, Contents

LEMMA ProcFewer ==
    ASSUME NEW v, NEW r \in Readers, NEW i, ProcQuiet(i), ProcWay(v, r, i)'
    PROVE  ProcWay(v, r, i)
<1>1. i \in Procs /\ proc'[i].v = v /\ proc'[i].pipe = PipeOf[r]
  BY DEF ProcWay
<1>2. CASE proc'[i].pc \in Deciding
  BY <1>1, <1>2 DEF ProcQuiet, ProcWay, Deciding, Sending
<1>3. CASE proc'[i].pc = "write" /\ i.node = NodeOf[r] /\ proc'[i].r \in {ScheduleAll, r}
  BY <1>1, <1>3 DEF ProcQuiet, ProcWay, Deciding, Sending
<1>4. CASE proc'[i].pc = "writing" /\ r \in proc'[i].todo
  BY <1>1, <1>4 DEF ProcQuiet, ProcWay, Deciding, Sending
<1>5. QED
  BY <1>2, <1>3, <1>4 DEF ProcWay

LEMMA NetFewer ==
    ASSUME NetQuiet, NEW v, NEW r, NEW i, NetWay(v, r, i)'
    PROVE  NetWay(v, r, i)
  BY DEF NetQuiet, NetWay, Carries

LEMMA HandlerFewer ==
    ASSUME NEW v, NEW r, NEW i, HandlerQuiet(i)
    PROVE  (HandlerWay(v, r, i)' => HandlerWay(v, r, i)) /\ (TodoWay(v, r, i)' => TodoWay(v, r, i))
<1>1. ASSUME HandlerWay(v, r, i)' PROVE HandlerWay(v, r, i)
  <2>1. i \in Nodes /\ Works(i) /\ handler'[i].m = handler[i].m
    BY <1>1 DEF HandlerWay, HandlerQuiet, Carries
  <2>2. handler[i].m.type = "forward" => (IsFor(Pending(i), r)' => IsFor(Pending(i), r))
    BY <1>1, <2>1 DEF HandlerWay, HandlerQuiet, IsFor
  <2>3. QED
    BY <1>1, <2>1, <2>2 DEF HandlerWay, Carries
<1>2. ASSUME TodoWay(v, r, i)' PROVE TodoWay(v, r, i)
  <2>1. Works(i)'
    BY <1>2 DEF TodoWay, Works
  <2>2. QED
    BY <1>2, <2>1 DEF TodoWay, HandlerQuiet, Carries
<1>3. QED
  BY <1>1, <1>2

LEMMA GotFewer ==
    ASSUME NEW v, NEW r, GotQuiet(r)
    PROVE  GotKept(v, r)
  BY DEF GotQuiet, GotKept

(* The parts of the invariant that do not speak of ways. *)
LEMMA LinePipeKept ==
    ASSUME LinePipe, \A l \in Pipelines : ProcQuiet(Writer(l))
                         \/ (Writing(Writer(l)) /\ proc'[Writer(l)].pipe = proc[Writer(l)].pipe)
    PROVE  LinePipe'
<1> SUFFICES ASSUME NEW l \in Pipelines, proc'[Writer(l)].pc \notin {"off", "open", "opening"}
             PROVE  proc'[Writer(l)].pipe = PipeOf[l]
  BY DEF LinePipe, Writing, Writer
<1> DEFINE g == Writer(l)
<1>1. CASE Writing(g) /\ proc'[g].pipe = proc[g].pipe
  BY <1>1 DEF LinePipe
<1>2. CASE \E m \in Pipelines : g = Writer(m) /\ proc'[g].pipe = PipeOf[m]
  <2>1. \A m \in Pipelines : Writer(l) = Writer(m) => l = m
    BY DEF Writer
  <2>2. QED
    BY <1>2, <2>1
<1>3. CASE proc'[g].pipe = proc[g].pipe /\ proc[g].pc \in Deciding \cup Sending
  BY <1>1, <1>3 DEF Writing, Deciding, Sending
<1>4. QED
  BY <1>1, <1>2, <1>3 DEF ProcQuiet, Deciding, Sending

LEMMA RequeriesKept ==
    ASSUME Requeries, \A g \in Procs : ProcQuiet(g) \/ proc'[g].pc # "requery"
    PROVE  Requeries'
<1> SUFFICES ASSUME NEW g \in Procs, proc'[g].pc = "requery" PROVE proc'[g].r = ScheduleAll
  BY DEF Requeries
<1>1. proc'[g].r = ScheduleAll \/ (proc[g].pc = "requery" /\ proc'[g].r = proc[g].r)
  BY DEF ProcQuiet, Deciding, Sending
<1>2. QED
  BY <1>1 DEF Requeries

LEMMA SentQuiet ==
    ASSUME NEW g, ProcQuiet(g)
    PROVE  SentKept(g)
  BY DEF ProcQuiet, SentKept, Sending, Deciding, Own

LEMMA SortedKept ==
    ASSUME HandlerSorted, \A n \in Nodes : HandlerQuiet(n)
    PROVE  HandlerSorted'
<1> SUFFICES ASSUME NEW n \in Nodes, Works(n)', handler'[n].m.type = "forward", ScheduleAll \in Pending(n)'
             PROVE  Pending(n)' = {ScheduleAll}
  BY DEF HandlerSorted, Sorted
<1>1. Works(n) /\ handler[n].m.type = "forward" /\ Pending(n)' \subseteq Pending(n)
  BY DEF HandlerQuiet
<1>2. Pending(n) = {ScheduleAll}
  BY <1>1 DEF HandlerSorted, Sorted
<1>3. QED
  BY <1>1, <1>2

LEMMA ViaHostedKept ==
    ASSUME ViaHosted, \A o \in Objects : ViaQuiet(o)
    PROVE  ViaHosted' /\ HostsKept
  BY DEF ViaHosted, ViaQuiet, HostsKept

LEMMA NetSortedKept ==
    ASSUME NetSorted, NetQuiet
    PROVE  NetSorted'
  BY DEF NetSorted, NetQuiet

ProcsQuiet == \A g \in Procs : ProcQuiet(g)
LinesQuiet == \A l \in Pipelines : LineQuiet(l)
ClisQuiet == \A n \in Nodes : CliQuiet(n)
HandlersQuiet == \A n \in Nodes : HandlerQuiet(n)
GotsQuiet == \A r \in Readers : GotQuiet(r)
ViasQuiet == \A o \in Objects : ViaQuiet(o)

(* What a step that leaves a part of the state alone does to the ways there. *)
LEMMA PartsFewer ==
    ASSUME NEW v \in Vals, NEW r \in Readers, NEW k, NEW i, Way(v, r, k, i)'
    PROVE  /\ k = "script" => (ScriptQuiet => Way(v, r, k, i))
           /\ k = "cli" => i \in Nodes /\ (CliQuiet(i) => Way(v, r, k, i))
           /\ k = "line" => i \in Pipelines /\ (LineQuiet(i) => Way(v, r, k, i))
           /\ k = "proc" => i \in Procs /\ (ProcQuiet(i) => Way(v, r, k, i))
           /\ k = "net" => (NetQuiet => Way(v, r, k, i))
           /\ k = "handler" => i \in Nodes /\ (HandlerQuiet(i) => Way(v, r, k, i))
           /\ k = "todo" => i \in Nodes /\ (HandlerQuiet(i) => Way(v, r, k, i))
           /\ k \in {"script", "cli", "line", "proc", "net", "handler", "todo"}
<1>0. k \in {"script", "cli", "line", "proc", "net", "handler", "todo"}
  BY DEF Way
<1>1. CASE k = "script"
  BY <1>1, ScriptFewer DEF Way
<1>2. CASE k = "cli"
  <2>1. CliWay(v, r, i)' /\ i \in Nodes
    BY <1>2 DEF Way, CliWay
  <2>2. QED
    BY <1>2, <2>1, CliFewer DEF Way
<1>3. CASE k = "line"
  <2>1. LineWay(v, r, i)' /\ i \in Pipelines
    BY <1>3 DEF Way, LineWay
  <2>2. QED
    BY <1>3, <2>1, LineFewer DEF Way
<1>4. CASE k = "proc"
  <2>1. ProcWay(v, r, i)' /\ i \in Procs
    BY <1>4 DEF Way, ProcWay
  <2>2. QED
    BY <1>4, <2>1, ProcFewer DEF Way
<1>5. CASE k = "net"
  BY <1>5, NetFewer DEF Way
<1>6. CASE k = "handler"
  <2>1. HandlerWay(v, r, i)' /\ i \in Nodes
    BY <1>6 DEF Way, HandlerWay
  <2>2. QED
    BY <1>6, <2>1, HandlerFewer DEF Way
<1>7. CASE k = "todo"
  <2>1. TodoWay(v, r, i)' /\ i \in Nodes
    BY <1>7 DEF Way, TodoWay
  <2>2. QED
    BY <1>7, <2>1, HandlerFewer DEF Way
<1>8. QED
  BY <1>0, <1>1, <1>2, <1>3, <1>4, <1>5, <1>6, <1>7

(* A step by which at most one value moves on. *)
Moves(v, r, k1, i1, k2, i2) == \A k, i : Way(v, r, k, i)' =>
    (Way(v, r, k, i) /\ ~(k = k1 /\ i = i1)) \/ (k = k2 /\ i = i2 /\ Way(v, r, k1, i1))

LEMMA MovesFlow ==
    ASSUME NEW v, NEW r, NEW k1, NEW i1, NEW k2, NEW i2, Moves(v, r, k1, i1, k2, i2), GotKept(v, r),
           One(v, r)
    PROVE  Step(v, r)
<1>1. CASE Way(v, r, k1, i1)
  <2>1. ASSUME NEW k, NEW i, Way(v, r, k, i)' PROVE k = k2 /\ i = i2
    BY <1>1, <2>1 DEF Moves, One
  <2>2. One(v, r)' /\ Some(v, r)
    BY <1>1, <2>1 DEF One, Some
  <2>3. QED
    BY <2>2 DEF Moved, Flows, Step
<1>2. CASE ~Way(v, r, k1, i1)
  <2>1. Fewer(v, r)
    BY <1>2 DEF Moves, Fewer
  <2>2. QED
    BY <2>1 DEF Flows, Step
<1>3. QED
  BY <1>1, <1>2

LEMMA FewerFlow ==
    ASSUME NEW v, NEW r, Fewer(v, r), GotKept(v, r)
    PROVE  Step(v, r)
  BY DEF Flows, Step

(* What a step has to show. *)
LEMMA DeliveryKept ==
    ASSUME OnePath, NEW home \in [Values -> Pipes], Delivery(home), ProcType, HostsKept,
           \A v \in Vals, r \in Readers : Step(v, r),
           \A s \in Readers : reader[s].got \subseteq reader'[s].got,
           \A g \in Procs, r \in Readers : SentKept(g) \/ NoWay(home, g, r)',
           LinePipe', Requeries', NetSorted', HandlerSorted', ViaHosted'
    PROVE  Delivery(home)'
<1>1. \A v \in Vals, r \in Readers : OneWay(home, v, r) /\ Step(v, r)
  BY DEF Delivery
<1>2. /\ \A v \in Vals, r \in Readers : OneWay(home, v, r)'
      /\ \A g \in Procs, r \in Readers : NoWay(home, g, r)'
  BY <1>1, StepsKeep DEF Delivery
<1>3. QED
  BY <1>2 DEF Delivery

(* A step of which nothing gets further. *)
LEMMA QuietKeeps ==
    ASSUME OnePath, NEW home \in [Values -> Pipes], Delivery(home), ProcType, ScriptQuiet,
           ClisQuiet, LinesQuiet,
           ProcsQuiet, NetQuiet, HandlersQuiet, GotsQuiet, ViasQuiet
    PROVE  Delivery(home)'
<1>1. ASSUME NEW v \in Vals, NEW r \in Readers PROVE Step(v, r)
  <2>1. ASSUME NEW k, NEW i, Way(v, r, k, i)' PROVE Way(v, r, k, i)
    BY <2>1, PartsFewer DEF ClisQuiet, LinesQuiet, ProcsQuiet, HandlersQuiet
  <2>2. Fewer(v, r)
    BY <2>1 DEF Fewer
  <2>3. QED
    BY <2>2, GotFewer, FewerFlow DEF GotsQuiet
<1>2. \A s \in Readers : reader[s].got \subseteq reader'[s].got
  BY DEF GotsQuiet, GotQuiet
<1>3. LinePipe' /\ Requeries' /\ NetSorted' /\ HandlerSorted' /\ ViaHosted' /\ HostsKept
  <2>1. \A l \in Pipelines : Writer(l) \in Procs
    BY WriterIsProc
  <2>2. QED
    BY <2>1, LinePipeKept, RequeriesKept, NetSortedKept, SortedKept, ViaHostedKept
       DEF Delivery, ProcsQuiet, HandlersQuiet, ViasQuiet
<1>4. \A g \in Procs : SentKept(g)
  BY SentQuiet DEF ProcsQuiet
<1>5. QED
  BY <1>1, <1>2, <1>3, <1>4, DeliveryKept

(* Steps that leave a part of the state alone, or change nothing of it that *)
(* a way depends on.                                                        *)
LEMMA SameQuiet ==
    ASSUME ProcType
    PROVE  /\ UNCHANGED script => ScriptQuiet
           /\ UNCHANGED cli => ClisQuiet
           /\ UNCHANGED line => LinesQuiet
           /\ UNCHANGED proc => ProcsQuiet
           /\ UNCHANGED net => NetQuiet
           /\ UNCHANGED handler => HandlersQuiet
           /\ UNCHANGED reader => GotsQuiet
           /\ UNCHANGED obj => ViasQuiet
<1>1. ASSUME UNCHANGED proc, NEW g \in Procs PROVE ProcQuiet(g)
  <2>1. proc[g].pc \in {"off", "open", "opening", "range"} \cup Deciding \cup Sending
    BY DEF ProcType, Proc, Deciding, Sending
  <2>2. QED
    BY <1>1, <2>1 DEF ProcQuiet, Writing
<1>2. ASSUME UNCHANGED handler, NEW n \in Nodes PROVE HandlerQuiet(n)
  BY <1>2 DEF HandlerQuiet, Works, Pending
<1>3. QED
  BY <1>1, <1>2 DEF ScriptQuiet, ClisQuiet, CliQuiet, LinesQuiet, LineQuiet, ProcsQuiet, NetQuiet,
     HandlersQuiet, GotsQuiet, GotQuiet, ViasQuiet, ViaQuiet

LEMMA OneProcQuiet ==
    ASSUME ProcType, NEW g \in Procs, \A h \in Procs \ {g} : proc'[h] = proc[h]
    PROVE  (\A h \in Procs \ {g} : ProcQuiet(h)) /\ (ProcQuiet(g) => ProcsQuiet)
<1>1. ASSUME NEW h \in Procs \ {g} PROVE ProcQuiet(h)
  <2>1. proc[h].pc \in {"off", "open", "opening", "range"} \cup Deciding \cup Sending
    BY DEF ProcType, Proc, Deciding, Sending
  <2>2. proc'[h] = proc[h]
    OBVIOUS
  <2>3. QED
    BY <2>1, <2>2 DEF ProcQuiet, Writing
<1>2. QED
  BY <1>1 DEF ProcsQuiet

LEMMA GoQuiet ==
    ASSUME ProcType, NEW g \in Procs, NEW pc, Go(g, pc), proc[g].pc \in Deciding,
           pc \in Deciding \ {"requery"}
    PROVE  ProcsQuiet
<1>1. proc'[g] = [proc[g] EXCEPT !.pc = pc] /\ \A h \in Procs \ {g} : proc'[h] = proc[h]
  BY DEF ProcType, Go
<1>2. /\ proc'[g].pc = pc /\ proc'[g].pipe = proc[g].pipe /\ proc'[g].gen = proc[g].gen
      /\ proc'[g].v = proc[g].v
  BY <1>1 DEF ProcType, Proc
<1>3. ProcQuiet(g)
  BY <1>2 DEF ProcQuiet
<1>4. QED
  BY <1>1, <1>3, OneProcQuiet

LEMMA IdleQuiet ==
    ASSUME ProcType, NEW g \in Procs, Writing(g), Idle(g)
    PROVE  ProcsQuiet /\ proc'[g].pc = "range" /\ \A h \in Procs \ {g} : proc'[h] = proc[h]
<1>1. proc'[g] = [NoProc EXCEPT !.pc = "range", !.pipe = proc[g].pipe, !.gen = proc[g].gen,
                                !.closed = proc[g].closed]
      /\ \A h \in Procs \ {g} : proc'[h] = proc[h]
  BY DEF ProcType, Idle
<1>2. proc'[g].pc = "range" /\ proc'[g].pipe = proc[g].pipe
  BY <1>1, NoProcType DEF Proc
<1>3. ProcQuiet(g)
  BY <1>2 DEF ProcQuiet
<1>4. QED
  BY <1>1, <1>2, <1>3, OneProcQuiet

LEMMA ObjQuiet ==
    ASSUME PipeType, NEW o
    PROVE  /\ \A x : obj' = [obj EXCEPT ![o].lock = x] => ViasQuiet
           /\ \A x : obj' = [obj EXCEPT ![o].mode = x] => ViasQuiet
           /\ \A x : obj' = [obj EXCEPT ![o].readers = x] => ViasQuiet
           /\ \A x : obj' = [obj EXCEPT ![o].numWriters = x] => ViasQuiet
           /\ \A x : obj' = [obj EXCEPT ![o].cache = x] => ViasQuiet
           /\ \A x, y : obj' = [obj EXCEPT ![o].lock = x, ![o].cache = y] => ViasQuiet
           /\ \A x, y : obj' = [obj EXCEPT ![o].lock = x, ![o].last = y] => ViasQuiet
<1> USE DEF ViasQuiet, ViaQuiet, PipeType
<1>1. ASSUME NEW q \in Objects PROVE obj[q] \in Pipe
  OBVIOUS
<1>2. ASSUME NEW x, obj' = [obj EXCEPT ![o].lock = x] PROVE ViasQuiet
  <2>1. ASSUME NEW q \in Objects
        PROVE  obj'[q] = obj[q] \/ obj'[q] = [obj[q] EXCEPT !.lock = x]
    BY <1>2
  <2>2. QED
    BY <1>1, <2>1 DEF Pipe
<1>3. ASSUME NEW x, obj' = [obj EXCEPT ![o].mode = x] PROVE ViasQuiet
  <2>1. ASSUME NEW q \in Objects
        PROVE  obj'[q] = obj[q] \/ obj'[q] = [obj[q] EXCEPT !.mode = x]
    BY <1>3
  <2>2. QED
    BY <1>1, <2>1 DEF Pipe
<1>4. ASSUME NEW x, obj' = [obj EXCEPT ![o].readers = x] PROVE ViasQuiet
  <2>1. ASSUME NEW q \in Objects
        PROVE  obj'[q] = obj[q] \/ obj'[q] = [obj[q] EXCEPT !.readers = x]
    BY <1>4
  <2>2. QED
    BY <1>1, <2>1 DEF Pipe
<1>5. ASSUME NEW x, obj' = [obj EXCEPT ![o].numWriters = x] PROVE ViasQuiet
  <2>1. ASSUME NEW q \in Objects
        PROVE  obj'[q] = obj[q] \/ obj'[q] = [obj[q] EXCEPT !.numWriters = x]
    BY <1>5
  <2>2. QED
    BY <1>1, <2>1 DEF Pipe
<1>6. ASSUME NEW x, obj' = [obj EXCEPT ![o].cache = x] PROVE ViasQuiet
  <2>1. ASSUME NEW q \in Objects
        PROVE  obj'[q] = obj[q] \/ obj'[q] = [obj[q] EXCEPT !.cache = x]
    BY <1>6
  <2>2. QED
    BY <1>1, <2>1 DEF Pipe
<1>7. ASSUME NEW x, NEW y, obj' = [obj EXCEPT ![o].lock = x, ![o].cache = y] PROVE ViasQuiet
  <2>1. ASSUME NEW q \in Objects
        PROVE  obj'[q] = obj[q] \/ obj'[q] = [obj[q] EXCEPT !.lock = x, !.cache = y]
    BY <1>7
  <2>2. QED
    BY <1>1, <2>1 DEF Pipe
<1>8. ASSUME NEW x, NEW y, obj' = [obj EXCEPT ![o].lock = x, ![o].last = y] PROVE ViasQuiet
  <2>1. ASSUME NEW q \in Objects
        PROVE  obj'[q] = obj[q] \/ obj'[q] = [obj[q] EXCEPT !.lock = x, !.last = y]
    BY <1>8
  <2>2. QED
    BY <1>1, <2>1 DEF Pipe
<1>9. QED
  BY <1>2, <1>3, <1>4, <1>5, <1>6, <1>7, <1>8

LEMMA DoneQuiet ==
    ASSUME HandlerType, NEW n \in Nodes, handler' = [handler EXCEPT ![n] = IdleHandler]
    PROVE  HandlersQuiet /\ ~Works(n)' /\ \A k \in Nodes \ {n} : handler'[k] = handler[k]
<1>1. handler'[n] = IdleHandler /\ \A k \in Nodes \ {n} : handler'[k] = handler[k]
  BY DEF HandlerType
<1>2. ~Works(n)'
  BY <1>1 DEF Works, IdleHandler
<1>3. ASSUME NEW k \in Nodes PROVE HandlerQuiet(k)
  <2>1. CASE k = n
    BY <1>2, <2>1 DEF HandlerQuiet
  <2>2. CASE k # n
    BY <1>1, <2>2 DEF HandlerQuiet, Works, Pending
  <2>3. QED
    BY <2>1, <2>2
<1>4. QED
  BY <1>1, <1>2, <1>3 DEF HandlersQuiet

LEMMA OneHandlerQuiet ==
    ASSUME NEW n \in Nodes, \A k \in Nodes \ {n} : handler'[k] = handler[k]
    PROVE  (\A k \in Nodes \ {n} : HandlerQuiet(k)) /\ (HandlerQuiet(n) => HandlersQuiet)
<1>1. ASSUME NEW k \in Nodes \ {n} PROVE HandlerQuiet(k)
  BY DEF HandlerQuiet, Works, Pending
<1>2. QED
  BY <1>1 DEF HandlersQuiet

LEMMA ReturnsQuiet ==
    ASSUME UserType, NEW n \in Nodes, Returns(n)
    PROVE  ClisQuiet /\ cli'[n] = None /\ \A k \in Nodes \ {n} : cli'[k] = cli[k]
  BY DEF UserType, Returns, ClisQuiet, CliQuiet

LEMMA BroadcastQuiet ==
    ASSUME NEW n \in Nodes, NEW m \in Message, Broadcast(n, m)
    PROVE  /\ \A x \in net' : x \in net \/ \E k \in Others(n) : x = [m EXCEPT !.to = k]
           /\ m.type \in {"query", "viahost"} => NetQuiet
<1>1. \A x \in net' : x \in net \/ \E k \in Others(n) : x = [m EXCEPT !.to = k]
  BY DEF Broadcast
<1>2. ASSUME NEW k PROVE [m EXCEPT !.to = k].type = m.type
  BY DEF Message
<1>3. QED
  BY <1>1, <1>2 DEF NetQuiet

(* A reader that is opened, closed or taken from its pipe has got what it had. *)
LEMMA NewReaderQuiet ==
    ASSUME Typed, NEW r \in Readers, NewReader(r)
    PROVE  GotsQuiet /\ ViasQuiet
<1>1. ASSUME NEW s \in Readers PROVE GotQuiet(s)
  <2>1. reader[s] \in ReaderState
    BY DEF Typed, UserType
  <2>2. reader'[s] = reader[s] \/ reader'[s] = [reader[s] EXCEPT !.pc = "open", !.gen = Gen(NodeOf[r], PipeOf[r])]
    BY DEF NewReader, Typed, UserType
  <2>3. QED
    BY <2>1, <2>2 DEF GotQuiet, ReaderState
<1>2. ViasQuiet
  BY ObjQuiet DEF NewReader, Typed
<1>3. QED
  BY <1>1, <1>2 DEF GotsQuiet

LEMMA PcQuiet ==
    ASSUME UserType, NEW r, NEW x, reader' = [reader EXCEPT ![r].pc = x]
    PROVE  GotsQuiet
<1>1. ASSUME NEW s \in Readers PROVE GotQuiet(s)
  <2>1. reader[s] \in ReaderState
    BY DEF UserType
  <2>2. reader'[s] = reader[s] \/ reader'[s] = [reader[s] EXCEPT !.pc = x]
    BY DEF UserType
  <2>3. QED
    BY <2>1, <2>2 DEF GotQuiet, ReaderState
<1>2. QED
  BY <1>1 DEF GotsQuiet

LEMMA LineSet ==
    ASSUME UserType, NEW l
    PROVE  /\ \A x : line' = [line EXCEPT ![l].pc = x] => LinesQuiet
           /\ \A x : line' = [line EXCEPT ![l].done = x] => LinesQuiet
           /\ \A x \in {None, Empty} : line' = [line EXCEPT ![l].holds = x] => LinesQuiet
           /\ \A x : line' = [line EXCEPT ![l].pc = x, ![l].holds = None] => LinesQuiet
<1>0. ASSUME NEW m \in Pipelines PROVE line[m] \in LineState
  BY DEF UserType
<1>1. ASSUME NEW x, line' = [line EXCEPT ![l].pc = x], NEW m \in Pipelines PROVE LineQuiet(m)
  <2>1. line'[m] = line[m] \/ line'[m] = [line[m] EXCEPT !.pc = x]
    BY <1>1 DEF UserType
  <2>2. QED
    BY <1>0, <2>1 DEF LineQuiet, LineState
<1>2. ASSUME NEW x, line' = [line EXCEPT ![l].done = x], NEW m \in Pipelines PROVE LineQuiet(m)
  <2>1. line'[m] = line[m] \/ line'[m] = [line[m] EXCEPT !.done = x]
    BY <1>2 DEF UserType
  <2>2. QED
    BY <1>0, <2>1 DEF LineQuiet, LineState
<1>3. ASSUME NEW x \in {None, Empty}, line' = [line EXCEPT ![l].holds = x], NEW m \in Pipelines
      PROVE  LineQuiet(m)
  <2>1. line'[m] = line[m] \/ line'[m] = [line[m] EXCEPT !.holds = x]
    BY <1>3 DEF UserType
  <2>2. QED
    BY <1>0, <2>1 DEF LineQuiet, LineState
<1>4. ASSUME NEW x, line' = [line EXCEPT ![l].pc = x, ![l].holds = None], NEW m \in Pipelines
      PROVE  LineQuiet(m)
  <2>1. line'[m] = line[m] \/ line'[m] = [line[m] EXCEPT !.pc = x, !.holds = None]
    BY <1>4 DEF UserType
  <2>2. QED
    BY <1>0, <2>1 DEF LineQuiet, LineState
<1>5. QED
  BY <1>1, <1>2, <1>3, <1>4 DEF LinesQuiet

----------------------------------------------------------------------------
(* Steps by which no value gets further. *)

LEMMA CommandQuiet ==
    ASSUME Typed, OnePath, NEW home \in [Values -> Pipes], Delivery(home), NEW n \in Nodes,
           CliMode(n) \/ CliVia(n) \/ CliDelete(n)
    PROVE  Delivery(home)'
<1> USE DEF Typed
<1>1. CASE CliMode(n)
  <2>1. ClisQuiet /\ ViasQuiet
    BY <1>1, ReturnsQuiet, ObjQuiet DEF CliMode
  <2>2. QED
    BY <1>1, <2>1, SameQuiet, QuietKeeps DEF CliMode
<1>2. CASE CliVia(n)
  <2>0. cli[n] # None /\ cli[n].pipe \in Pipes /\ cli[n].arg \in BOOLEAN
    BY <1>2, CommandFields DEF CliVia, Runs
  <2>1. ClisQuiet
    BY <1>2, ReturnsQuiet DEF CliVia
  <2>2. ViasQuiet
    <3> DEFINE o == Object(n, cli[n].pipe)
    <3>1. obj' = [obj EXCEPT ![o].via = cli[n].arg, ![o].viaHost = n]
      BY <1>2 DEF CliVia
    <3> HIDE DEF o
    <3>2. ASSUME NEW q \in Objects PROVE ViaQuiet(q)
      <4>1. obj[q] \in Pipe /\ n # None
        BY NameAssumption DEF PipeType
      <4>2. obj'[q] = obj[q] \/ obj'[q] = [obj[q] EXCEPT !.via = cli[n].arg, !.viaHost = n]
        BY <3>1 DEF PipeType
      <4>3. QED
        BY <4>1, <4>2 DEF ViaQuiet, Pipe
    <3>3. QED
      BY <3>2 DEF ViasQuiet
  <2>3. NetQuiet
    <3> DEFINE m == [type |-> "viahost", to |-> n, from |-> n, pipe |-> cli[n].pipe,
                     host |-> IF cli[n].arg THEN n ELSE None]
    <3>1. m \in Message /\ m.type = "viahost" /\ Broadcast(n, m)
      BY <1>2, <2>0 DEF CliVia, Message
    <3> HIDE DEF m
    <3>2. QED
      BY <3>1, BroadcastQuiet
  <2>4. QED
    BY <1>2, <2>1, <2>2, <2>3, SameQuiet, QuietKeeps DEF CliVia
<1>3. CASE CliDelete(n)
  <2>1. ClisQuiet
    BY <1>3, ReturnsQuiet DEF CliDelete
  <2>2. GotsQuiet
    <3>1. ASSUME NEW s \in Readers PROVE GotQuiet(s)
      <4>1. reader[s] \in ReaderState
        BY DEF UserType
      <4>2. reader'[s] = reader[s] \/ reader'[s] = [reader[s] EXCEPT !.pc = "done"]
        BY <1>3 DEF CliDelete
      <4>3. QED
        BY <4>1, <4>2 DEF GotQuiet, ReaderState
    <3>2. QED
      BY <3>1 DEF GotsQuiet
  <2>3. QED
    BY <1>3, <2>1, <2>2, SameQuiet, QuietKeeps DEF CliDelete
<1>4. QED
  BY <1>1, <1>2, <1>3

LEMMA ReaderQuiet ==
    ASSUME Typed, OnePath, NEW home \in [Values -> Pipes], Delivery(home), NEW r \in Readers,
           OpenReader(r) \/ CloseReader(r) \/ ReaderGone(r)
    PROVE  Delivery(home)'
<1> USE DEF Typed
<1>1. CASE OpenReader(r)
  <2>1. ScriptQuiet /\ GotsQuiet /\ ViasQuiet
    BY <1>1, NewReaderQuiet DEF OpenReader, Asked, ScriptQuiet
  <2>2. QED
    BY <1>1, <2>1, SameQuiet, QuietKeeps DEF OpenReader
<1>2. CASE CloseReader(r)
  <2>1. ScriptQuiet /\ GotsQuiet
    BY <1>2, PcQuiet DEF CloseReader, Asked, ScriptQuiet
  <2>2. QED
    BY <1>2, <2>1, SameQuiet, QuietKeeps DEF CloseReader, pipesState
<1>3. CASE ReaderGone(r)
  <2>1. GotsQuiet /\ ViasQuiet
    BY <1>3, PcQuiet, ObjQuiet DEF ReaderGone
  <2>2. QED
    BY <1>3, <2>1, SameQuiet, QuietKeeps DEF ReaderGone
<1>4. QED
  BY <1>1, <1>2, <1>3

(* The writer of a pipeline before it has a value, and when it ends. *)
LEMMA WriterSet ==
    ASSUME ProcType, NEW l \in Pipelines
    PROVE  /\ \A x \in {"open", "opening"} : proc' = [proc EXCEPT ![Writer(l)].pc = x] => ProcsQuiet
           /\ proc' = [proc EXCEPT ![Writer(l)].closed = TRUE] => ProcsQuiet
<1> DEFINE g == Writer(l)
<1>0. g \in Procs /\ proc[g] \in Proc
  BY WriterIsProc DEF ProcType
<1> HIDE DEF g
<1>1. ASSUME NEW x \in {"open", "opening"}, proc' = [proc EXCEPT ![g].pc = x] PROVE ProcsQuiet
  <2>1. proc'[g] = [proc[g] EXCEPT !.pc = x] /\ \A h \in Procs \ {g} : proc'[h] = proc[h]
    BY <1>0, <1>1 DEF ProcType
  <2>2. ProcQuiet(g)
    BY <1>0, <2>1 DEF ProcQuiet, Proc
  <2>3. QED
    BY <1>0, <2>1, <2>2, OneProcQuiet
<1>2. ASSUME proc' = [proc EXCEPT ![g].closed = TRUE] PROVE ProcsQuiet
  <2>1. proc'[g] = [proc[g] EXCEPT !.closed = TRUE] /\ \A h \in Procs \ {g} : proc'[h] = proc[h]
    BY <1>0, <1>2 DEF ProcType
  <2>2. /\ proc'[g].pc = proc[g].pc /\ proc'[g].v = proc[g].v /\ proc'[g].pipe = proc[g].pipe
        /\ proc'[g].gen = proc[g].gen /\ proc'[g].r = proc[g].r /\ proc'[g].todo = proc[g].todo
    BY <1>0, <2>1 DEF Proc
  <2>3. proc[g].pc \in {"off", "open", "opening", "range"} \cup Deciding \cup Sending
    BY <1>0 DEF Proc, Deciding, Sending
  <2>4. ProcQuiet(g)
    BY <2>2, <2>3 DEF ProcQuiet, Writing
  <2>5. QED
    BY <1>0, <2>1, <2>4, OneProcQuiet
<1>3. QED
  BY <1>1, <1>2 DEF g

LEMMA PipelineQuiet ==
    ASSUME Typed, OnePath, NEW home \in [Values -> Pipes], Delivery(home), NEW l \in Pipelines,
           \/ Plumb(l) \/ PipelineDelete(l) \/ StartPipeline(l) \/ StartReader(l)
           \/ StartWriterLock(l) \/ StartWriter(l) \/ WatchReader(l) \/ ReadClosed(l) \/ StopPassing(l)
    PROVE  Delivery(home)'
<1> USE DEF Typed
<1>w. Writer(l) \in Procs /\ NodeOf[l] \in Nodes /\ PipeOf[l] \in Pipes /\ Source[l] \in Readers
  BY WriterIsProc
<1>1. CASE Plumb(l)
  <2>1. ScriptQuiet /\ LinesQuiet
    BY <1>1, LineSet DEF Plumb, Asked, ScriptQuiet
  <2>2. QED
    BY <1>1, <2>1, SameQuiet, QuietKeeps DEF Plumb, pipesState
<1>2. CASE PipelineDelete(l)
  <2>1. ScriptQuiet /\ LinesQuiet
    BY <1>2, LineSet DEF PipelineDelete, Asked, ScriptQuiet
  <2>2. QED
    BY <1>2, <2>1, SameQuiet, QuietKeeps DEF PipelineDelete, pipesState
<1>3. CASE StartPipeline(l)
  <2>1. LinesQuiet
    BY <1>3, LineSet DEF StartPipeline
  <2>2. QED
    BY <1>3, <2>1, SameQuiet, QuietKeeps DEF StartPipeline, pipesState
<1>4. CASE StartReader(l)
  <2>1. LinesQuiet /\ ProcsQuiet /\ GotsQuiet /\ ViasQuiet
    BY <1>4, <1>w, LineSet, WriterSet, NewReaderQuiet DEF StartReader
  <2>2. QED
    BY <1>4, <2>1, SameQuiet, QuietKeeps DEF StartReader
<1>5. CASE StartWriterLock(l)
  <2>1. ProcsQuiet
    BY <1>5, WriterSet DEF StartWriterLock
  <2>2. QED
    BY <1>5, <2>1, SameQuiet, QuietKeeps DEF StartWriterLock, pipesState, users
<1>6. CASE StartWriter(l)
  <2>1. LinesQuiet /\ ViasQuiet
    BY <1>6, LineSet, ObjQuiet DEF StartWriter
  <2> DEFINE w == [NoProc EXCEPT !.pc = "range", !.pipe = PipeOf[l], !.gen = Gen(NodeOf[l], PipeOf[l])]
  <2>2. proc' = [proc EXCEPT ![Writer(l)] = w]
    BY <1>6 DEF StartWriter
  <2>3. w.pc = "range" /\ w.pipe = PipeOf[l]
    BY NoProcType DEF Proc
  <2> HIDE DEF w
  <2>4. proc'[Writer(l)] = w /\ \A h \in Procs \ {Writer(l)} : proc'[h] = proc[h]
    BY <1>w, <2>2 DEF ProcType
  <2>5. ProcQuiet(Writer(l))
    BY <2>3, <2>4 DEF ProcQuiet
  <2>6. ProcsQuiet
    BY <1>w, <2>4, <2>5, OneProcQuiet
  <2>7. QED
    BY <1>6, <2>1, <2>6, SameQuiet, QuietKeeps DEF StartWriter
<1>7. CASE WatchReader(l)
  <2>1. LinesQuiet /\ GotsQuiet
    BY <1>7, LineSet, PcQuiet DEF WatchReader
  <2>2. QED
    BY <1>7, <2>1, SameQuiet, QuietKeeps DEF WatchReader, pipesState
<1>8. CASE ReadClosed(l)
  <2>1. LinesQuiet
    BY <1>8, LineSet DEF ReadClosed
  <2>2. QED
    BY <1>8, <2>1, SameQuiet, QuietKeeps DEF ReadClosed, pipesState
<1>9. CASE StopPassing(l)
  <2>1. LinesQuiet /\ ProcsQuiet
    BY <1>9, LineSet, WriterSet DEF StopPassing
  <2>2. QED
    BY <1>9, <2>1, SameQuiet, QuietKeeps DEF StopPassing, pipesState
<1>10. QED
  BY <1>1, <1>2, <1>3, <1>4, <1>5, <1>6, <1>7, <1>8, <1>9

LEMMA OverKeeps ==
    ASSUME NEW g, NEW m \in Message
    PROVE  Over(g, m).type = m.type /\ (m.type \in {"forward", "viawrite"} => Over(g, m) = m)
<1>1. CASE m.type \in {"query", "response"} /\ m.tid = g
  <2>1. Over(g, m) = [m EXCEPT !.tid = None]
    BY <1>1 DEF Over
  <2>2. [m EXCEPT !.tid = None].type = m.type
    BY <1>1 DEF Message
  <2>3. QED
    BY <1>1, <2>1, <2>2
<1>2. CASE ~(m.type \in {"query", "response"} /\ m.tid = g)
  BY <1>2 DEF Over
<1>3. QED
  BY <1>1, <1>2

LEMMA TimeoutQuiet ==
    ASSUME Typed, OnePath, NEW home \in [Values -> Pipes], Delivery(home), NEW g \in Procs, Timeout(g)
    PROVE  Delivery(home)'
<1> USE DEF Typed
<1>1. ProcsQuiet
  BY IdleQuiet DEF Timeout, Writing
<1>2. ViasQuiet
  BY ObjQuiet DEF Timeout
<1>3. NetQuiet
  <2>1. ASSUME NEW x \in net' PROVE x \in net \/ x.type \notin {"forward", "viawrite"}
    <3>1. PICK m \in net : x = Over(g, m)
      BY DEF Timeout
    <3>2. m \in Message
      OBVIOUS
    <3>3. QED
      BY <3>1, <3>2, OverKeeps
  <2>2. QED
    BY <2>1 DEF NetQuiet
<1>4. HandlersQuiet
  <2>1. ASSUME NEW n \in Nodes PROVE HandlerQuiet(n)
    <3>1. CASE handler[n].m = None
      <4>1. handler'[n] = handler[n]
        BY <3>1 DEF Timeout
      <4>2. QED
        BY <4>1 DEF HandlerQuiet, Works, Pending
    <3>2. CASE handler[n].m # None
      <4>1. handler[n] \in HandlerState /\ handler[n].m \in Message
        BY <3>2 DEF HandlerType, HandlerState
      <4>2. handler'[n] = [handler[n] EXCEPT !.m = Over(g, handler[n].m)]
        BY <3>2 DEF Timeout
      <4>3. /\ handler'[n].pc = handler[n].pc /\ handler'[n].data = handler[n].data
            /\ handler'[n].todo = handler[n].todo /\ handler'[n].m = Over(g, handler[n].m)
        BY <4>1, <4>2 DEF HandlerState
      <4>4. /\ handler'[n].m.type = handler[n].m.type
            /\ handler[n].m.type \in {"forward", "viawrite"} => handler'[n].m = handler[n].m
        BY <4>1, <4>3, OverKeeps
      <4>5. handler'[n].m.type = "forward" => Pending(n)' = Pending(n)
        BY <4>3, <4>4 DEF Pending
      <4>6. QED
        BY <4>3, <4>4, <4>5 DEF HandlerQuiet, Works
    <3>3. QED
      BY <3>1, <3>2
  <2>2. QED
    BY <2>1 DEF HandlersQuiet
<1>5. QED
  BY <1>1, <1>2, <1>3, <1>4, SameQuiet, QuietKeeps DEF Timeout, users

LEMMA QueryQuiet ==
    ASSUME Typed, NEW g \in Procs, proc[g].pc \in Deciding, NEW pc \in {"query", "requery"},
           pc = "requery" => proc[g].r = ScheduleAll, Query(g, pc)
    PROVE  ProcsQuiet /\ ViasQuiet /\ NetQuiet
<1> USE DEF Typed
<1>1. ViasQuiet
  BY ObjQuiet DEF Query
<1>2. ProcsQuiet
  <2>1. proc'[g] = [proc[g] EXCEPT !.pc = pc, !.wait = Others(g.node)]
        /\ \A h \in Procs \ {g} : proc'[h] = proc[h]
    BY DEF Query, ProcType
  <2>2. /\ proc'[g].pc = pc /\ proc'[g].pipe = proc[g].pipe /\ proc'[g].gen = proc[g].gen
        /\ proc'[g].v = proc[g].v /\ proc'[g].r = proc[g].r
    BY <2>1 DEF ProcType, Proc
  <2>3. ProcQuiet(g)
    BY <2>2 DEF ProcQuiet, Deciding
  <2>4. QED
    BY <2>1, <2>3, OneProcQuiet
<1>3. NetQuiet
  <2> DEFINE m == [type |-> "query", to |-> g.node, from |-> g.node, pipe |-> proc[g].pipe, tid |-> g]
  <2>1. m \in Message /\ m.type = "query" /\ g.node \in Nodes
    BY ProcFields DEF Message, TIDs
  <2>2. Broadcast(g.node, m)
    BY DEF Query
  <2> HIDE DEF m
  <2>3. QED
    BY <2>1, <2>2, BroadcastQuiet
<1>4. QED
  BY <1>1, <1>2, <1>3

LEMMA ChosenQuiet ==
    ASSUME ProcType, NEW g \in Procs, proc[g].pc \in Deciding, NEW r,
           proc' = [proc EXCEPT ![g].pc = "forward", ![g].r = r]
    PROVE  ProcsQuiet
<1>1. proc'[g] = [proc[g] EXCEPT !.pc = "forward", !.r = r] /\ \A h \in Procs \ {g} : proc'[h] = proc[h]
  BY DEF ProcType
<1>2. /\ proc'[g].pc = "forward" /\ proc'[g].pipe = proc[g].pipe /\ proc'[g].gen = proc[g].gen
      /\ proc'[g].v = proc[g].v
  BY <1>1 DEF ProcType, Proc
<1>3. ProcQuiet(g)
  BY <1>2 DEF ProcQuiet, Deciding
<1>4. QED
  BY <1>1, <1>3, OneProcQuiet

LEMMA ScheduleQuiet ==
    ASSUME Typed, OnePath, NEW home \in [Values -> Pipes], Delivery(home), NEW g \in Procs,
           Check(g) \/ ScheduleLock(g) \/ ForwardLock(g) \/ Schedule(g) \/ Queried(g)
    PROVE  Delivery(home)'
<1> USE DEF Typed
<1>1. CASE Check(g)
  <2>1. ProcsQuiet
    BY <1>1, GoQuiet DEF Check, At, Deciding
  <2>2. QED
    BY <1>1, <2>1, SameQuiet, QuietKeeps DEF Check, pipesState, users
<1>2. CASE ScheduleLock(g)
  <2>1. ProcsQuiet
    BY <1>2, GoQuiet DEF ScheduleLock, At, Deciding
  <2>2. QED
    BY <1>2, <2>1, SameQuiet, QuietKeeps DEF ScheduleLock, pipesState, users
<1>3. CASE ForwardLock(g)
  <2>1. ProcsQuiet
    BY <1>3, GoQuiet DEF ForwardLock, At, Deciding
  <2>2. QED
    BY <1>3, <2>1, SameQuiet, QuietKeeps DEF ForwardLock, pipesState, users
<1>4. CASE Schedule(g)
  <2>0. proc[g].pc \in Deciding /\ Writing(g)
    BY <1>4 DEF Schedule, At, Deciding, Writing
  <2>1. CASE NoSuchPipe(g)
    BY <1>4, <2>0, <2>1, IdleQuiet, SameQuiet, QuietKeeps DEF Schedule, NoSuchPipe, users
  <2>2. CASE proc' = [proc EXCEPT ![g].pc = "forward", ![g].r = ScheduleAll] /\ UNCHANGED <<obj, net>>
    BY <1>4, <2>0, <2>2, ChosenQuiet, SameQuiet, QuietKeeps DEF Schedule, users
  <2>3. CASE Query(g, "query")
    BY <1>4, <2>0, <2>3, QueryQuiet, SameQuiet, QuietKeeps DEF Schedule, users
  <2>4. QED
    BY <1>4, <2>1, <2>2, <2>3 DEF Schedule
<1>5. CASE Queried(g)
  <2>1. proc[g].pc \in Deciding
    BY <1>5 DEF Queried, At, Deciding
  <2>2. PICK r \in Choice(Now(g)) :
          /\ proc' = [proc EXCEPT ![g].pc = "forward", ![g].r = r]
          /\ obj' = [obj EXCEPT ![Now(g)].lock = None,
                                ![Now(g)].last = IF obj[Now(g)].mode = "rr" /\ r # ScheduleAll THEN r ELSE @]
    BY <1>5 DEF Queried
  <2>3. ProcsQuiet
    BY <2>1, <2>2, ChosenQuiet
  <2>4. ViasQuiet
    BY <2>2, ObjQuiet
  <2>5. QED
    BY <1>5, <2>3, <2>4, SameQuiet, QuietKeeps DEF Queried, users
<1>6. QED
  BY <1>1, <1>2, <1>3, <1>4, <1>5

LEMMA WriteQuiet ==
    ASSUME Typed, Rest, OnePath, NEW home \in [Values -> Pipes], Delivery(home), NEW g \in Procs,
           WriteLock(g) \/ WriteEnd(g) \/ CloseWriter(g)
    PROVE  Delivery(home)'
<1> USE DEF Typed
<1>1. CASE WriteLock(g)
  <2>1. ViasQuiet
    BY <1>1, ObjQuiet DEF WriteLock
  <2> DEFINE R == Recipients(Own(g), proc[g].r)
  <2>2. Own(g) \in Objects /\ proc[g] \in Proc
    BY ProcFields DEF ProcType
  <2>3. ASSUME NEW r \in R PROVE g.node = NodeOf[r] /\ proc[g].r \in {ScheduleAll, r}
    <3>1. r \in obj[Own(g)].readers /\ proc[g].r \in {ScheduleAll, r}
      BY <2>3 DEF Recipients
    <3>2. OwnOf(r) = Own(g)
      BY <2>2, <3>1 DEF Rest, ChannelInv, ReadersInv
    <3>3. QED
      BY <3>1, <3>2 DEF OwnOf, Own
  <2> HIDE DEF R
  <2>4. proc'[g] = [proc[g] EXCEPT !.pc = "writing", !.todo = R]
        /\ \A h \in Procs \ {g} : proc'[h] = proc[h]
    BY <1>1 DEF WriteLock, ProcType, R
  <2>5. /\ proc'[g].pc = "writing" /\ proc'[g].pipe = proc[g].pipe /\ proc'[g].gen = proc[g].gen
        /\ proc'[g].v = proc[g].v /\ proc'[g].r = proc[g].r /\ proc'[g].todo = R
    BY <2>2, <2>4 DEF Proc
  <2>6. ProcQuiet(g)
    BY <1>1, <2>3, <2>5 DEF ProcQuiet, WriteLock, At
  <2>7. ProcsQuiet
    BY <2>4, <2>6, OneProcQuiet
  <2>8. QED
    BY <1>1, <2>1, <2>7, SameQuiet, QuietKeeps DEF WriteLock, users
<1>2. CASE WriteEnd(g)
  <2>1. Writing(g)
    BY <1>2 DEF WriteEnd, At, Writing
  <2>2. ProcsQuiet /\ ViasQuiet
    BY <1>2, <2>1, IdleQuiet, ObjQuiet DEF WriteEnd
  <2>3. QED
    BY <1>2, <2>2, SameQuiet, QuietKeeps DEF WriteEnd, users
<1>3. CASE CloseWriter(g)
  <2>1. proc'[g] = NoProc /\ \A h \in Procs \ {g} : proc'[h] = proc[h]
    BY <1>3 DEF CloseWriter, ProcType
  <2>2. ProcQuiet(g)
    BY <2>1 DEF ProcQuiet, NoProc
  <2>3. ProcsQuiet /\ ViasQuiet
    BY <1>3, <2>1, <2>2, OneProcQuiet, ObjQuiet DEF CloseWriter
  <2>4. QED
    BY <1>3, <2>3, SameQuiet, QuietKeeps DEF CloseWriter, users
<1>4. QED
  BY <1>1, <1>2, <1>3

LEMMA MessageQuiet ==
    ASSUME Typed, OnePath, NEW home \in [Values -> Pipes], Delivery(home), NEW n \in Nodes,
           LookUpTID(n) \/ Answer(n) \/ HandlerLock(n) \/ SendReaders(n) \/ HandleViaHost(n) \/ HandlerWrote(n)
    PROVE  Delivery(home)'
<1> USE DEF Typed
<1>h. handler[n] \in HandlerState
  BY DEF HandlerType
<1>1. CASE LookUpTID(n)
  <2>1. /\ handler'[n] = [handler[n] EXCEPT !.pc = "answer"] \/ handler'[n] = [IdleHandler EXCEPT !.pc = "dead"]
        /\ \A k \in Nodes \ {n} : handler'[k] = handler[k]
    BY <1>1 DEF LookUpTID, HandlerType
  <2>2. handler'[n].pc = "dead" \/ (handler'[n].pc = "answer" /\ handler'[n].m = handler[n].m)
    BY <1>h, <2>1, IdleHandlerType DEF HandlerState
  <2>3. HandlerQuiet(n)
    BY <1>1, <2>2 DEF HandlerQuiet, Works, LookUpTID, Handles
  <2>4. HandlersQuiet
    BY <2>1, <2>3, OneHandlerQuiet
  <2>5. QED
    BY <1>1, <2>4, SameQuiet, QuietKeeps DEF LookUpTID, users, pipesState
<1>2. CASE Answer(n)
  <2>1. HandlersQuiet
    BY <1>2, DoneQuiet DEF Answer
  <2>2. CASE UNCHANGED <<proc, obj>>
    BY <1>2, <2>1, <2>2, SameQuiet, QuietKeeps DEF Answer, users
  <2>3. CASE ~UNCHANGED <<proc, obj>>
    <3> DEFINE g == handler[n].m.tid
    <3>1. /\ g # None
          /\ proc' = [proc EXCEPT ![g].wait = @ \ {handler[n].m.from}]
          /\ obj' = [obj EXCEPT ![Now(g)].cache = @ \cup handler[n].m.readers]
      BY <1>2, <2>3 DEF Answer
    <3>2. g \in Procs
      BY <1>2, <3>1, HandlerFields, MessageFields DEF Answer, TIDs
    <3> HIDE DEF g
    <3>3. ViasQuiet
      BY <3>1, ObjQuiet
    <3>4. proc'[g] = [proc[g] EXCEPT !.wait = @ \ {handler[n].m.from}]
          /\ (\A h \in Procs \ {g} : proc'[h] = proc[h]) /\ proc[g] \in Proc
      BY <3>1, <3>2 DEF ProcType
    <3>5. /\ proc'[g].pc = proc[g].pc /\ proc'[g].v = proc[g].v /\ proc'[g].pipe = proc[g].pipe
          /\ proc'[g].gen = proc[g].gen /\ proc'[g].r = proc[g].r /\ proc'[g].todo = proc[g].todo
      BY <3>4 DEF Proc
    <3>6. proc[g].pc \in {"off", "open", "opening", "range"} \cup Deciding \cup Sending
      BY <3>4 DEF Proc, Deciding, Sending
    <3>7. ProcQuiet(g)
      BY <3>5, <3>6 DEF ProcQuiet, Writing
    <3>8. ProcsQuiet
      BY <3>2, <3>4, <3>7, OneProcQuiet
    <3>9. QED
      BY <1>2, <2>1, <3>3, <3>8, SameQuiet, QuietKeeps DEF Answer, users
  <2>4. QED
    BY <2>2, <2>3
<1>3. CASE HandlerLock(n)
  <2> DEFINE d == IF handler[n].m.type = "forward" THEN handler[n].m.data ELSE {}
  <2>1. /\ handler'[n] = [handler[n] EXCEPT !.pc = "locked", !.data = d]
        /\ \A k \in Nodes \ {n} : handler'[k] = handler[k]
    BY <1>3 DEF HandlerLock, HandlerType
  <2>2. handler'[n].pc = "locked" /\ handler'[n].m = handler[n].m /\ handler'[n].data = d
    BY <1>h, <2>1 DEF HandlerState
  <2>3. HandlerQuiet(n)
    BY <1>3, <2>2 DEF HandlerQuiet, Works, Pending, HandlerLock
  <2>4. HandlersQuiet
    BY <2>1, <2>3, OneHandlerQuiet
  <2>5. QED
    BY <1>3, <2>4, SameQuiet, QuietKeeps DEF HandlerLock, users, pipesState
<1>4. CASE SendReaders(n)
  <2>1. HandlersQuiet
    BY <1>4, DoneQuiet DEF SendReaders, Done
  <2>2. NetQuiet
    BY <1>4 DEF SendReaders, NetQuiet
  <2>3. QED
    BY <1>4, <2>1, <2>2, SameQuiet, QuietKeeps DEF SendReaders, users, pipesState
<1>5. CASE HandleViaHost(n)
  <2>1. HandlersQuiet
    BY <1>5, DoneQuiet DEF HandleViaHost, Done
  <2>2. ViasQuiet
    <3> DEFINE o == Object(n, handler[n].m.pipe)
               x == IF handler[n].m.host # None THEN handler[n].m.host ELSE n
    <3>1. obj' = [obj EXCEPT ![o].viaHost = x]
      BY <1>5 DEF HandleViaHost
    <3>2. x # None
      BY NameAssumption
    <3> HIDE DEF o, x
    <3>3. ASSUME NEW q \in Objects PROVE ViaQuiet(q)
      <4>1. obj[q] \in Pipe
        BY DEF PipeType
      <4>2. obj'[q] = obj[q] \/ obj'[q] = [obj[q] EXCEPT !.viaHost = x]
        BY <3>1 DEF PipeType
      <4>3. QED
        BY <3>2, <4>1, <4>2 DEF ViaQuiet, Pipe
    <3>4. QED
      BY <3>3 DEF ViasQuiet
  <2>3. QED
    BY <1>5, <2>1, <2>2, SameQuiet, QuietKeeps DEF HandleViaHost, users
<1>6. CASE HandlerWrote(n)
  <2>1. /\ handler'[n] = [handler[n] EXCEPT !.pc = "locked", !.todo = {}]
        /\ \A k \in Nodes \ {n} : handler'[k] = handler[k]
    BY <1>6 DEF HandlerWrote, HandlerType
  <2>2. handler'[n].pc = "locked" /\ handler'[n].m = handler[n].m /\ handler'[n].data = handler[n].data
    BY <1>h, <2>1 DEF HandlerState
  <2>3. HandlerQuiet(n)
    BY <1>6, <2>2 DEF HandlerQuiet, Works, Pending, HandlerWrote, Handles
  <2>4. HandlersQuiet
    BY <2>1, <2>3, OneHandlerQuiet
  <2>5. ViasQuiet
    BY <1>6, ObjQuiet DEF HandlerWrote
  <2>6. QED
    BY <1>6, <2>4, <2>5, SameQuiet, QuietKeeps DEF HandlerWrote, users
<1>7. QED
  BY <1>1, <1>2, <1>3, <1>4, <1>5, <1>6

----------------------------------------------------------------------------
(* Steps by which a value gets further. *)

LEMMA MoveStep ==
    ASSUME NEW home, NEW v, NEW r, OneWay(home, v, r), GotKept(v, r),
           NEW k1, NEW i1, NEW k2, NEW i2, ~Way(v, r, k1, i1)',
           Way(v, r, k2, i2)' => Way(v, r, k1, i1),
           \A k, i : Way(v, r, k, i)' => Way(v, r, k, i) \/ (k = k2 /\ i = i2)
    PROVE  Step(v, r)
<1>1. ASSUME NEW k, NEW i, Way(v, r, k, i)'
      PROVE  (Way(v, r, k, i) /\ ~(k = k1 /\ i = i1)) \/ (k = k2 /\ i = i2 /\ Way(v, r, k1, i1))
  BY <1>1
<1>2. Moves(v, r, k1, i1, k2, i2)
  BY <1>1 DEF Moves
<1>3. QED
  BY <1>2, MovesFlow DEF OneWay

LEMMA CommandMoves ==
    ASSUME Typed, OnePath, NEW home \in [Values -> Pipes], Delivery(home), NEW c, Command(c)
    PROVE  Delivery(home)'
<1> USE DEF Typed
<1> DEFINE n == c.node
<1>0. n \in Nodes /\ c \in script
  BY DEF Command, Commands
<1>1. /\ script' = script \ {c} /\ cli'[n] = c /\ cli[n] = None
      /\ \A k \in Nodes \ {n} : cli'[k] = cli[k]
  BY <1>0 DEF Command, UserType
<1>2. LinesQuiet /\ ProcsQuiet /\ NetQuiet /\ HandlersQuiet /\ GotsQuiet /\ ViasQuiet
  BY SameQuiet DEF Command, pipesState
<1> HIDE DEF n
<1>3. ASSUME NEW v \in Vals, NEW r \in Readers PROVE Step(v, r)
  <2>1. ~Way(v, r, "script", c)'
    BY <1>1 DEF Way, ScriptWay
  <2>2. Way(v, r, "cli", n)' => Way(v, r, "script", c)
    BY <1>0, <1>1 DEF Way, CliWay, ScriptWay
  <2>3. ASSUME NEW k, NEW i, Way(v, r, k, i)' PROVE Way(v, r, k, i) \/ (k = "cli" /\ i = n)
    <3>1. ScriptQuiet /\ \A m \in Nodes \ {n} : CliQuiet(m)
      BY <1>1 DEF ScriptQuiet, CliQuiet
    <3>2. QED
      BY <1>2, <2>3, <3>1, PartsFewer DEF LinesQuiet, ProcsQuiet, HandlersQuiet
  <2>4. GotKept(v, r) /\ OneWay(home, v, r)
    BY <1>2, GotFewer DEF GotsQuiet, Delivery
  <2>5. QED
    BY <2>1, <2>2, <2>3, <2>4, MoveStep
<1>4. \A s \in Readers : reader[s].got \subseteq reader'[s].got
  BY <1>2 DEF GotsQuiet, GotQuiet
<1>5. LinePipe' /\ Requeries' /\ NetSorted' /\ HandlerSorted' /\ ViaHosted' /\ HostsKept
  <2>1. \A l \in Pipelines : Writer(l) \in Procs
    BY WriterIsProc
  <2>2. QED
    BY <1>2, <2>1, LinePipeKept, RequeriesKept, NetSortedKept, SortedKept, ViaHostedKept
       DEF Delivery, ProcsQuiet, HandlersQuiet, ViasQuiet
<1>6. \A g \in Procs : SentKept(g)
  BY <1>2, SentQuiet DEF ProcsQuiet
<1>7. QED
  BY <1>3, <1>4, <1>5, <1>6, DeliveryKept

(* A writer that is made for a value has it. *)
LEMMA NewWriterHas ==
    ASSUME Typed, NEW n \in Nodes, NEW p \in Pipes, NEW w \in Contents, NewWriter(n, p, w),
           NEW g, g = [name |-> w, node |-> n]
    PROVE  /\ g \in Procs /\ \A h \in Procs \ {g} : proc'[h] = proc[h]
           /\ proc'[g].pc = "check" /\ proc'[g].pipe = p /\ proc'[g].v = w
           /\ ViasQuiet /\ \A l \in Pipelines : g # Writer(l)
<1> USE DEF Typed
<1>1. g \in Procs
  BY DEF Procs
<1>2. \A l \in Pipelines : g # Writer(l)
  BY NameAssumption DEF Writer
<1> DEFINE x == [NoProc EXCEPT !.pc = "check", !.pipe = p, !.gen = Gen(n, p), !.v = w, !.closed = TRUE]
<1>3. x.pc = "check" /\ x.pipe = p /\ x.v = w
  BY NoProcType DEF Proc
<1>4. proc' = [proc EXCEPT ![g] = x]
  BY DEF NewWriter
<1>5. ViasQuiet
  BY ObjQuiet DEF NewWriter
<1> HIDE DEF x
<1>6. proc'[g] = x /\ \A h \in Procs \ {g} : proc'[h] = proc[h]
  BY <1>1, <1>4 DEF ProcType
<1>7. QED
  BY <1>1, <1>2, <1>3, <1>5, <1>6

(* A command or a handler hands its value to a writer. *)
LEMMA HandedOver ==
    ASSUME Typed, OnePath, NEW home \in [Values -> Pipes], Delivery(home), NEW n \in Nodes,
           NEW p \in Pipes,
           NEW w \in Contents, NewWriter(n, p, w), NEW k1 \in {"cli", "handler"},
           ScriptQuiet, ClisQuiet, LinesQuiet, NetQuiet, HandlersQuiet, GotsQuiet,
           \A v \in Vals, r \in Readers : ~Way(v, r, k1, n)' /\ (v = w /\ p = PipeOf[r] => Way(v, r, k1, n))
    PROVE  Delivery(home)'
<1> USE DEF Typed
<1>1. PICK g : g = [name |-> w, node |-> n]
  OBVIOUS
<1>2. /\ g \in Procs /\ \A h \in Procs \ {g} : proc'[h] = proc[h]
      /\ proc'[g].pc = "check" /\ proc'[g].pipe = p /\ proc'[g].v = w
      /\ ViasQuiet /\ \A l \in Pipelines : g # Writer(l)
  BY <1>1, NewWriterHas
<1>3. \A h \in Procs \ {g} : ProcQuiet(h)
  BY <1>2, OneProcQuiet
<1>4. ASSUME NEW v \in Vals, NEW r \in Readers PROVE Step(v, r)
  <2>1. Way(v, r, "proc", g)' => Way(v, r, k1, n)
    BY <1>2 DEF Way, ProcWay
  <2>2. ASSUME NEW k, NEW i, Way(v, r, k, i)' PROVE Way(v, r, k, i) \/ (k = "proc" /\ i = g)
    BY <1>3, <2>2, PartsFewer DEF LinesQuiet, ClisQuiet, HandlersQuiet
  <2>3. GotKept(v, r) /\ OneWay(home, v, r) /\ ~Way(v, r, k1, n)'
    BY GotFewer DEF GotsQuiet, Delivery
  <2>4. QED
    BY <2>1, <2>2, <2>3, MoveStep
<1>5. \A s \in Readers : reader[s].got \subseteq reader'[s].got
  BY DEF GotsQuiet, GotQuiet
<1>6. LinePipe' /\ Requeries' /\ NetSorted' /\ HandlerSorted' /\ ViaHosted' /\ HostsKept
  <2>1. \A l \in Pipelines : ProcQuiet(Writer(l))
    BY <1>2, <1>3, WriterIsProc
  <2>2. \A h \in Procs : ProcQuiet(h) \/ proc'[h].pc # "requery"
    BY <1>2, <1>3
  <2>3. QED
    BY <1>2, <2>1, <2>2, LinePipeKept, RequeriesKept, NetSortedKept, SortedKept, ViaHostedKept
       DEF Delivery, HandlersQuiet, ViasQuiet
<1>7. ASSUME NEW h \in Procs PROVE SentKept(h)
  <2>1. CASE h = g
    BY <1>2, <2>1 DEF SentKept, Sending
  <2>2. CASE h # g
    BY <1>3, <2>2, SentQuiet
  <2>3. QED
    BY <2>1, <2>2
<1>8. QED
  BY <1>4, <1>5, <1>6, <1>7, DeliveryKept

LEMMA WriteMoves ==
    ASSUME Typed, OnePath, NEW home \in [Values -> Pipes], Delivery(home), NEW n \in Nodes,
           CliWrite(n) \/ HandleViaWrite(n)
    PROVE  Delivery(home)'
<1> USE DEF Typed
<1>1. CASE CliWrite(n)
  <2> DEFINE p == cli[n].pipe
             w == cli[n].arg
  <2>1. p \in Pipes /\ w \in Contents /\ cli[n] # None /\ cli[n].op = "write" /\ NewWriter(n, p, w)
    BY <1>1, CommandFields DEF CliWrite, Runs, Contents
  <2>2. ClisQuiet /\ cli'[n] = None
    BY <1>1, ReturnsQuiet DEF CliWrite
  <2>3. ASSUME NEW v \in Vals, NEW r \in Readers
        PROVE  ~Way(v, r, "cli", n)' /\ (v = w /\ p = PipeOf[r] => Way(v, r, "cli", n))
    BY <2>1, <2>2 DEF Way, CliWay, Writes
  <2> HIDE DEF p, w
  <2>4. QED
    BY <1>1, <2>1, <2>2, <2>3, SameQuiet, HandedOver DEF CliWrite
<1>2. CASE HandleViaWrite(n)
  <2> DEFINE p == handler[n].m.pipe
             w == handler[n].m.v
  <2>1. handler[n].m \in Message /\ handler[n].m.type = "viawrite" /\ handler[n].pc = "locked"
    BY <1>2, HandlerFields DEF HandleViaWrite
  <2>2. p \in Pipes /\ w \in Contents /\ NewWriter(n, p, w)
    BY <1>2, <2>1, MessageFields DEF HandleViaWrite
  <2>3. HandlersQuiet /\ ~Works(n)'
    BY <1>2, DoneQuiet DEF HandleViaWrite, Done
  <2>4. ASSUME NEW v \in Vals, NEW r \in Readers
        PROVE  ~Way(v, r, "handler", n)' /\ (v = w /\ p = PipeOf[r] => Way(v, r, "handler", n))
    BY <2>1, <2>3 DEF Way, HandlerWay, Carries, Works
  <2> HIDE DEF p, w
  <2>5. QED
    BY <1>2, <2>2, <2>3, <2>4, SameQuiet, HandedOver DEF HandleViaWrite, users
<1>3. QED
  BY <1>1, <1>2

LEMMA PassOnMoves ==
    ASSUME Typed, OnePath, NEW home \in [Values -> Pipes], Delivery(home), NEW l \in Pipelines, PassOn(l)
    PROVE  Delivery(home)'
<1> USE DEF Typed
<1>1. PICK g : g = Writer(l)
  OBVIOUS
<1>2. g \in Procs /\ proc[g] \in Proc /\ proc[g].pc = "range" /\ line[l] \in LineState
  BY <1>1, WriterIsProc DEF PassOn, ProcType, UserType
<1>3. /\ proc'[g] = [proc[g] EXCEPT !.pc = "check", !.v = line[l].holds]
      /\ \A h \in Procs \ {g} : proc'[h] = proc[h]
  BY <1>1, <1>2 DEF PassOn, ProcType
<1>4. proc'[g].pc = "check" /\ proc'[g].v = line[l].holds /\ proc'[g].pipe = proc[g].pipe
  BY <1>2, <1>3 DEF Proc
<1>5. proc[g].pipe = PipeOf[l]
  BY <1>1, <1>2 DEF Delivery, LinePipe, Writing
<1>6. LinesQuiet /\ line'[l].holds = None
  BY <1>2, LineSet DEF PassOn, UserType, LineState
<1>7. \A h \in Procs \ {g} : ProcQuiet(h)
  BY <1>2, <1>3, OneProcQuiet
<1>8. ScriptQuiet /\ ClisQuiet /\ NetQuiet /\ HandlersQuiet /\ GotsQuiet /\ ViasQuiet
  BY SameQuiet DEF PassOn, pipesState
<1>9. ASSUME NEW v \in Vals, NEW r \in Readers PROVE Step(v, r)
  <2>1. ~Way(v, r, "line", l)'
    BY <1>6, NameAssumption DEF Way, LineWay, Vals, Contents
  <2>2. Way(v, r, "proc", g)' => Way(v, r, "line", l)
    BY <1>4, <1>5 DEF Way, ProcWay, LineWay
  <2>3. ASSUME NEW k, NEW i, Way(v, r, k, i)' PROVE Way(v, r, k, i) \/ (k = "proc" /\ i = g)
    BY <1>6, <1>7, <1>8, <2>3, PartsFewer DEF LinesQuiet, ClisQuiet, HandlersQuiet
  <2>4. GotKept(v, r) /\ OneWay(home, v, r)
    BY <1>8, GotFewer DEF GotsQuiet, Delivery
  <2>5. QED
    BY <2>1, <2>2, <2>3, <2>4, MoveStep
<1>10. \A s \in Readers : reader[s].got \subseteq reader'[s].got
  BY <1>8 DEF GotsQuiet, GotQuiet
<1>11. LinePipe' /\ Requeries' /\ NetSorted' /\ HandlerSorted' /\ ViaHosted' /\ HostsKept
  <2>1. \A m \in Pipelines : Writer(m) \in Procs
    BY WriterIsProc
  <2>2. \A m \in Pipelines : ProcQuiet(Writer(m))
            \/ (Writing(Writer(m)) /\ proc'[Writer(m)].pipe = proc[Writer(m)].pipe)
    BY <1>2, <1>4, <1>7, <2>1 DEF Writing
  <2>3. \A h \in Procs : ProcQuiet(h) \/ proc'[h].pc # "requery"
    BY <1>4, <1>7
  <2>4. QED
    BY <1>8, <2>2, <2>3, LinePipeKept, RequeriesKept, NetSortedKept, SortedKept, ViaHostedKept
       DEF Delivery, HandlersQuiet, ViasQuiet
<1>12. ASSUME NEW h \in Procs PROVE SentKept(h)
  <2>1. CASE h = g
    BY <1>4, <2>1 DEF SentKept, Sending
  <2>2. CASE h # g
    BY <1>7, <2>2, SentQuiet
  <2>3. QED
    BY <2>1, <2>2
<1>13. QED
  BY <1>9, <1>10, <1>11, <1>12, DeliveryKept

LEMMA ViaWriteMoves ==
    ASSUME Typed, Rest, OnePath, NEW home \in [Values -> Pipes], Delivery(home), NEW g \in Procs,
           ViaWrite(g)
    PROVE  Delivery(home)'
<1> USE DEF Typed
<1>1. Writing(g) /\ proc[g].pc = "via"
  BY DEF ViaWrite, At, Writing
<1>2. ProcsQuiet /\ proc'[g].pc = "range"
  BY <1>1, IdleQuiet DEF ViaWrite
<1>3. ScriptQuiet /\ ClisQuiet /\ LinesQuiet /\ HandlersQuiet /\ GotsQuiet /\ ViasQuiet
  BY SameQuiet DEF ViaWrite, users, pipesState
<1>4. CASE UNCHANGED net
  BY <1>2, <1>3, <1>4, SameQuiet, QuietKeeps
<1>5. CASE ~UNCHANGED net
  <2>1. PICK m : /\ net' = net \cup {m} /\ m.type = "viawrite" /\ m.pipe = proc[g].pipe /\ m.v = proc[g].v
    BY <1>5 DEF ViaWrite
  <2>2. ASSUME NEW v \in Vals, NEW r \in Readers PROVE Step(v, r)
    <3>1. ~Way(v, r, "proc", g)'
      BY <1>2 DEF Way, ProcWay, Deciding
    <3>2. NetWay(v, r, m)' => Way(v, r, "proc", g)
      BY <1>1, <2>1 DEF NetWay, Carries, Way, ProcWay, Deciding
    <3>3. Way(v, r, "net", m)' => Way(v, r, "proc", g)
      BY <3>2 DEF Way
    <3>4. ASSUME NEW k, NEW i, Way(v, r, k, i)' PROVE Way(v, r, k, i) \/ (k = "net" /\ i = m)
      <4>1. CASE k = "net"
        BY <2>1, <3>4, <4>1 DEF Way, NetWay
      <4>2. CASE k # "net"
        BY <1>2, <1>3, <3>4, <4>2, PartsFewer DEF LinesQuiet, ClisQuiet, HandlersQuiet, ProcsQuiet
      <4>3. QED
        BY <4>1, <4>2
    <3>5. GotKept(v, r) /\ OneWay(home, v, r)
      BY <1>3, GotFewer DEF GotsQuiet, Delivery
    <3>6. QED
      BY <3>1, <3>3, <3>4, <3>5, MoveStep
  <2>3. \A s \in Readers : reader[s].got \subseteq reader'[s].got
    BY <1>3 DEF GotsQuiet, GotQuiet
  <2>4. LinePipe' /\ Requeries' /\ HandlerSorted' /\ ViaHosted' /\ HostsKept
    <3>1. \A l \in Pipelines : Writer(l) \in Procs
      BY WriterIsProc
    <3>2. QED
      BY <1>2, <1>3, <3>1, LinePipeKept, RequeriesKept, SortedKept, ViaHostedKept
         DEF Delivery, ProcsQuiet, HandlersQuiet, ViasQuiet
  <2>5. NetSorted'
    BY <2>1 DEF NetSorted, Delivery
  <2>6. \A h \in Procs : SentKept(h)
    BY <1>2, SentQuiet DEF ProcsQuiet
  <2>7. QED
    BY <2>2, <2>3, <2>4, <2>5, <2>6, DeliveryKept
<1>6. QED
  BY <1>4, <1>5

LEMMA ReceiveMoves ==
    ASSUME Typed, OnePath, NEW home \in [Values -> Pipes], Delivery(home), NEW n \in Nodes, NEW m,
           Receive(n, m)
    PROVE  Delivery(home)'
<1> USE DEF Typed
<1>1. /\ m \in net /\ m.to = n /\ net' = net \ {m} /\ handler[n].pc = "idle"
      /\ handler'[n] = [IdleHandler EXCEPT !.pc = "got", !.m = m]
      /\ \A k \in Nodes \ {n} : handler'[k] = handler[k]
  BY DEF Receive, HandlerType
<1>2. handler'[n].pc = "got" /\ handler'[n].m = m
  BY <1>1 DEF IdleHandler
<1>3. Pending(n)' = m.data
  BY <1>2 DEF Pending
<1>4. \A k \in Nodes \ {n} : HandlerQuiet(k)
  BY <1>1, OneHandlerQuiet
<1>5. ScriptQuiet /\ ClisQuiet /\ LinesQuiet /\ ProcsQuiet /\ GotsQuiet /\ ViasQuiet /\ NetQuiet
  BY <1>1, SameQuiet DEF Receive, users, pipesState, NetQuiet
<1>6. ASSUME NEW v \in Vals, NEW r \in Readers PROVE Step(v, r)
  <2>1. ~Way(v, r, "net", m)'
    BY <1>1 DEF Way, NetWay
  <2>2. Way(v, r, "handler", n)' => Way(v, r, "net", m)
    <3>1. ASSUME HandlerWay(v, r, n)' PROVE NetWay(v, r, m)
      BY <1>1, <1>2, <1>3, <3>1 DEF HandlerWay, NetWay, Carries, IsFor
    <3>2. QED
      BY <3>1 DEF Way
  <2>3. ASSUME NEW k, NEW i, Way(v, r, k, i)' PROVE Way(v, r, k, i) \/ (k = "handler" /\ i = n)
    <3>1. CASE k = "todo" /\ i = n
      BY <1>2, <2>3, <3>1 DEF Way, TodoWay
    <3>2. CASE ~(k = "todo" /\ i = n)
      BY <1>4, <1>5, <2>3, <3>2, PartsFewer DEF LinesQuiet, ClisQuiet, ProcsQuiet
    <3>3. QED
      BY <3>1, <3>2
  <2>4. GotKept(v, r) /\ OneWay(home, v, r)
    BY <1>5, GotFewer DEF GotsQuiet, Delivery
  <2>5. QED
    BY <2>1, <2>2, <2>3, <2>4, MoveStep
<1>7. \A s \in Readers : reader[s].got \subseteq reader'[s].got
  BY <1>5 DEF GotsQuiet, GotQuiet
<1>8. LinePipe' /\ Requeries' /\ NetSorted' /\ ViaHosted' /\ HostsKept
  <2>1. \A l \in Pipelines : Writer(l) \in Procs
    BY WriterIsProc
  <2>2. QED
    BY <1>5, <2>1, LinePipeKept, RequeriesKept, NetSortedKept, ViaHostedKept
       DEF Delivery, ProcsQuiet, ViasQuiet
<1>9. HandlerSorted'
  <2>1. ASSUME NEW k \in Nodes, Works(k)', handler'[k].m.type = "forward" PROVE Sorted(Pending(k))'
    <3>1. CASE k = n
      BY <1>1, <1>2, <1>3, <2>1, <3>1 DEF Delivery, NetSorted, Sorted
    <3>2. CASE k # n
      BY <1>1, <2>1, <3>2 DEF Delivery, HandlerSorted, Works, Pending, Sorted
    <3>3. QED
      BY <3>1, <3>2
  <2>2. QED
    BY <2>1 DEF HandlerSorted
<1>10. \A h \in Procs : SentKept(h)
  BY <1>5, SentQuiet DEF ProcsQuiet
<1>11. QED
  BY <1>6, <1>7, <1>8, <1>9, <1>10, DeliveryKept

(* The messages that forward sends *)
ForwardMsg(g, data, k) == [type |-> "forward", to |-> k, from |-> g.node, pipe |-> proc[g].pipe,
                           v |-> proc[g].v, data |-> data]

LEMMA ForwardsHas ==
    ASSUME Typed, NEW g \in Procs, NEW data, Forwards(g, data)
    PROVE  /\ \A x \in net' : x \in net \/ (x.to # g.node /\ x = ForwardMsg(g, data, x.to))
           /\ proc'[g].pc = "write" /\ proc'[g].v = proc[g].v /\ proc'[g].pipe = proc[g].pipe
           /\ proc'[g].r = proc[g].r /\ Own(g)' = Own(g)
           /\ \A h \in Procs \ {g} : proc'[h] = proc[h]
<1> USE DEF Typed
<1>1. ASSUME NEW x \in net', x \notin net PROVE x.to # g.node /\ x = ForwardMsg(g, data, x.to)
  <2>1. PICK k \in Others(g.node) : x = [ForwardMsg(g, data, g.node) EXCEPT !.to = k]
    BY <1>1 DEF Forwards, Broadcast, ForwardMsg
  <2>2. x = ForwardMsg(g, data, k) /\ x.to = k
    BY <2>1 DEF ForwardMsg
  <2>3. QED
    BY <2>2 DEF Others
<1>2. /\ proc'[g] = [proc[g] EXCEPT !.pc = "write"] /\ proc[g] \in Proc
      /\ \A h \in Procs \ {g} : proc'[h] = proc[h]
  BY DEF Forwards, Go, ProcType
<1>3. /\ proc'[g].pc = "write" /\ proc'[g].v = proc[g].v /\ proc'[g].pipe = proc[g].pipe
      /\ proc'[g].r = proc[g].r /\ proc'[g].gen = proc[g].gen
  BY <1>2 DEF Proc
<1>4. QED
  BY <1>1, <1>2, <1>3 DEF Own

(* A value gets to readers of other nodes by a message, and to those of this node *)
(* by the writer.                                                                *)
LEMMA ForwardsMove ==
    ASSUME Typed, OnePath, NEW home \in [Values -> Pipes], Delivery(home), NEW g \in Procs, NEW data,
           proc[g].pc \in Deciding, Sorted(data), Forwards(g, data),
           proc[g].r = ScheduleAll \/ obj[Own(g)].viaHost # None \/ data = {proc[g].r},
           ScriptQuiet, ClisQuiet, LinesQuiet, HandlersQuiet, UNCHANGED reader, ViasQuiet
    PROVE  Delivery(home)'
<1> USE DEF Typed
<1>1. /\ \A x \in net' : x \in net \/ (x.to # g.node /\ x = ForwardMsg(g, data, x.to))
      /\ proc'[g].pc = "write" /\ proc'[g].v = proc[g].v /\ proc'[g].pipe = proc[g].pipe
      /\ proc'[g].r = proc[g].r /\ Own(g)' = Own(g)
      /\ \A h \in Procs \ {g} : proc'[h] = proc[h]
  BY ForwardsHas
<1>2. \A h \in Procs \ {g} : ProcQuiet(h)
  BY <1>1, OneProcQuiet
<1>3. ASSUME NEW k
      PROVE  LET m == ForwardMsg(g, data, k) IN
             m.type = "forward" /\ m.to = k /\ m.pipe = proc[g].pipe /\ m.v = proc[g].v /\ m.data = data
  BY DEF ForwardMsg
<1>4. ASSUME NEW v \in Vals, NEW r \in Readers
      PROVE  /\ Way(v, r, "proc", g) <=> v = proc[g].v /\ proc[g].pipe = PipeOf[r]
             /\ Way(v, r, "proc", g)' <=> /\ v = proc[g].v /\ proc[g].pipe = PipeOf[r]
                                          /\ g.node = NodeOf[r] /\ proc[g].r \in {ScheduleAll, r}
  BY <1>1 DEF Way, ProcWay, Deciding
<1>5. ASSUME NEW v \in Vals, NEW r \in Readers, NEW k, NEW i, Way(v, r, k, i)', ~(k = "proc" /\ i = g)
      PROVE  \/ Way(v, r, k, i)
             \/ /\ k = "net" /\ g.node # NodeOf[r] /\ i = ForwardMsg(g, data, NodeOf[r]) /\ IsFor(data, r)
                /\ v = proc[g].v /\ proc[g].pipe = PipeOf[r]
  <2>1. CASE k = "net"
    <3>1. NetWay(v, r, i)'
      BY <1>5, <2>1 DEF Way
    <3>2. CASE i \in net
      BY <2>1, <3>1, <3>2 DEF Way, NetWay
    <3>3. CASE i \notin net
      <4>1. i \in net' /\ i.to # g.node /\ i = ForwardMsg(g, data, i.to)
        BY <1>1, <3>1, <3>3 DEF NetWay
      <4>2. i.type = "forward" /\ i.pipe = proc[g].pipe /\ i.v = proc[g].v /\ i.data = data
        BY <1>3, <4>1
      <4>3. i.to = NodeOf[r] /\ IsFor(i.data, r) /\ i.v = v /\ i.pipe = PipeOf[r]
        BY <3>1, <4>2 DEF NetWay, Carries
      <4>4. QED
        BY <2>1, <4>1, <4>2, <4>3
    <3>4. QED
      BY <3>2, <3>3
  <2>2. CASE k # "net"
    BY <1>2, <1>5, <2>2, PartsFewer DEF LinesQuiet, ClisQuiet, HandlersQuiet
  <2>3. QED
    BY <2>1, <2>2
<1>6. GotsQuiet
  BY SameQuiet
<1>7. ASSUME NEW v \in Vals, NEW r \in Readers PROVE Step(v, r)
  <2>1. GotKept(v, r) /\ OneWay(home, v, r)
    BY <1>6, GotFewer DEF GotsQuiet, Delivery
  <2>2. CASE g.node = NodeOf[r]
    <3>1. ASSUME NEW k, NEW i, Way(v, r, k, i)' PROVE Way(v, r, k, i)
      <4>1. CASE k = "proc" /\ i = g
        BY <1>4, <3>1, <4>1
      <4>2. CASE ~(k = "proc" /\ i = g)
        BY <1>5, <2>2, <3>1, <4>2
      <4>3. QED
        BY <4>1, <4>2
    <3>2. Fewer(v, r)
      BY <3>1 DEF Fewer
    <3>3. QED
      BY <2>1, <3>2, FewerFlow
  <2>3. CASE g.node # NodeOf[r]
    <3>0. PICK m : m = ForwardMsg(g, data, NodeOf[r])
      OBVIOUS
    <3>1. ~Way(v, r, "proc", g)'
      BY <1>4, <2>3
    <3>2. Way(v, r, "net", m)' => Way(v, r, "proc", g)
      <4>1. m.type = "forward" /\ m.pipe = proc[g].pipe /\ m.v = proc[g].v
        BY <1>3, <3>0
      <4>2. NetWay(v, r, m)' => v = proc[g].v /\ proc[g].pipe = PipeOf[r]
        BY <4>1 DEF NetWay, Carries
      <4>3. QED
        BY <1>4, <4>2 DEF Way
    <3>3. ASSUME NEW k, NEW i, Way(v, r, k, i)' PROVE Way(v, r, k, i) \/ (k = "net" /\ i = m)
      BY <1>5, <3>0, <3>1, <3>3
    <3>4. QED
      BY <2>1, <3>1, <3>2, <3>3, MoveStep
  <2>4. QED
    BY <2>2, <2>3
<1>8. \A s \in Readers : reader[s].got \subseteq reader'[s].got
  OBVIOUS
<1>9. LinePipe' /\ Requeries' /\ HandlerSorted' /\ ViaHosted' /\ HostsKept
  <2>1. Writing(g)
    BY DEF Writing, Deciding
  <2>2. \A l \in Pipelines : ProcQuiet(Writer(l))
            \/ (Writing(Writer(l)) /\ proc'[Writer(l)].pipe = proc[Writer(l)].pipe)
    BY <1>1, <1>2, <2>1, WriterIsProc
  <2>3. \A h \in Procs : ProcQuiet(h) \/ proc'[h].pc # "requery"
    BY <1>1, <1>2
  <2>4. QED
    BY <2>2, <2>3, LinePipeKept, RequeriesKept, SortedKept, ViaHostedKept
       DEF Delivery, HandlersQuiet, ViasQuiet
<1>10. NetSorted'
  <2>1. ASSUME NEW x \in net', x.type = "forward" PROVE Sorted(x.data)
    <3>1. CASE x \in net
      BY <2>1, <3>1 DEF Delivery, NetSorted
    <3>2. CASE x \notin net
      BY <1>1, <1>3, <3>2
    <3>3. QED
      BY <3>1, <3>2
  <2>2. QED
    BY <2>1 DEF NetSorted, Sorted
<1>11. ASSUME NEW r \in Readers PROVE NoWay(home, g, r)'
  <2> SUFFICES ASSUME NEW v \in Vals, Passes(g, v, r)'
               PROVE  v \notin reader'[r].got /\ ~Some(v, r)' /\ Origin(home, v, PipeOf[r])'
    BY DEF NoWay
  <2>1. /\ v = proc[g].v /\ PipeOf[r] = proc[g].pipe /\ proc[g].r \notin {ScheduleAll, r}
        /\ obj[Own(g)].viaHost = None
    <3>1. Own(g) \in Objects
      BY ProcFields
    <3>2. v = proc[g].v /\ PipeOf[r] = proc[g].pipe /\ proc[g].r \notin {ScheduleAll, r}
          /\ obj'[Own(g)].viaHost = None
      BY <1>1 DEF Passes
    <3>3. QED
      BY <3>1, <3>2 DEF ViasQuiet, ViaQuiet
  <2>2. data = {proc[g].r}
    BY <2>1
  <2>3. Way(v, r, "proc", g) /\ ~Way(v, r, "proc", g)'
    BY <1>4, <2>1
  <2>4. Some(v, r) /\ OneWay(home, v, r)
    BY <2>3 DEF Some, Delivery
  <2>5. v \notin reader[r].got /\ Origin(home, v, PipeOf[r])
    BY <2>4 DEF OneWay
  <2>6. ASSUME NEW k, NEW i, Way(v, r, k, i)' PROVE FALSE
    <3>1. ~(k = "proc" /\ i = g)
      BY <2>3, <2>6
    <3>2. ~Way(v, r, k, i)
      BY <2>3, <2>4, <3>1 DEF OneWay, One
    <3>3. IsFor(data, r)
      BY <1>5, <2>6, <3>1, <3>2
    <3>4. QED
      BY <2>1, <2>2, <3>3 DEF IsFor
  <2>7. QED
    BY <2>5, <2>6, OriginKept DEF Some
<1>12. ASSUME NEW h \in Procs, NEW r \in Readers PROVE SentKept(h) \/ NoWay(home, h, r)'
  <2>1. CASE h = g
    BY <1>11, <2>1
  <2>2. CASE h # g
    BY <1>2, <2>2, SentQuiet
  <2>3. QED
    BY <2>1, <2>2
<1>13. QED
  BY <1>7, <1>8, <1>9, <1>10, <1>12, DeliveryKept

LEMMA ForwardMoves ==
    ASSUME Typed, Rest, OnePath, NEW home \in [Values -> Pipes], Delivery(home), NEW g \in Procs,
           Forward(g) \/ Requeried(g)
    PROVE  Delivery(home)'
<1> USE DEF Typed
<1>1. proc[g].pc \in Deciding /\ Writing(g)
  BY DEF Forward, Requeried, At, Deciding, Writing
<1>2. ScriptQuiet /\ ClisQuiet /\ LinesQuiet /\ HandlersQuiet /\ UNCHANGED reader /\ GotsQuiet
  BY SameQuiet DEF Forward, Requeried, users
<1>3. ViasQuiet
  <2>1. CASE Forward(g)
    BY <2>1, ObjQuiet, SameQuiet DEF Forward, NoSuchPipe, Query
  <2>2. CASE Requeried(g)
    BY <2>2, ObjQuiet DEF Requeried
  <2>3. QED
    BY <2>1, <2>2
<1>4. Now(g) = Own(g) /\ Own(g) \in Objects
  BY <1>1, NowIsOwn, ProcFields DEF Rest, WriterInv
<1>5. obj[Now(g)].cache \subseteq Readers /\ Sorted(obj[Now(g)].cache)
  <2>1. obj[Own(g)] \in Pipe
    BY <1>4 DEF PipeType
  <2>2. ScheduleAll \notin Readers
    BY ReaderAssumption DEF ScheduleAll
  <2>3. QED
    BY <1>4, <2>1, <2>2 DEF Sorted, Pipe
<1>6. CASE NoSuchPipe(g) \/ ViaFails(g)
  <2>1. ProcsQuiet /\ NetQuiet
    BY <1>1, <1>6, IdleQuiet, SameQuiet DEF NoSuchPipe, ViaFails
  <2>2. QED
    BY <1>2, <1>3, <2>1, QuietKeeps
<1>7. CASE Forward(g) /\ Query(g, "requery") /\ proc[g].r = ScheduleAll
  <2>1. ProcsQuiet /\ NetQuiet
    BY <1>1, <1>7, QueryQuiet
  <2>2. QED
    BY <1>2, <1>3, <2>1, QuietKeeps
<1>8. CASE Forwards(g, {proc[g].r})
  BY <1>1, <1>2, <1>3, <1>8, ForwardsMove DEF Sorted
<1>9. CASE Forward(g) /\ obj[Now(g)].via /\ Forwards(g, obj[Now(g)].cache)
  <2>1. obj[Own(g)].viaHost # None
    BY <1>4, <1>9 DEF Delivery, ViaHosted
  <2>2. QED
    BY <1>1, <1>2, <1>3, <1>5, <1>9, <2>1, ForwardsMove
<1>10. CASE Requeried(g) /\ Forwards(g, obj[Now(g)].cache)
  <2>1. proc[g].r = ScheduleAll
    BY <1>10 DEF Requeried, At, Delivery, Requeries
  <2>2. QED
    BY <1>1, <1>2, <1>3, <1>5, <1>10, <2>1, ForwardsMove
<1>11. CASE Forward(g)
  BY <1>6, <1>7, <1>8, <1>9, <1>11 DEF Forward
<1>12. QED
  BY <1>6, <1>10, <1>11 DEF Requeried

(* handleMessages begins to write for one recipient of a message. *)
LEMMA WriteNoForwardMoves ==
    ASSUME Typed, Rest, OnePath, NEW home \in [Values -> Pipes], Delivery(home), NEW n \in Nodes,
           WriteNoForward(n)
    PROVE  Delivery(home)'
<1> USE DEF Typed
<1>1. /\ handler[n].m \in Message /\ handler[n].m.type = "forward" /\ handler[n].pc = "locked"
      /\ handler[n].data \subseteq Readers \cup {ScheduleAll} /\ handler[n] \in HandlerState
  BY HandlerFields DEF WriteNoForward, HandlerType
<1>2. ScriptQuiet /\ ClisQuiet /\ LinesQuiet /\ ProcsQuiet /\ NetQuiet /\ GotsQuiet
  BY SameQuiet DEF WriteNoForward, users
<1>3. CASE Done(n) /\ UNCHANGED obj
  BY <1>2, <1>3, DoneQuiet, SameQuiet, QuietKeeps DEF Done
<1>4. CASE ~(Done(n) /\ UNCHANGED obj)
  <2>a. PICK o : o = Object(n, handler[n].m.pipe)
    OBVIOUS
  <2>b. PICK d \in handler[n].data :
          handler' = [handler EXCEPT ![n].pc = "writing", ![n].data = @ \ {d}, ![n].todo = Recipients(o, d)]
    BY <1>4, <2>a DEF WriteNoForward
  <2>c. PICK R : R = Recipients(o, d)
    OBVIOUS
  <2>1. /\ o = Object(n, handler[n].m.pipe) /\ R = Recipients(o, d) /\ alive[<<n, handler[n].m.pipe>>]
        /\ obj' = [obj EXCEPT ![o].lock = Handler]
        /\ handler' = [handler EXCEPT ![n].pc = "writing", ![n].data = @ \ {d}, ![n].todo = R]
    BY <1>4, <2>a, <2>b, <2>c DEF WriteNoForward
  <2>2. ViasQuiet
    BY <2>1, ObjQuiet
  <2>3. /\ handler'[n] = [handler[n] EXCEPT !.pc = "writing", !.data = @ \ {d}, !.todo = R]
        /\ \A k \in Nodes \ {n} : handler'[k] = handler[k]
    BY <2>1 DEF HandlerType
  <2>4. /\ handler'[n].pc = "writing" /\ handler'[n].m = handler[n].m
        /\ handler'[n].data = handler[n].data \ {d} /\ handler'[n].todo = R
    BY <1>1, <2>3 DEF HandlerState
  <2>5. Pending(n) = handler[n].data /\ Pending(n)' = handler[n].data \ {d} /\ Works(n)
    BY <1>1, <2>4 DEF Pending, Works
  <2>6. Sorted(handler[n].data) /\ ScheduleAll \notin Readers
    BY <1>1, <2>5, ReaderAssumption DEF Delivery, HandlerSorted, ScheduleAll
  <2>7. \A k \in Nodes \ {n} : HandlerQuiet(k)
    BY <2>3, OneHandlerQuiet
  <2>8. ASSUME NEW r \in R
        PROVE  n = NodeOf[r] /\ IsFor(handler[n].data, r) /\ ~IsFor(handler[n].data \ {d}, r)
    <3>1. r \in obj[o].readers /\ d \in {ScheduleAll, r}
      BY <2>1, <2>8 DEF Recipients
    <3>2. handler[n].m.pipe \in Pipes /\ o \in Objects
      BY <1>1, <2>1, MessageFields, ObjectIn
    <3>3. OwnOf(r) = o /\ r \in Readers
      BY <3>1, <3>2 DEF Rest, ChannelInv, ReadersInv, PipeType, Pipe
    <3>4. n = NodeOf[r]
      BY <2>1, <3>3 DEF OwnOf, Object
    <3>5. IsFor(handler[n].data, r)
      BY <3>1 DEF IsFor
    <3>6. ScheduleAll \in handler[n].data => handler[n].data = {ScheduleAll} /\ d = ScheduleAll
      BY <2>6 DEF Sorted
    <3>7. ~IsFor(handler[n].data \ {d}, r)
      BY <2>6, <3>1, <3>3, <3>6 DEF IsFor
    <3>8. QED
      BY <3>4, <3>5, <3>7
  <2>9. ASSUME NEW v \in Vals, NEW r \in Readers PROVE Step(v, r)
    <3>1. Way(v, r, "handler", n)' => Way(v, r, "handler", n)
      <4>1. ASSUME HandlerWay(v, r, n)' PROVE HandlerWay(v, r, n)
        BY <1>1, <2>4, <2>5, <4>1 DEF HandlerWay, Carries, IsFor
      <4>2. QED
        BY <4>1 DEF Way
    <3>2. ASSUME NEW k, NEW i, Way(v, r, k, i)' PROVE Way(v, r, k, i) \/ (k = "todo" /\ i = n)
      <4>1. CASE k = "handler" /\ i = n
        BY <3>1, <3>2, <4>1
      <4>2. CASE ~(k = "handler" /\ i = n)
        BY <1>2, <2>7, <3>2, <4>2, PartsFewer DEF LinesQuiet, ClisQuiet, ProcsQuiet
      <4>3. QED
        BY <4>1, <4>2
    <3>3. GotKept(v, r) /\ OneWay(home, v, r)
      BY <1>2, GotFewer DEF GotsQuiet, Delivery
    <3>4. CASE r \in R
      <4>1. ~Way(v, r, "handler", n)'
        BY <1>1, <2>4, <2>5, <2>8, <3>4 DEF Way, HandlerWay, Carries, IsFor
      <4>2. Way(v, r, "todo", n)' => Way(v, r, "handler", n)
        BY <1>1, <2>4, <2>5, <2>8, <3>4 DEF Way, HandlerWay, TodoWay, Carries
      <4>3. QED
        BY <3>2, <3>3, <4>1, <4>2, MoveStep
    <3>5. CASE r \notin R
      <4>1. ~Way(v, r, "todo", n)'
        BY <2>4, <3>5 DEF Way, TodoWay
      <4>2. Fewer(v, r)
        BY <3>2, <4>1 DEF Fewer
      <4>3. QED
        BY <3>3, <4>2, FewerFlow
    <3>6. QED
      BY <3>4, <3>5
  <2>10. \A s \in Readers : reader[s].got \subseteq reader'[s].got
    BY <1>2 DEF GotsQuiet, GotQuiet
  <2>11. LinePipe' /\ Requeries' /\ NetSorted' /\ ViaHosted' /\ HostsKept
    <3>1. \A l \in Pipelines : Writer(l) \in Procs
      BY WriterIsProc
    <3>2. QED
      BY <1>2, <2>2, <3>1, LinePipeKept, RequeriesKept, NetSortedKept, ViaHostedKept
         DEF Delivery, ProcsQuiet, ViasQuiet
  <2>12. HandlerSorted'
    <3>1. ASSUME NEW k \in Nodes, Works(k)', handler'[k].m.type = "forward" PROVE Sorted(Pending(k))'
      <4>1. CASE k = n
        BY <2>5, <2>6, <4>1 DEF Sorted
      <4>2. CASE k # n
        BY <2>3, <3>1, <4>2 DEF Delivery, HandlerSorted, Works, Pending, Sorted
      <4>3. QED
        BY <4>1, <4>2
    <3>2. QED
      BY <3>1 DEF HandlerSorted
  <2>13. \A h \in Procs : SentKept(h)
    BY <1>2, SentQuiet DEF ProcsQuiet
  <2>14. QED
    BY <2>9, <2>10, <2>11, <2>12, <2>13, DeliveryKept
<1>5. QED
  BY <1>3, <1>4

(* What a reader that takes a value has then. *)
LEMMA SendHas ==
    ASSUME UserType, NEW s \in Readers, NEW w, Send(s, w), ~UNCHANGED <<reader, line>>
    PROVE  /\ \A r \in Readers \ {s} : reader'[r] = reader[r]
           /\ reader'[s].got = reader[s].got \cup {w}
           /\ reader'[s].twice = IF w \in reader[s].got THEN reader[s].twice \cup {w} ELSE reader[s].twice
           /\ \A l \in Pipelines : IF Source[l] = s THEN line'[l].holds = w ELSE line'[l] = line[l]
<1>1. /\ reader' = [reader EXCEPT ![s].got = @ \cup {w},
                                  ![s].twice = IF w \in reader[s].got THEN @ \cup {w} ELSE @]
      /\ line' = [l \in Pipelines |-> IF Source[l] = s THEN [line[l] EXCEPT !.holds = w] ELSE line[l]]
  BY DEF Send
<1>2. reader[s] \in ReaderState /\ \A l \in Pipelines : line[l] \in LineState
  BY DEF UserType
<1>3. \A r \in Readers \ {s} : reader'[r] = reader[r]
  BY <1>1 DEF UserType
<1>4. /\ reader'[s].got = reader[s].got \cup {w}
      /\ reader'[s].twice = IF w \in reader[s].got THEN reader[s].twice \cup {w} ELSE reader[s].twice
  BY <1>1, <1>2 DEF UserType, ReaderState
<1>5. ASSUME NEW l \in Pipelines
      PROVE  IF Source[l] = s THEN line'[l].holds = w ELSE line'[l] = line[l]
  BY <1>1, <1>2 DEF LineState
<1>6. QED
  BY <1>3, <1>4, <1>5

(* A reader takes a value, and a pipeline that reads there has it. *)
LEMMA SendMoves ==
    ASSUME Typed, OnePath, NEW home \in [Values -> Pipes], Delivery(home), NEW s \in Readers,
           NEW w \in Contents, Send(s, w), NEW k1, NEW i1, Way(w, s, k1, i1), ~Way(w, s, k1, i1)',
           ScriptQuiet, ClisQuiet, ProcsQuiet, NetQuiet, HandlersQuiet, ViasQuiet
    PROVE  Delivery(home)'
<1> USE DEF Typed
<1>1. CASE UNCHANGED <<reader, line>>
  BY <1>1, SameQuiet, QuietKeeps
<1>2. CASE ~UNCHANGED <<reader, line>>
  <2>1. /\ \A r \in Readers \ {s} : reader'[r] = reader[r]
        /\ reader'[s].got = reader[s].got \cup {w}
        /\ reader'[s].twice = IF w \in reader[s].got THEN reader[s].twice \cup {w} ELSE reader[s].twice
        /\ \A l \in Pipelines : IF Source[l] = s THEN line'[l].holds = w ELSE line'[l] = line[l]
    BY <1>2, SendHas
  <2>2. ASSUME NEW v \in Vals, NEW r \in Readers, NEW k, NEW i, Way(v, r, k, i)', ~Way(v, r, k, i)
        PROVE  k = "line" /\ i \in Pipelines /\ Source[i] = s /\ PipeOf[i] = PipeOf[r] /\ v = w
    <3>1. k = "line" /\ i \in Pipelines
      BY <2>2, PartsFewer DEF ClisQuiet, ProcsQuiet, HandlersQuiet
    <3>2. LineWay(v, r, i)' /\ ~LineWay(v, r, i)
      BY <2>2, <3>1 DEF Way
    <3>3. QED
      BY <2>1, <3>1, <3>2 DEF LineWay
  <2>3. ASSUME NEW v \in Vals, NEW r \in Readers, v # w \/ r # s PROVE GotKept(v, r)
    <3>1. CASE r = s
      BY <2>1, <2>3, <3>1 DEF GotKept
    <3>2. CASE r # s
      BY <2>1, <3>2 DEF GotKept
    <3>3. QED
      BY <3>1, <3>2
  <2>4. Some(w, s)
    BY DEF Some
  <2>5. ASSUME NEW v \in Vals, NEW r \in Readers PROVE Step(v, r)
    <3>1. CASE v # w \/ (r # s /\ ~\E l \in Pipelines : Source[l] = s /\ PipeOf[l] = PipeOf[r])
      <4>1. Fewer(v, r)
        BY <2>2, <3>1 DEF Fewer
      <4>2. QED
        BY <2>3, <3>1, <4>1, FewerFlow
    <3>2. CASE v = w /\ r # s /\ \E l \in Pipelines : Source[l] = s /\ PipeOf[l] = PipeOf[r]
      <4>1. GotKept(v, r)
        BY <2>3, <3>2
      <4>2. Born(v, r)
        BY <2>1, <2>2, <2>4, <3>2, <4>1 DEF Born
      <4>3. QED
        BY <4>2 DEF Step
    <3>3. CASE v = w /\ r = s
      <4>1. \A q \in Readers : OneWay(home, v, q)
        BY DEF Delivery
      <4>2. Origin(home, v, PipeOf[s])
        BY <2>4, <3>3, <4>1 DEF OneWay
      <4>3. ASSUME NEW k, NEW i, Way(v, r, k, i)' PROVE Way(v, r, k, i) /\ ~(k = k1 /\ i = i1)
        <5>1. ASSUME ~Way(v, r, k, i) PROVE FALSE
          <6>1. i \in Pipelines /\ Source[i] = s /\ PipeOf[i] = PipeOf[s]
            BY <2>2, <3>3, <4>3, <5>1
          <6>2. ~Origin(home, v, PipeOf[i])
            BY <2>4, <3>3, <4>1, <6>1, NotYet
          <6>3. QED
            BY <4>2, <6>1, <6>2
        <5>2. ~(k = k1 /\ i = i1)
          BY <3>3, <4>3
        <5>3. QED
          BY <5>1, <5>2
      <4>4. v \in reader'[r].twice => v \in reader[r].twice \/ v \in reader[r].got
        BY <2>1, <3>3
      <4>5. Taken(v, r)
        BY <3>3, <4>3, <4>4 DEF Taken
      <4>6. QED
        BY <4>5 DEF Step
    <3>4. QED
      BY <3>1, <3>2, <3>3
  <2>6. \A r \in Readers : reader[r].got \subseteq reader'[r].got
    BY <2>1
  <2>7. LinePipe' /\ Requeries' /\ NetSorted' /\ HandlerSorted' /\ ViaHosted' /\ HostsKept
    <3>1. \A l \in Pipelines : Writer(l) \in Procs
      BY WriterIsProc
    <3>2. QED
      BY <3>1, LinePipeKept, RequeriesKept, NetSortedKept, SortedKept, ViaHostedKept
         DEF Delivery, ProcsQuiet, HandlersQuiet, ViasQuiet
  <2>8. \A h \in Procs : SentKept(h)
    BY SentQuiet DEF ProcsQuiet
  <2>9. QED
    BY <2>5, <2>6, <2>7, <2>8, DeliveryKept
<1>3. QED
  BY <1>1, <1>2

LEMMA WriteToMoves ==
    ASSUME Typed, Rest, OnePath, NEW home \in [Values -> Pipes], Delivery(home), NEW g \in Procs,
           NEW s \in Readers, WriteTo(g, s)
    PROVE  Delivery(home)'
<1> USE DEF Typed
<1>1. PICK w : w = proc[g].v
  OBVIOUS
<1>2. w \in Contents /\ proc[g] \in Proc /\ proc[g].pc = "writing" /\ s \in proc[g].todo /\ Send(s, w)
  BY <1>1, ProcFields DEF WriteTo, At, ProcType
<1>3. /\ proc'[g] = [proc[g] EXCEPT !.todo = @ \ {s}]
      /\ \A h \in Procs \ {g} : proc'[h] = proc[h]
  BY DEF WriteTo, ProcType
<1>4. /\ proc'[g].pc = "writing" /\ proc'[g].v = w /\ proc'[g].pipe = proc[g].pipe
      /\ proc'[g].gen = proc[g].gen /\ proc'[g].r = proc[g].r /\ proc'[g].todo = proc[g].todo \ {s}
  BY <1>1, <1>2, <1>3 DEF Proc
<1>5. ProcQuiet(g)
  BY <1>1, <1>2, <1>4 DEF ProcQuiet, Sending
<1>6. ProcsQuiet
  BY <1>3, <1>5, OneProcQuiet
<1>7. ScriptQuiet /\ ClisQuiet /\ NetQuiet /\ HandlersQuiet /\ ViasQuiet
  BY SameQuiet DEF WriteTo, pipesState
<1>8. OwnOf(s) = Own(g)
  BY <1>2 DEF Rest, ChannelInv, HoldInv, HoldOf
<1>9. Way(w, s, "proc", g)
  BY <1>1, <1>2, <1>8 DEF Way, ProcWay, OwnOf, Own
<1>10. ~Way(w, s, "proc", g)'
  BY <1>4 DEF Way, ProcWay, Deciding
<1>11. QED
  BY <1>2, <1>6, <1>7, <1>9, <1>10, SendMoves

LEMMA HandlerWritesMoves ==
    ASSUME Typed, Rest, OnePath, NEW home \in [Values -> Pipes], Delivery(home), NEW n \in Nodes,
           NEW s \in Readers, HandlerWrites(n, s)
    PROVE  Delivery(home)'
<1> USE DEF Typed
<1>1. PICK w : w = handler[n].m.v
  OBVIOUS
<1>2. /\ handler[n] \in HandlerState /\ handler[n].m \in Message /\ handler[n].m.type = "forward"
      /\ handler[n].pc = "writing" /\ s \in handler[n].todo
  BY HandlerFields DEF HandlerWrites, HandlerType
<1>3. w \in Contents /\ Send(s, w)
  BY <1>1, <1>2, MessageFields DEF HandlerWrites
<1>4. /\ handler'[n] = [handler[n] EXCEPT !.todo = @ \ {s}]
      /\ \A k \in Nodes \ {n} : handler'[k] = handler[k]
  BY DEF HandlerWrites, HandlerType
<1>5. /\ handler'[n].pc = "writing" /\ handler'[n].m = handler[n].m /\ handler'[n].data = handler[n].data
      /\ handler'[n].todo = handler[n].todo \ {s}
  BY <1>2, <1>4 DEF HandlerState
<1>6. HandlerQuiet(n)
  BY <1>2, <1>5 DEF HandlerQuiet, Works, Pending
<1>7. HandlersQuiet
  BY <1>4, <1>6, OneHandlerQuiet
<1>8. ScriptQuiet /\ ClisQuiet /\ NetQuiet /\ ProcsQuiet /\ ViasQuiet
  BY SameQuiet DEF HandlerWrites, pipesState
<1>9. OwnOf(s) = Target(n)
  BY <1>2 DEF Rest, ChannelInv, HandlerInv, HandlerOf
<1>10. PipeOf[s] = handler[n].m.pipe
  BY <1>9 DEF OwnOf, Target, Object
<1>11. Way(w, s, "todo", n)
  BY <1>1, <1>2, <1>10 DEF Way, TodoWay, Carries
<1>12. ~Way(w, s, "todo", n)'
  BY <1>5 DEF Way, TodoWay
<1>13. QED
  BY <1>3, <1>7, <1>8, <1>11, <1>12, SendMoves

----------------------------------------------------------------------------
(* Nothing is on its way at first but the commands of the users. *)
LEMMA DeliveryStarts ==
    ASSUME Init, WrittenOnce, OnePath
    PROVE  \E home \in [Values -> Pipes] : Delivery(home)
<1> DEFINE W(v) == {c \in script : c.op = "write" /\ c.arg = v}
           Home(v) == IF W(v) # {} THEN (CHOOSE c \in W(v) : TRUE).pipe ELSE CHOOSE p \in Pipes : TRUE
           home == [v \in Values |-> Home(v)]
<1>1. \A c \in script : c.op = "write" => c.pipe \in Pipes
  <2>1. script \subseteq Commands \cup Requests
    BY ScriptAssumption DEF Init
  <2>2. QED
    BY <2>1 DEF Commands, Requests
<1>2. \A v : \A c, d \in W(v) : c = d
  BY DEF Init, WrittenOnce
<1>3. ASSUME NEW v \in Values PROVE home[v] \in Pipes /\ \A c \in W(v) : c.pipe = home[v]
  <2>1. CASE W(v) = {}
    BY <2>1, NameAssumption
  <2>2. CASE W(v) # {}
    <3>1. PICK c : c = CHOOSE e \in W(v) : TRUE
      OBVIOUS
    <3>2. c \in W(v) /\ home[v] = c.pipe
      BY <2>2, <3>1
    <3>3. QED
      BY <1>1, <1>2, <3>2
  <2>3. QED
    BY <2>1, <2>2
<1>4. home \in [Values -> Pipes]
  <2>1. \A v \in Values : Home(v) \in Pipes
    BY <1>3
  <2>2. QED
    BY <2>1
<1>5. /\ \A g \in Procs : proc[g].pc = "off"
      /\ \A n \in Nodes : cli[n] = None /\ handler[n].pc = "idle"
      /\ \A l \in Pipelines : line[l].holds = None
      /\ \A r \in Readers : reader[r].got = {} /\ reader[r].twice = {}
      /\ \A o \in Objects : ~obj[o].via
      /\ net = {}
  BY DEF Init, NoProc, IdleHandler, NewPipe
<1>6. ASSUME NEW v \in Vals, NEW r \in Readers, NEW k, NEW i, Way(v, r, k, i)
      PROVE  k = "script" /\ i \in W(v) /\ i.pipe = PipeOf[r]
  <2>1. ~CliWay(v, r, i) /\ ~LineWay(v, r, i) /\ ~ProcWay(v, r, i) /\ ~NetWay(v, r, i)
    BY <1>5, NameAssumption DEF CliWay, LineWay, ProcWay, NetWay, Deciding, Vals, Contents
  <2>2. ~HandlerWay(v, r, i) /\ ~TodoWay(v, r, i)
    BY <1>5 DEF HandlerWay, TodoWay, Works
  <2>3. k = "script" /\ ScriptWay(v, r, i)
    BY <1>6, <2>1, <2>2 DEF Way
  <2>4. QED
    BY <2>3 DEF ScriptWay, Writes
<1> HIDE DEF W, home
<1>7. ASSUME NEW v \in Vals, NEW r \in Readers PROVE OneWay(home, v, r)
  <2>1. One(v, r)
    BY <1>2, <1>6 DEF One
  <2>2. Some(v, r) => Origin(home, v, PipeOf[r])
    <3>1. ASSUME NEW k, NEW i, Way(v, r, k, i) PROVE Origin(home, v, PipeOf[r])
      <4>1. v \in Values /\ i \in W(v) /\ i.pipe = PipeOf[r]
        BY <1>6, <3>1 DEF Vals
      <4>2. home[v] = PipeOf[r] /\ home[v] \in Pipes
        BY <1>3, <4>1
      <4>3. home[v] \in Reach[home[v]]
        BY <4>2, ReachLeads DEF Leads
      <4>4. QED
        BY <4>2, <4>3 DEF Origin
    <3>2. QED
      BY <3>1 DEF Some
  <2>3. QED
    BY <1>5, <2>1, <2>2 DEF OneWay
<1>8. \A g \in Procs, r \in Readers : NoWay(home, g, r)
  BY <1>5 DEF NoWay, Passes, Sending
<1>9. LinePipe /\ Requeries /\ NetSorted /\ HandlerSorted /\ ViaHosted
  <2>1. LinePipe
    BY <1>5, WriterIsProc DEF LinePipe, Writing
  <2>2. QED
    BY <1>5, <2>1 DEF Requeries, NetSorted, HandlerSorted, Works, ViaHosted
<1>10. QED
  BY <1>4, <1>7, <1>8, <1>9 DEF Delivery

LEMMA DeliverySteps ==
    ASSUME Typed, Rest, OnePath, NEW home \in [Values -> Pipes], Delivery(home), [Next]_vars
    PROVE  Delivery(home)'
<1>1. CASE UNCHANGED vars
  BY <1>1, SameQuiet, QuietKeeps DEF vars, Typed
<1>2. ASSUME NEW c \in script, Command(c) PROVE Delivery(home)'
  BY <1>2, CommandMoves
<1>3. ASSUME NEW n \in Nodes, CommandStep(n) PROVE Delivery(home)'
  BY <1>3, CommandQuiet, WriteMoves DEF CommandStep
<1>4. ASSUME NEW n \in Nodes, HandlerStep(n) PROVE Delivery(home)'
  BY <1>4, ReceiveMoves, MessageQuiet, WriteMoves, WriteNoForwardMoves, HandlerWritesMoves
     DEF HandlerStep
<1>5. ASSUME NEW r \in Readers, OpenReader(r) \/ CloseReader(r) \/ ReaderGone(r) PROVE Delivery(home)'
  BY <1>5, ReaderQuiet
<1>6. ASSUME NEW l \in Pipelines, Plumb(l) \/ PipelineDelete(l) \/ PipelineStep(l) PROVE Delivery(home)'
  BY <1>6, PipelineQuiet, PassOnMoves DEF PipelineStep
<1>7. ASSUME NEW g \in Procs, WriterStep(g) PROVE Delivery(home)'
  BY <1>7, ScheduleQuiet, ViaWriteMoves, TimeoutQuiet, ForwardMoves, WriteQuiet, WriteToMoves
     DEF WriterStep
<1>8. QED
  BY <1>1, <1>2, <1>3, <1>4, <1>5, <1>6, <1>7 DEF Next

(* Values get to their pipes from somewhere. *)
DeliveryInv == \E home \in [Values -> Pipes] : Delivery(home)

LEMMA DeliveryInvSound == IInv /\ DeliveryInv => DeliverySound
<1> SUFFICES ASSUME IInv, NEW home \in [Values -> Pipes], Delivery(home) PROVE DeliverySound
  BY DEF DeliveryInv
<1>1. Typed
  BY Parts
<1>2. AtMostOnce
  <2>1. ASSUME NEW r \in Readers, NEW v \in reader[r].twice PROVE v = Empty
    <3>1. v \in Contents
      BY <1>1 DEF Typed, UserType, ReaderState
    <3>2. v \in Vals => OneWay(home, v, r)
      BY DEF Delivery
    <3>3. QED
      BY <3>1, <3>2 DEF Contents, Vals, OneWay
  <2>2. QED
    BY <2>1 DEF AtMostOnce
<1>3. SoleRecipient
  <2> SUFFICES ASSUME NEW g \in Procs, obj[Own(g)].viaHost = None, proc[g].pc \in {"write", "writing"},
                      proc[g].r # ScheduleAll, proc[g].v # Empty, NEW r \in Readers \ {proc[g].r},
                      PipeOf[r] = proc[g].pipe
               PROVE  proc[g].v \notin reader[r].got
    BY DEF SoleRecipient, Sole
  <2>1. proc[g].v \in Vals
    BY <1>1, ProcFields DEF Typed, Contents, Vals
  <2>2. Passes(g, proc[g].v, r) /\ NoWay(home, g, r)
    BY DEF Passes, Sending, Delivery
  <2>3. QED
    BY <2>1, <2>2 DEF NoWay
<1>4. QED
  BY <1>2, <1>3 DEF DeliverySound

(* Who gets a value: no reader of any node gets it twice, and one that was not    *)
(* chosen for it never gets it, over all modes, vias, pipelines, timeouts and      *)
(* orders of messages.  A value stands for one command, and pipelines that come    *)
(* together or go round are left out: by these a reader rightly gets a value again. *)
THEOREM DeliveryIsSound ==
    ASSUME WrittenOnce, OnePath
    PROVE  Spec => []DeliverySound
<1>1. Init => DeliveryInv
  BY DeliveryStarts DEF DeliveryInv
<1>2. IInv /\ DeliveryInv /\ [Next]_vars => DeliveryInv'
  BY Parts, DeliverySteps DEF DeliveryInv
<1>3. IInv /\ DeliveryInv => DeliverySound
  BY DeliveryInvSound
<1>4. QED
  BY Invariant, <1>1, <1>2, <1>3, PTL DEF Spec

=============================================================================
