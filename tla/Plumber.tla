------------------------------ MODULE Plumber ------------------------------
(***************************************************************************)
(* Named pipes and pipelines over the mesh: package miniplumber.           *)
(*                                                                         *)
(* Each node has a Plumber: its pipes, guarded by p.lock and by a lock per *)
(* pipe (pp.lock), and a goroutine that handles the messages of the other  *)
(* nodes.  A writer goroutine takes values from a channel and, for each,   *)
(* chooses the readers (schedule), sends it to the other nodes (forward)   *)
(* and to the readers of its node (write).  p.lock is held during a query  *)
(* of all nodes, and pp.lock until the readers have taken the value.       *)
(*                                                                         *)
(* `pipe p data' makes a writer for one value, which is named by the value *)
(* here; a pipeline `plumb p q' is a reader of p, a goroutine that passes  *)
(* on what it reads, and a writer of q, which is named by the pipeline.    *)
(***************************************************************************)
EXTENDS Integers, FiniteSets, FiniteSetsExt

CONSTANTS
    Nodes,      \* the nodes of the mesh
    Pipes,      \* names of pipes
    Readers,    \* readers, by the ID that orders them
    Values,     \* the values that users write
    Pipelines,  \* pipelines from one pipe to another
    NodeOf,     \* the node of each reader and pipeline
    PipeOf,     \* the pipe of each reader, and the one a pipeline writes to
    Source,     \* the reader of each pipeline
    Scripts,    \* sets of what users do, in any order
    MaxGen,     \* bound: times that a pipe is made on a node
    Handler,    \* the goroutine handleMessages, as the holder of a lock
    Cli,        \* the goroutine of a command, as the holder of a lock
    None        \* no value, node, command or holder

Modes == {"all", "rr", "rnd"}
Empty == "empty"                 \* what a closed channel yields
ScheduleAll == -1
Contents == Values \cup {Empty}
Procs == [name : Contents \cup Pipelines, node : Nodes]
Gens == 1 .. MaxGen
Objects == Nodes \X Pipes \X Gens

Commands ==
    [op : {"write"}, node : Nodes, pipe : Pipes, arg : Values]
        \cup [op : {"mode"}, node : Nodes, pipe : Pipes, arg : Modes]
        \cup [op : {"via"}, node : Nodes, pipe : Pipes, arg : BOOLEAN]
        \cup [op : {"delete"}, node : Nodes, pipe : Pipes, arg : {None}]
Requests ==
    [op : {"open", "close"}, reader : Readers] \cup [op : {"plumb", "unplumb"}, pipeline : Pipelines]

ASSUME ReaderAssumption == Readers \subseteq Nat \ {0} /\ IsFiniteSet(Readers) /\ IsFiniteSet(Nodes)
ASSUME PlaceAssumption ==
    /\ NodeOf \in [Readers \cup Pipelines -> Nodes] /\ PipeOf \in [Readers \cup Pipelines -> Pipes]
    /\ Source \in [Pipelines -> Readers] /\ \A l \in Pipelines : NodeOf[Source[l]] = NodeOf[l]
ASSUME ScriptAssumption == \A S \in Scripts : S \subseteq Commands \cup Requests
ASSUME BoundAssumption == MaxGen \in Nat \ {0}
ASSUME NameAssumption ==
    /\ Pipes # {} /\ Contents \cap Pipelines = {}
    /\ None \notin Contents \cup Nodes \cup Procs \cup {Handler} /\ Handler \notin Procs

VARIABLES
    gen,       \* how often a pipe was made on a node
    alive,     \* Plumber.pipes: whether it is there
    obj,       \* the Pipe structures
    plock,     \* who holds Plumber.lock
    proc,      \* the writer goroutines
    handler,   \* the goroutines handleMessages
    cli,       \* the command that holds p.lock
    script,    \* what the users have not done yet
    reader,    \* the readers, and what their users got
    line,      \* the pipelines, and what they hold
    net,       \* messages on their way
    misuse     \* history: what makes the process panic

vars == <<gen, alive, obj, plock, proc, handler, cli, script, reader, line, net, misuse>>
pipesState == <<gen, alive, obj>>
users == <<cli, script, reader, line>>

Pipe == [readers : SUBSET Readers, numWriters : Nat, lock : Procs \cup {Handler, None},
         mode : Modes, via : BOOLEAN, viaHost : Nodes \cup {None}, last : Readers \cup {0},
         cache : SUBSET Readers]

Proc == [pc : {"off", "open", "opening", "range", "check", "via", "schedule", "scheduling", "query",
               "forward", "forwarding", "requery", "write", "writing"},
         pipe : Pipes, gen : Gens, v : Contents, r : Readers \cup {ScheduleAll},
         todo : SUBSET Readers, wait : SUBSET Nodes, closed : BOOLEAN]

(* TIDs are random, and two transactions have different ones: that of a writer's *)
(* transaction is the writer, and None is that of one that is over.              *)
TIDs == Procs \cup {None}

Message ==
    [type : {"forward"}, to : Nodes, from : Nodes, pipe : Pipes, v : Contents,
     data : SUBSET (Readers \cup {ScheduleAll})]
        \cup [type : {"query"}, to : Nodes, from : Nodes, pipe : Pipes, tid : TIDs]
        \cup [type : {"response"}, to : Nodes, from : Nodes, tid : TIDs, readers : SUBSET Readers]
        \cup [type : {"viawrite"}, to : Nodes, from : Nodes, pipe : Pipes, v : Contents]
        \cup [type : {"viahost"}, to : Nodes, from : Nodes, pipe : Pipes, host : Nodes \cup {None}]

(* Goroutines, pipes and messages are of the kinds above. *)
TypeOK ==
    /\ gen \in [Nodes \X Pipes -> 0 .. MaxGen] /\ alive \in [Nodes \X Pipes -> BOOLEAN]
    /\ obj \in [Objects -> Pipe]
    /\ plock \in [Nodes -> Procs \cup {Handler, Cli, None}]
    /\ proc \in [Procs -> Proc]
    /\ \A n \in Nodes : handler[n].m = None \/ handler[n].m \in Message
    /\ \A n \in Nodes : cli[n] = None \/ cli[n] \in Commands
    /\ script \subseteq Commands \cup Requests /\ net \subseteq Message
    /\ \A r \in Readers : reader[r].got \subseteq Contents /\ reader[r].twice \subseteq Contents
    /\ misuse \subseteq {"close", "send", "map"}

NewPipe == [readers |-> {}, numWriters |-> 0, lock |-> None, mode |-> "all", via |-> FALSE,
            viaHost |-> None, last |-> 0, cache |-> {}]

NoProc == [pc |-> "off", pipe |-> CHOOSE p \in Pipes : TRUE, gen |-> 1, v |-> Empty, r |-> ScheduleAll,
           todo |-> {}, wait |-> {}, closed |-> FALSE]

IdleHandler == [pc |-> "idle", m |-> None, data |-> {}, todo |-> {}]

Init ==
    /\ gen = [np \in Nodes \X Pipes |-> 0] /\ alive = [np \in Nodes \X Pipes |-> FALSE]
    /\ obj = [o \in Objects |-> NewPipe]
    /\ plock = [n \in Nodes |-> None]
    /\ proc = [g \in Procs |-> NoProc]
    /\ handler = [n \in Nodes |-> IdleHandler]
    /\ cli = [n \in Nodes |-> None] /\ script \in Scripts
    /\ reader = [r \in Readers |-> [pc |-> "none", gen |-> 1, got |-> {}, twice |-> {}]]
    /\ line = [l \in Pipelines |-> [pc |-> "none", done |-> FALSE, holds |-> None]]
    /\ net = {} /\ misuse = {}

----------------------------------------------------------------------------
(* Pipes and locks. *)

(* The Pipe that p names on n, made if there is none *)
Gen(n, p) == IF alive[<<n, p>>] THEN gen[<<n, p>>] ELSE gen[<<n, p>>] + 1
Object(n, p) == <<n, p, Gen(n, p)>>

Make(n, p) ==
    /\ Gen(n, p) \in Gens
    /\ gen' = [gen EXCEPT ![<<n, p>>] = Gen(n, p)]
    /\ alive' = [alive EXCEPT ![<<n, p>>] = TRUE]

(* The Pipe that a writer or a reader was made for *)
Own(g) == <<g.node, proc[g].pipe, proc[g].gen>>
OwnOf(r) == <<NodeOf[r], PipeOf[r], reader[r].gen>>

Lock(n, who) == plock[n] = None /\ plock' = [plock EXCEPT ![n] = who]
Unlock(n) == plock' = [plock EXCEPT ![n] = None]
Unlocked(o) == obj[o].lock = None

Others(n) == Nodes \ {n}

(* Node.Broadcast *)
Broadcast(n, m) == net' = net \cup {[m EXCEPT !.to = k] : k \in Others(n)}

----------------------------------------------------------------------------
(* Commands.  Each takes p.lock, and most then need the lock of the pipe. *)

Command(c) ==
    /\ c \in script \cap Commands /\ cli[c.node] = None /\ Lock(c.node, Cli)
    /\ cli' = [cli EXCEPT ![c.node] = c] /\ script' = script \ {c}
    /\ UNCHANGED <<pipesState, proc, handler, reader, line, net, misuse>>

Runs(n, op) == cli[n] # None /\ cli[n].op = op

Returns(n) == cli' = [cli EXCEPT ![n] = None] /\ Unlock(n)

(* newWriter, with a value on its channel *)
NewWriter(n, p, v) ==
    LET g == [name |-> v, node |-> n] IN
    /\ proc[g].pc = "off" /\ Unlocked(Object(n, p))
    /\ Make(n, p) /\ obj' = [obj EXCEPT ![Object(n, p)].numWriters = @ + 1]
    /\ proc' = [proc EXCEPT ![g] = [NoProc EXCEPT !.pc = "check", !.pipe = p, !.gen = Gen(n, p),
                                                 !.v = v, !.closed = TRUE]]

CliWrite(n) ==
    /\ Runs(n, "write") /\ NewWriter(n, cli[n].pipe, cli[n].arg) /\ Returns(n)
    /\ UNCHANGED <<handler, script, reader, line, net, misuse>>

CliMode(n) ==
    /\ Runs(n, "mode")
    /\ LET o == Object(n, cli[n].pipe) IN
       Unlocked(o) /\ Make(n, cli[n].pipe) /\ obj' = [obj EXCEPT ![o].mode = cli[n].arg]
    /\ Returns(n)
    /\ UNCHANGED <<proc, handler, script, reader, line, net, misuse>>

CliVia(n) ==
    /\ Runs(n, "via")
    /\ LET o == Object(n, cli[n].pipe) IN
       /\ Unlocked(o) /\ Make(n, cli[n].pipe)
       /\ obj' = [obj EXCEPT ![o].via = cli[n].arg, ![o].viaHost = n]
    /\ Broadcast(n, [type |-> "viahost", to |-> n, from |-> n, pipe |-> cli[n].pipe,
                     host |-> IF cli[n].arg THEN n ELSE None])
    /\ Returns(n)
    /\ UNCHANGED <<proc, handler, script, reader, line, misuse>>

(* A mutant of CliDelete without the check for writers. *)
CliDeleteInUse(n) ==
    /\ Runs(n, "delete")
    /\ LET p == cli[n].pipe
           o == Object(n, p)
       IN /\ alive[<<n, p>>] => Unlocked(o)
          /\ IF alive[<<n, p>>]
             THEN /\ alive' = [alive EXCEPT ![<<n, p>>] = FALSE]
                  /\ reader' = [r \in Readers |-> IF r \in obj[o].readers /\ reader[r].pc = "open"
                                   THEN [reader[r] EXCEPT !.pc = "done"] ELSE reader[r]]
             ELSE UNCHANGED <<alive, reader>>
    /\ Returns(n)
    /\ UNCHANGED <<gen, obj, proc, handler, script, line, net, misuse>>

(* A mutant of CliDelete that returns without giving p.lock back. *)
CliDeleteKeepsLock(n) ==
    /\ Runs(n, "delete") /\ cli' = [cli EXCEPT ![n] = None]
    /\ UNCHANGED <<pipesState, plock, proc, handler, script, reader, line, net, misuse>>

(* PipeDelete: an error if the pipe is not there or has open writers *)
CliDelete(n) ==
    /\ Runs(n, "delete")
    /\ LET p == cli[n].pipe
           o == Object(n, p)
       IN /\ alive[<<n, p>>] => Unlocked(o)
          /\ IF alive[<<n, p>>] /\ obj[o].numWriters = 0
             THEN /\ alive' = [alive EXCEPT ![<<n, p>>] = FALSE]
                  /\ reader' = [r \in Readers |-> IF r \in obj[o].readers /\ reader[r].pc = "open"
                                   THEN [reader[r] EXCEPT !.pc = "done"] ELSE reader[r]]
             ELSE UNCHANGED <<alive, reader>>
    /\ Returns(n)
    /\ UNCHANGED <<gen, obj, proc, handler, script, line, net, misuse>>

----------------------------------------------------------------------------
(* Readers. *)

(* newReader adds to pp.readers without pp.lock: when a write goes over them, *)
(* the runtime may stop the process.                                          *)
NewReader(r) ==
    LET n == NodeOf[r]
        o == Object(n, PipeOf[r])
    IN /\ reader[r].pc = "none" /\ plock[n] = None
       /\ Make(n, PipeOf[r])
       /\ obj' = [obj EXCEPT ![o].readers = @ \cup {r}]
       /\ reader' = [reader EXCEPT ![r].pc = "open", ![r].gen = Gen(n, PipeOf[r])]
       /\ misuse' = IF Unlocked(o) THEN misuse ELSE misuse \cup {"map"}

Asked(c) == c \in script /\ script' = script \ {c}

(* A reader of another program, over the command socket *)
OpenReader(r) ==
    /\ Asked([op |-> "open", reader |-> r]) /\ NewReader(r)
    /\ UNCHANGED <<plock, proc, handler, cli, line, net>>

CloseReader(r) ==
    /\ Asked([op |-> "close", reader |-> r]) /\ reader[r].pc = "open"
    /\ reader' = [reader EXCEPT ![r].pc = "done"]
    /\ UNCHANGED <<pipesState, plock, proc, handler, cli, line, net, misuse>>

(* A mutant of ReaderGone that does not take pp.lock. *)
ReaderGoneUnlocked(r) ==
    /\ reader[r].pc = "done"
    /\ obj' = [obj EXCEPT ![OwnOf(r)].readers = @ \ {r}]
    /\ reader' = [reader EXCEPT ![r].pc = "gone"]
    /\ UNCHANGED <<gen, alive, plock, proc, handler, cli, script, line, net, misuse>>

(* The goroutine of newReader closes the channel under pp.lock. *)
ReaderGone(r) ==
    /\ reader[r].pc = "done" /\ Unlocked(OwnOf(r))
    /\ obj' = [obj EXCEPT ![OwnOf(r)].readers = @ \ {r}]
    /\ reader' = [reader EXCEPT ![r].pc = "gone"]
    /\ UNCHANGED <<gen, alive, plock, proc, handler, cli, script, line, net, misuse>>

(* A send on the channel of a reader, in Pipe.write: the reader takes the value, *)
(* or is done.  A pipeline takes it when it has passed on the one before.        *)
Send(r, v) ==
    \/ /\ reader[r].pc = "done" /\ UNCHANGED <<reader, line, misuse>>
    \/ /\ reader[r].pc = "gone" /\ misuse' = misuse \cup {"send"} /\ UNCHANGED <<reader, line>>
    \/ /\ reader[r].pc = "open"
       /\ \A l \in Pipelines : Source[l] = r => line[l].pc = "running" /\ line[l].holds = None
       /\ reader' = [reader EXCEPT ![r].got = @ \cup {v},
                                   ![r].twice = IF v \in reader[r].got THEN @ \cup {v} ELSE @]
       /\ line' = [l \in Pipelines |-> IF Source[l] = r THEN [line[l] EXCEPT !.holds = v] ELSE line[l]]
       /\ UNCHANGED misuse

----------------------------------------------------------------------------
(* Pipelines. *)

Writer(l) == [name |-> l, node |-> NodeOf[l]]

Plumb(l) ==
    /\ Asked([op |-> "plumb", pipeline |-> l]) /\ line[l].pc = "none" /\ plock[NodeOf[l]] = None
    /\ line' = [line EXCEPT ![l].pc = "registered"]
    /\ UNCHANGED <<pipesState, plock, proc, handler, cli, reader, net, misuse>>

(* The goroutine startPipeline: it makes pl.done, the reader and the writer. *)
StartPipeline(l) ==
    /\ line[l].pc = "registered"
    /\ line' = [line EXCEPT ![l].pc = "started"]
    /\ UNCHANGED <<pipesState, plock, proc, handler, cli, script, reader, net, misuse>>

StartReader(l) ==
    /\ line[l].pc = "started" /\ NewReader(Source[l])
    /\ line' = [line EXCEPT ![l].pc = "reading"]
    /\ proc' = [proc EXCEPT ![Writer(l)].pc = "open"]
    /\ UNCHANGED <<plock, handler, cli, script, net>>

StartWriterLock(l) ==
    /\ line[l].pc = "reading" /\ proc[Writer(l)].pc = "open" /\ Lock(NodeOf[l], Writer(l))
    /\ proc' = [proc EXCEPT ![Writer(l)].pc = "opening"]
    /\ UNCHANGED <<pipesState, handler, users, net, misuse>>

StartWriter(l) ==
    LET n == NodeOf[l]
        o == Object(n, PipeOf[l])
    IN /\ proc[Writer(l)].pc = "opening" /\ Unlocked(o)
       /\ Make(n, PipeOf[l]) /\ obj' = [obj EXCEPT ![o].numWriters = @ + 1]
       /\ proc' = [proc EXCEPT ![Writer(l)] = [NoProc EXCEPT !.pc = "range", !.pipe = PipeOf[l],
                                                            !.gen = Gen(n, PipeOf[l])]]
       /\ line' = [line EXCEPT ![l].pc = "running"]
       /\ Unlock(n)
       /\ UNCHANGED <<handler, cli, script, reader, net, misuse>>

(* PipelineDelete closes pl.done, which startPipeline may not have made. *)
PipelineDelete(l) ==
    /\ Asked([op |-> "unplumb", pipeline |-> l])
    /\ line[l].pc # "none" /\ plock[NodeOf[l]] = None
    /\ line' = [line EXCEPT ![l].done = TRUE]
    /\ misuse' = IF line[l].pc = "registered" THEN misuse \cup {"close"} ELSE misuse
    /\ UNCHANGED <<pipesState, plock, proc, handler, cli, reader, net>>

(* The end of the reader ends the pipeline, and the other way round. *)
WatchReader(l) ==
    /\ line[l].pc \in {"reading", "running", "ended"}
    /\ line[l].done # (reader[Source[l]].pc # "open")
    /\ line' = [line EXCEPT ![l].done = TRUE]
    /\ reader' = [reader EXCEPT ![Source[l]].pc = IF @ = "open" THEN "done" ELSE @]
    /\ UNCHANGED <<pipesState, plock, proc, handler, cli, script, net, misuse>>

(* What a pipeline reads from a channel that is closed *)
ReadClosed(l) ==
    /\ line[l].pc = "running" /\ line[l].holds = None /\ reader[Source[l]].pc = "gone"
    /\ line' = [line EXCEPT ![l].holds = Empty]
    /\ UNCHANGED <<pipesState, plock, proc, handler, cli, script, reader, net, misuse>>

PassOn(l) ==
    /\ line[l].pc = "running" /\ line[l].holds # None /\ proc[Writer(l)].pc = "range"
    /\ proc' = [proc EXCEPT ![Writer(l)].pc = "check", ![Writer(l)].v = line[l].holds]
    /\ line' = [line EXCEPT ![l].holds = None]
    /\ UNCHANGED <<pipesState, plock, handler, cli, script, reader, net, misuse>>

StopPassing(l) ==
    /\ line[l].pc = "running" /\ line[l].done
    /\ line' = [line EXCEPT ![l].pc = "ended", ![l].holds = None]
    /\ proc' = [proc EXCEPT ![Writer(l)].closed = TRUE]
    /\ UNCHANGED <<pipesState, plock, handler, cli, script, reader, net, misuse>>

----------------------------------------------------------------------------
(* The goroutine of a writer. *)

At(g, pc) == proc[g].pc = pc
Go(g, pc) == proc' = [proc EXCEPT ![g].pc = pc]
Now(g) == Object(g.node, proc[g].pipe)

(* The end of the handling of a value, because of an error or not *)
Idle(g) == proc' = [proc EXCEPT ![g] = [NoProc EXCEPT !.pc = "range", !.pipe = proc[g].pipe,
                                          !.gen = proc[g].gen, !.closed = proc[g].closed]]

Check(g) ==
    /\ At(g, "check")
    /\ Go(g, IF obj[Own(g)].viaHost \notin {None, g.node} THEN "via" ELSE "schedule")
    /\ UNCHANGED <<pipesState, plock, handler, users, net, misuse>>

(* The owner of the via gets the value.  A node sends nothing to itself. *)
ViaWrite(g) ==
    /\ At(g, "via") /\ plock[g.node] = None
    /\ LET host == obj[Own(g)].viaHost IN
       net' = IF host = g.node THEN net
              ELSE net \cup {[type |-> "viawrite", to |-> host, from |-> g.node,
                              pipe |-> proc[g].pipe, v |-> proc[g].v]}
    /\ Idle(g)
    /\ UNCHANGED <<pipesState, plock, handler, users, misuse>>

ScheduleLock(g) ==
    /\ At(g, "schedule") /\ Lock(g.node, g) /\ Go(g, "scheduling")
    /\ UNCHANGED <<pipesState, handler, users, net, misuse>>

ForwardLock(g) ==
    /\ At(g, "forward") /\ Lock(g.node, g) /\ Go(g, "forwarding")
    /\ UNCHANGED <<pipesState, handler, users, net, misuse>>

(* schedule and forward fail when the pipe is gone. *)
NoSuchPipe(g) == Idle(g) /\ Unlock(g.node) /\ UNCHANGED <<obj, net>>

(* updateReaderCache, with both locks held *)
Query(g, pc) ==
    /\ obj' = [obj EXCEPT ![Now(g)].lock = g, ![Now(g)].cache = {}]
    /\ proc' = [proc EXCEPT ![g].pc = pc, ![g].wait = Others(g.node)]
    /\ Broadcast(g.node, [type |-> "query", to |-> g.node, from |-> g.node, pipe |-> proc[g].pipe,
                          tid |-> g])
    /\ UNCHANGED plock

Schedule(g) ==
    /\ At(g, "scheduling") /\ (alive[<<g.node, proc[g].pipe>>] => Unlocked(Now(g)))
    /\ IF ~alive[<<g.node, proc[g].pipe>>] THEN NoSuchPipe(g)
       ELSE IF obj[Now(g)].mode = "all"
       THEN /\ proc' = [proc EXCEPT ![g].pc = "forward", ![g].r = ScheduleAll]
            /\ Unlock(g.node) /\ UNCHANGED <<obj, net>>
       ELSE Query(g, "query")
    /\ UNCHANGED <<gen, alive, handler, users, misuse>>

(* "rr": the next reader by ID, or the first *)
Following(last, S) ==
    LET after == {r \in S : r > last} IN IF after = {} THEN Min(S) ELSE Min(after)

Choice(o) ==
    LET S == obj[o].readers \cup obj[o].cache IN
    IF S = {} THEN {ScheduleAll}
    ELSE IF obj[o].mode = "rr" THEN {Following(obj[o].last, S)} ELSE S

Queried(g) ==
    /\ At(g, "query") /\ proc[g].wait = {}
    /\ \E r \in Choice(Now(g)) :
          /\ proc' = [proc EXCEPT ![g].pc = "forward", ![g].r = r]
          /\ obj' = [obj EXCEPT ![Now(g)].lock = None,
                                ![Now(g)].last = IF obj[Now(g)].mode = "rr" /\ r # ScheduleAll THEN r ELSE @]
    /\ Unlock(g.node)
    /\ UNCHANGED <<gen, alive, handler, users, net, misuse>>

Over(g, m) == IF m.type \in {"query", "response"} /\ m.tid = g THEN [m EXCEPT !.tid = None] ELSE m

(* The transaction is over, and what belongs to it comes late. *)
Timeout(g) ==
    /\ proc[g].pc \in {"query", "requery"} /\ proc[g].wait # {}
    /\ obj' = [obj EXCEPT ![Now(g)].lock = None]
    /\ net' = {Over(g, m) : m \in net}
    /\ handler' = [n \in Nodes |-> IF handler[n].m = None THEN handler[n]
                                   ELSE [handler[n] EXCEPT !.m = Over(g, @)]]
    /\ Idle(g) /\ Unlock(g.node)
    /\ UNCHANGED <<gen, alive, users, misuse>>

(* With a via, a value is made for every reader of another node. *)
Forwards(g, data) ==
    /\ Broadcast(g.node, [type |-> "forward", to |-> g.node, from |-> g.node, pipe |-> proc[g].pipe,
                          v |-> proc[g].v, data |-> data])
    /\ Go(g, "write") /\ Unlock(g.node)

(* The via command may fail. *)
ViaFails(g) == Idle(g) /\ Unlock(g.node) /\ UNCHANGED net

(* A mutant of Forward that forgets which reader was chosen. *)
ForwardToAll(g) ==
    /\ At(g, "forwarding") /\ alive[<<g.node, proc[g].pipe>>] /\ Unlocked(Now(g))
    /\ Forwards(g, {ScheduleAll})
    /\ UNCHANGED <<pipesState, handler, users, misuse>>

Forward(g) ==
    /\ At(g, "forwarding") /\ (alive[<<g.node, proc[g].pipe>>] => Unlocked(Now(g)))
    /\ IF ~alive[<<g.node, proc[g].pipe>>] THEN NoSuchPipe(g)
       ELSE IF ~obj[Now(g)].via THEN Forwards(g, {proc[g].r}) /\ UNCHANGED obj
       ELSE IF proc[g].r = ScheduleAll THEN Query(g, "requery")
       ELSE (Forwards(g, obj[Now(g)].cache) \/ ViaFails(g)) /\ UNCHANGED obj
    /\ UNCHANGED <<gen, alive, handler, users, misuse>>

Requeried(g) ==
    /\ At(g, "requery") /\ proc[g].wait = {}
    /\ obj' = [obj EXCEPT ![Now(g)].lock = None]
    /\ Forwards(g, obj[Now(g)].cache) \/ ViaFails(g)
    /\ UNCHANGED <<gen, alive, handler, users, misuse>>

(* Pipe.write: the readers that a value is for *)
Recipients(o, r) == IF r = ScheduleAll THEN obj[o].readers ELSE obj[o].readers \cap {r}

WriteLock(g) ==
    /\ At(g, "write") /\ Unlocked(Own(g))
    /\ obj' = [obj EXCEPT ![Own(g)].lock = g]
    /\ proc' = [proc EXCEPT ![g].pc = "writing", ![g].todo = Recipients(Own(g), proc[g].r)]
    /\ UNCHANGED <<gen, alive, plock, handler, users, net, misuse>>

WriteTo(g, r) ==
    /\ At(g, "writing") /\ r \in proc[g].todo /\ Send(r, proc[g].v)
    /\ proc' = [proc EXCEPT ![g].todo = @ \ {r}]
    /\ UNCHANGED <<pipesState, plock, handler, cli, script, net>>

(* All readers have it, or the via failed *)
WriteEnd(g) ==
    /\ At(g, "writing") /\ (proc[g].todo = {} \/ obj[Own(g)].via)
    /\ obj' = [obj EXCEPT ![Own(g)].lock = None]
    /\ Idle(g)
    /\ UNCHANGED <<gen, alive, plock, handler, users, net, misuse>>

(* The channel is closed: the writer is no longer counted. *)
CloseWriter(g) ==
    /\ At(g, "range") /\ proc[g].closed /\ Unlocked(Own(g))
    /\ obj' = [obj EXCEPT ![Own(g)].numWriters = @ - 1]
    /\ proc' = [proc EXCEPT ![g] = NoProc]
    /\ UNCHANGED <<gen, alive, plock, handler, users, net, misuse>>

----------------------------------------------------------------------------
(* The goroutine handleMessages. *)

Handles(n, pc, type) == handler[n].pc = pc /\ handler[n].m.type = type

Done(n) == handler' = [handler EXCEPT ![n] = IdleHandler] /\ Unlock(n)

Receive(n, m) ==
    /\ handler[n].pc = "idle" /\ m \in net /\ m.to = n
    /\ handler' = [handler EXCEPT ![n] = [IdleHandler EXCEPT !.pc = "got", !.m = m]]
    /\ net' = net \ {m}
    /\ UNCHANGED <<pipesState, plock, proc, users, misuse>>

(* A response to no transaction ends the loop. *)
LookUpTID(n) ==
    /\ Handles(n, "got", "response")
    /\ handler' = [handler EXCEPT ![n] = IF handler[n].m.tid # None THEN [@ EXCEPT !.pc = "answer"]
                                        ELSE [IdleHandler EXCEPT !.pc = "dead"]]
    /\ UNCHANGED <<pipesState, plock, proc, users, net, misuse>>

(* The transaction takes the response, or is over by now. *)
Answer(n) ==
    LET m == handler[n].m IN
    /\ Handles(n, "answer", "response")
    /\ handler' = [handler EXCEPT ![n] = IdleHandler]
    /\ IF m.tid = None THEN UNCHANGED <<proc, obj>>
       ELSE /\ proc' = [proc EXCEPT ![m.tid].wait = @ \ {m.from}]
            /\ obj' = [obj EXCEPT ![Now(m.tid)].cache = @ \cup m.readers]
    /\ UNCHANGED <<gen, alive, plock, users, net, misuse>>

HandlerLock(n) ==
    /\ handler[n].pc = "got" /\ handler[n].m.type # "response" /\ Lock(n, Handler)
    /\ handler' = [handler EXCEPT ![n].pc = "locked",
                                  ![n].data = IF handler[n].m.type = "forward" THEN handler[n].m.data ELSE {}]
    /\ UNCHANGED <<pipesState, proc, users, net, misuse>>

SendReaders(n) ==
    LET m == handler[n].m
        o == Object(n, m.pipe)
    IN /\ Handles(n, "locked", "query") /\ (alive[<<n, m.pipe>>] => Unlocked(o))
       /\ net' = net \cup {[type |-> "response", to |-> m.from, from |-> n, tid |-> m.tid,
                            readers |-> IF alive[<<n, m.pipe>>] THEN obj[o].readers ELSE {}]}
       /\ Done(n)
       /\ UNCHANGED <<pipesState, proc, users, misuse>>

HandleViaWrite(n) ==
    /\ Handles(n, "locked", "viawrite") /\ NewWriter(n, handler[n].m.pipe, handler[n].m.v) /\ Done(n)
    /\ UNCHANGED <<users, net, misuse>>

HandleViaHost(n) ==
    LET m == handler[n].m
        o == Object(n, m.pipe)
    IN /\ Handles(n, "locked", "viahost") /\ Unlocked(o)
       /\ Make(n, m.pipe)
       /\ obj' = [obj EXCEPT ![o].viaHost = IF m.host # None THEN m.host ELSE n]
       /\ Done(n)
       /\ UNCHANGED <<proc, users, net, misuse>>

(* writeNoForward holds p.lock while it writes for one recipient after the other. *)
WriteNoForward(n) ==
    LET m == handler[n].m
        o == Object(n, m.pipe)
    IN /\ Handles(n, "locked", "forward")
       /\ IF handler[n].data = {} \/ ~alive[<<n, m.pipe>>] THEN Done(n) /\ UNCHANGED obj
          ELSE /\ Unlocked(o) /\ obj' = [obj EXCEPT ![o].lock = Handler]
               /\ \E r \in handler[n].data :
                     handler' = [handler EXCEPT ![n].pc = "writing", ![n].data = @ \ {r},
                                                ![n].todo = Recipients(o, r)]
               /\ UNCHANGED plock
       /\ UNCHANGED <<gen, alive, proc, users, net, misuse>>

HandlerWrites(n, r) ==
    /\ Handles(n, "writing", "forward") /\ r \in handler[n].todo /\ Send(r, handler[n].m.v)
    /\ handler' = [handler EXCEPT ![n].todo = @ \ {r}]
    /\ UNCHANGED <<pipesState, plock, proc, cli, script, net>>

HandlerWrote(n) ==
    LET o == Object(n, handler[n].m.pipe) IN
    /\ Handles(n, "writing", "forward") /\ (handler[n].todo = {} \/ obj[o].via)
    /\ obj' = [obj EXCEPT ![o].lock = None]
    /\ handler' = [handler EXCEPT ![n].pc = "locked", ![n].todo = {}]
    /\ UNCHANGED <<gen, alive, plock, proc, users, net, misuse>>

----------------------------------------------------------------------------
CommandStep(n) == CliWrite(n) \/ CliMode(n) \/ CliVia(n) \/ CliDelete(n)

WriterStep(g) ==
    \/ Check(g) \/ ViaWrite(g) \/ ScheduleLock(g) \/ Schedule(g) \/ Queried(g) \/ Timeout(g)
    \/ ForwardLock(g) \/ Forward(g) \/ Requeried(g) \/ WriteLock(g)
    \/ (\E r \in Readers : WriteTo(g, r)) \/ WriteEnd(g) \/ CloseWriter(g)

HandlerStep(n) ==
    \/ (\E m \in net : Receive(n, m)) \/ LookUpTID(n) \/ Answer(n) \/ HandlerLock(n)
    \/ SendReaders(n) \/ HandleViaWrite(n) \/ HandleViaHost(n)
    \/ WriteNoForward(n) \/ (\E r \in Readers : HandlerWrites(n, r)) \/ HandlerWrote(n)

PipelineStep(l) ==
    \/ StartPipeline(l) \/ StartReader(l) \/ StartWriterLock(l) \/ StartWriter(l)
    \/ WatchReader(l) \/ ReadClosed(l) \/ PassOn(l) \/ StopPassing(l)

Next ==
    \/ \E c \in script : Command(c)
    \/ \E n \in Nodes : CommandStep(n) \/ HandlerStep(n)
    \/ \E r \in Readers : OpenReader(r) \/ CloseReader(r) \/ ReaderGone(r)
    \/ \E l \in Pipelines : Plumb(l) \/ PipelineDelete(l) \/ PipelineStep(l)
    \/ \E g \in Procs : WriterStep(g)

Spec == Init /\ [][Next]_vars

----------------------------------------------------------------------------
(* Properties *)

Writing(g) == proc[g].pc \notin {"off", "open", "opening"}

(* A writer that is open writes to the pipe that its name stands for: PipeDelete   *)
(* never takes away a pipe with writers, whatever command, value and pipeline come *)
(* between the count and the deletion.                                             *)
WritersHavePipe ==
    \A g \in Procs : Writing(g) => alive[<<g.node, proc[g].pipe>>] /\ gen[<<g.node, proc[g].pipe>>] = proc[g].gen

(* numWriters is the number of writer goroutines of the pipe. *)
WritersCounted ==
    \A o \in Objects : obj[o].numWriters = Cardinality({g \in Procs : Writing(g) /\ Own(g) = o})

(* Pipes, their writers and the counts of them agree (newWriter, PipeDelete).      *)
WritersSound == TypeOK /\ WritersHavePipe /\ WritersCounted

(* No value is sent on the channel of a reader that is closed, which would end     *)
(* the process: the channel is closed under the lock that a write holds.           *)
OpenChannels == "send" \notin misuse

(* No reader gets a value twice, over all nodes, modes and vias. *)
AtMostOnce == \A r \in Readers : reader[r].twice \subseteq {Empty}

(* The empty values that a closed channel yields are not told apart. *)
Sole(g) ==
    proc[g].pc \in {"write", "writing"} /\ proc[g].r # ScheduleAll /\ proc[g].v # Empty =>
        \A r \in Readers \ {proc[g].r} : PipeOf[r] = proc[g].pipe => proc[g].v \notin reader[r].got

(* A value that is not for all readers gets to the one that was chosen, and to no  *)
(* other reader of any node, if the pipe never had a via.                          *)
SoleRecipient == \A g \in Procs : Writing(g) /\ obj[Own(g)].viaHost = None => Sole(g)

(* What a value stands for: one command of a script, which writes it. *)
WrittenOnce ==
    \A S \in Scripts : \A c, d \in S : c.op = "write" /\ d.op = "write" /\ c.arg = d.arg => c = d

(* The pipes that pipelines lead to, reach[p] from p: there is one way to each     *)
(* and none back.  Where two pipelines, on whichever nodes, lead from one pipe to  *)
(* another, a reader rightly gets a value from each.                               *)
OnePath ==
    \E reach \in [Pipes -> SUBSET Pipes] : \A p \in Pipes :
        /\ p \in reach[p]
        /\ \A l \in Pipelines : PipeOf[Source[l]] \in reach[p] =>
              /\ PipeOf[l] \in reach[p] \ {p}
              /\ \A m \in Pipelines : PipeOf[Source[m]] \in reach[p] /\ PipeOf[m] = PipeOf[l] => m = l

(* Who gets a value, and how often (schedule, forward, write).                     *)
DeliverySound == AtMostOnce /\ SoleRecipient

Busy ==
    \/ \E g \in Procs : Writing(g) /\ (proc[g].pc # "range" \/ proc[g].closed)
    \/ \E n \in Nodes : cli[n] # None \/ handler[n].pc \notin {"idle", "dead"}
    \/ \E l \in Pipelines : proc[Writer(l)].pc \in {"open", "opening"}

(* Locks that are held while a node waits for answers, and until readers have      *)
(* taken a value, never leave all goroutines waiting for each other.               *)
SomeoneCanGoOn == Busy => ENABLED Next

(* It holds as long as no pipeline connects pipes. *)
ReadersUnblock == (\A l \in Pipelines : line[l].pc = "none") => SomeoneCanGoOn

(* handleMessages never ends: a response that no one waits for is dropped           *)
(* ("dropping message for invalid TID").                                           *)
HandlersRun == \A n \in Nodes : handler[n].pc # "dead"

(* With a via it should be so too ("round-robin" chooses a single reader,          *)
(* in-order).                                                                      *)
SingleReader == \A g \in Procs : Sole(g)

(* No pipe is without a value that some user wrote. *)
NothingInvented == \A r \in Readers : Empty \notin reader[r].got

(* A pipeline can be deleted once `plumb' has returned. *)
PipelinesDeletable == "close" \notin misuse

(* The readers of a pipe are not changed while a write goes over them. *)
ReadersGuarded == "map" \notin misuse
============================================================================
