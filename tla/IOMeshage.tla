----------------------------- MODULE IOMeshage -----------------------------
(***************************************************************************)
(* The distribution of files over the mesh: package iomeshage, with        *)
(* iomHelper of minimega.                                                  *)
(*                                                                         *)
(* Get looks for a file on the other nodes and leaves a goroutine,         *)
(* getParts, that fetches its parts in any order: it asks who has a part,  *)
(* asks one of those for it, and when it has all parts joins them.  Nodes  *)
(* that are still fetching a file serve the parts they have, and a node    *)
(* that relays a part it misses keeps a copy (MITM).                       *)
(*                                                                         *)
(* A job is one call of Get and its getParts.  A job has one transaction   *)
(* (TID) at a time.                                                        *)
(***************************************************************************)
EXTENDS Integers, FiniteSets

CONSTANTS
    Nodes,        \* the nodes of the mesh
    Files,        \* names of files
    NumParts,     \* the number of parts of each file
    Origin,       \* the nodes that have the files at first
    Job,          \* the calls of Get: the node, the file and a number
    MaxAttempts,  \* MAX_ATTEMPTS
    QueueLen,     \* QUEUE_LEN
    Between,      \* the nodes that relay messages from one node to another
    Absent,       \* no such file, directory, transfer or transaction
    Overlap,      \* calls of Get on one node may overlap (meshageVMLauncher)
    Faults        \* "late": answers may exceed the timeout; "delete": files are deleted

PartsOf(f) == 0 .. (NumParts[f] - 1)
AllParts == UNION {PartsOf(f) : f \in Files}

(* Inflight when no part is *)
NoPart == -1

(* What a part holds: readPart returns nothing when it cannot read. *)
Data == {"good", "empty"}

(* A transfer in flight: the job that made its directory, the parts it has *)
(* and the part that getPart waits for.                                    *)
Transfer == [dir : Job, parts : SUBSET AllParts, inflight : AllParts \cup {NoPart}]

ASSUME NumPartsAssumption == NumParts \in [Files -> Nat]
ASSUME OriginAssumption == Origin \subseteq Nodes
ASSUME NodesAssumption == IsFiniteSet(Nodes)
ASSUME JobAssumption == Job \subseteq [node : Nodes, file : Files, n : Nat] /\ Absent \notin Job
ASSUME BoundsAssumption == MaxAttempts \in Nat \ {0} /\ QueueLen \in Nat \ {0}
ASSUME BetweenAssumption == Between \in [Nodes \X Nodes -> SUBSET Nodes]
ASSUME AbsentAssumption ==
    /\ Absent \notin Data \cup Transfer
    /\ \A f \in Files : Absent \notin [PartsOf(f) -> Data \cup {Absent}]
ASSUME FaultsAssumption == Faults \subseteq {"late", "delete"} /\ Overlap \in BOOLEAN

VARIABLES
    file,      \* the files in iom.base: the data of each part, or Absent
    transfer,  \* iom.transfers: a record of directory, parts and Inflight, or Absent
    dir,       \* the transfer_ directory that a job made: its part files, or Absent
    job,       \* where each job is
    net,       \* requests and responses on their way
    handlers,  \* the goroutines in handlePart: they hold drainLock
    snoops,    \* the goroutines in MITM
    deleted,   \* `file delete' was given
    panicked   \* the nodes where getParts has dereferenced a nil Transfer

vars == <<file, transfer, dir, deleted, job, net, handlers, snoops, panicked>>
disk == <<file, transfer, dir, deleted>>
mesh == <<net, handlers, snoops>>

Request ==
    [type : {"info", "whohas", "xfer"}, from : Nodes, to : Nodes, job : Job \cup {Absent},
     file : Files, part : AllParts \cup {NoPart}]

(* Data is that of a part for a response to "xfer", and empty otherwise. *)
Response == [type : {"ack", "nack"}, from : Nodes, job : Job, data : Data]

JobState ==
    [pc : {"idle", "info", "queued", "parts", "part", "whohas", "xfer", "check", "release",
           "destroy", "done", "error"},
     todo : SUBSET AllParts, part : AllParts \cup {NoPart}, attempt : 0 .. MaxAttempts,
     left : 0 .. Cardinality(Nodes), timeouts : 0 .. MaxAttempts, found : BOOLEAN]

(* Every file, transfer, job and message is one of the kinds above. *)
TypeOK ==
    /\ \A n \in Nodes, f \in Files :
          /\ file[n][f] = Absent \/ file[n][f] \in [PartsOf(f) -> Data]
          /\ transfer[n][f] = Absent \/ transfer[n][f] \in Transfer
    /\ \A j \in Job : dir[j] = Absent \/ dir[j] \in [PartsOf(j.file) -> Data \cup {Absent}]
    /\ job \in [Job -> JobState]
    /\ net \subseteq Request \cup Response
    /\ handlers \subseteq [req : Request, found : BOOLEAN, held : BOOLEAN]
    /\ snoops \subseteq [node : Nodes, file : Files, part : AllParts]
    /\ deleted \in BOOLEAN /\ panicked \subseteq Nodes

Fresh == [pc |-> "idle", todo |-> {}, part |-> NoPart, attempt |-> 0, left |-> 0,
          timeouts |-> 0, found |-> FALSE]

Init ==
    /\ file = [n \in Nodes |-> [f \in Files |->
                  IF n \in Origin THEN [p \in PartsOf(f) |-> "good"] ELSE Absent]]
    /\ transfer = [n \in Nodes |-> [f \in Files |-> Absent]]
    /\ dir = [j \in Job |-> Absent]
    /\ job = [j \in Job |-> Fresh]
    /\ net = {} /\ handlers = {} /\ snoops = {} /\ deleted = FALSE /\ panicked = {}

----------------------------------------------------------------------------
(* Transactions. *)

At(j, pc) == job[j].pc = pc /\ j.node \notin panicked

(* The local variables of the attempts at a part are dead elsewhere. *)
Go(j, pc) == job' = [job EXCEPT ![j] = [Fresh EXCEPT !.pc = pc, !.todo = job[j].todo]]

Finish(j, pc) == job' = [job EXCEPT ![j] = [Fresh EXCEPT !.pc = pc]]

TransferOf(j) == transfer[j.node][j.file]

(* newTID and Broadcast; the caller waits for a response of every node. *)
Broadcast(j, type, p, sent) ==
    sent \cup {[type |-> type, from |-> j.node, to |-> n, job |-> j, file |-> j.file,
                part |-> p] : n \in Nodes \ {j.node}}

(* unregisterTID: a late response is dropped.  A request that is not       *)
(* handled yet will be, for nobody; that matters only for "xfer", whose    *)
(* response other nodes may keep.                                          *)
Abandon(j, msgs) ==
    {m \in msgs : m.job # j} \cup
    {[m EXCEPT !.job = Absent] : m \in {r \in msgs : r.job = j /\ r.type = "xfer"}}

AbandonHandlers(j) ==
    {IF h.req.job = j THEN [h EXCEPT !.req.job = Absent] ELSE h : h \in handlers}

GiveUp(j) ==
    /\ net' = Abandon(j, net) /\ handlers' = AbandonHandlers(j)
    /\ UNCHANGED snoops

----------------------------------------------------------------------------
(* iomHelper, and Get up to the start of getParts. *)

Exists(n, f) == file[n][f] # Absent

(* A mutant of Get that does not look for a transfer in flight. *)
GetUnchecked(j) ==
    /\ At(j, "idle")
    /\ ~Overlap => \A k \in Job : k.node = j.node => job[k].pc # "info"
    /\ IF Exists(j.node, j.file)
       THEN Finish(j, "done") /\ UNCHANGED net
       ELSE /\ job' = [job EXCEPT ![j].pc = "info", ![j].left = Cardinality(Nodes) - 1]
            /\ net' = Broadcast(j, "info", NoPart, net)
    /\ UNCHANGED <<disk, handlers, snoops, panicked>>

(* Get returns at once if the file exists or is in flight, which iomHelper *)
(* does not take for an error, and asks all nodes for it otherwise.        *)
Get(j) ==
    /\ At(j, "idle")
    /\ ~Overlap => \A k \in Job : k.node = j.node => job[k].pc # "info"
    /\ IF Exists(j.node, j.file) \/ TransferOf(j) # Absent
       THEN Finish(j, "done") /\ UNCHANGED net
       ELSE /\ job' = [job EXCEPT ![j].pc = "info", ![j].left = Cardinality(Nodes) - 1]
            /\ net' = Broadcast(j, "info", NoPart, net)
    /\ UNCHANGED <<disk, handlers, snoops, panicked>>

(* A response to info; when all have come, either nobody has the file or   *)
(* Get makes a Transfer and starts getParts.                               *)
Info(j, m) ==
    /\ At(j, "info") /\ m \in net \cap Response /\ m.job = j
    /\ LET found == job[j].found \/ m.type = "ack"
           left == job[j].left - 1
       IN  \/ /\ left > 0
              /\ job' = [job EXCEPT ![j].left = left, ![j].found = found]
              /\ net' = net \ {m}
              /\ UNCHANGED <<disk, handlers>>
           \/ /\ left = 0 /\ ~found
              /\ Finish(j, "error")
              /\ net' = Abandon(j, net) /\ handlers' = AbandonHandlers(j)
              /\ UNCHANGED disk
           \/ /\ left = 0 /\ found
              /\ job' = [job EXCEPT ![j] = [Fresh EXCEPT !.pc = "queued",
                                                         !.todo = PartsOf(j.file)]]
              /\ transfer' = [transfer EXCEPT ![j.node][j.file] =
                                 [dir |-> j, parts |-> {}, inflight |-> NoPart]]
              /\ dir' = [dir EXCEPT ![j] = [p \in PartsOf(j.file) |-> Absent]]
              /\ net' = Abandon(j, net) /\ handlers' = AbandonHandlers(j)
              /\ UNCHANGED <<file, deleted>>
    /\ UNCHANGED <<snoops, panicked>>

InfoTimeout(j) ==
    /\ At(j, "info") /\ "late" \in Faults
    /\ Finish(j, "error")
    /\ GiveUp(j)
    /\ UNCHANGED <<disk, panicked>>

(* iomWait: iomHelper returns the path when Get has returned without an    *)
(* error, but for "already in flight", and the file is not in flight.      *)
HelperReturns(j) == job[j].pc = "done" /\ TransferOf(j) = Absent

----------------------------------------------------------------------------
(* getParts *)

(* A transfer that is gone is a nil pointer. *)
Panic(j) == panicked' = panicked \cup {j.node} /\ UNCHANGED <<disk, job, mesh>>

(* A mutant of InLine: a getParts that has failed keeps its place. *)
InLineForever(n) ==
    {j \in Job : j.node = n /\ job[j].pc \in {"parts", "part", "whohas", "xfer", "check",
                                              "release", "destroy", "done"}}

(* The jobs that have a place in iom.queue *)
InLine(n) ==
    {j \in Job : j.node = n /\ job[j].pc \in {"parts", "part", "whohas", "xfer", "check",
                                              "release"}}

(* An empty file takes no place in the queue. *)
Touch(j) ==
    /\ At(j, "queued") /\ NumParts[j.file] = 0
    /\ file' = [file EXCEPT ![j.node][j.file] = [p \in {} |-> "good"]]
    /\ Finish(j, "destroy")
    /\ UNCHANGED <<transfer, dir, deleted, mesh, panicked>>

Dequeue(j) ==
    /\ At(j, "queued") /\ NumParts[j.file] > 0
    /\ Cardinality(InLine(j.node)) < QueueLen
    /\ IF TransferOf(j) = Absent THEN Panic(j)
       ELSE Go(j, "parts") /\ UNCHANGED <<disk, mesh, panicked>>

(* The parts are fetched in a random order. *)
NextPart(j) ==
    /\ At(j, "parts")
    /\ \E p \in job[j].todo :
          job' = [job EXCEPT ![j].pc = "part", ![j].part = p, ![j].attempt = 0,
                             ![j].todo = @ \ {p}]
    /\ UNCHANGED <<disk, mesh, panicked>>

(* getPart: the part may be there already; if not, ask who has it. *)
GetPart(j) ==
    /\ At(j, "part")
    /\ IF TransferOf(j) = Absent THEN Panic(j)
       ELSE IF job[j].part \in TransferOf(j).parts
       THEN Go(j, "parts") /\ UNCHANGED <<disk, mesh, panicked>>
       ELSE /\ transfer' = [transfer EXCEPT ![j.node][j.file].inflight = job[j].part]
            /\ job' = [job EXCEPT ![j].pc = "whohas", ![j].left = Cardinality(Nodes) - 1]
            /\ net' = Broadcast(j, "whohas", job[j].part, net)
            /\ UNCHANGED <<file, dir, deleted, handlers, snoops, panicked>>

(* getPart returns an error: try again, MAX_ATTEMPTS times in all. *)
AttemptFails(j) ==
    job' = [job EXCEPT ![j].pc = IF job[j].attempt + 1 < MaxAttempts THEN "part" ELSE "check",
                       ![j].attempt = @ + 1, ![j].left = 0, ![j].timeouts = 0]

(* whoHas is content with the first node that has the part. *)
WhoHasAck(j, m) ==
    /\ At(j, "whohas") /\ m \in net \cap Response /\ m.job = j /\ m.type = "ack"
    /\ job' = [job EXCEPT ![j].pc = "xfer", ![j].left = 0, ![j].timeouts = 0]
    /\ net' = Abandon(j, net) \cup
              {[type |-> "xfer", from |-> j.node, to |-> m.from, job |-> j,
                file |-> j.file, part |-> job[j].part]}
    /\ handlers' = AbandonHandlers(j)
    /\ UNCHANGED <<disk, snoops, panicked>>

WhoHasNack(j, m) ==
    /\ At(j, "whohas") /\ m \in net \cap Response /\ m.job = j /\ m.type = "nack"
    /\ IF job[j].left > 1
       THEN /\ job' = [job EXCEPT ![j].left = @ - 1]
            /\ net' = net \ {m} /\ UNCHANGED <<handlers, snoops>>
       ELSE AttemptFails(j) /\ GiveUp(j)
    /\ UNCHANGED <<disk, panicked>>

(* A timeout counts for one response, and MAX_ATTEMPTS of them for all. *)
WhoHasTimeout(j) ==
    /\ At(j, "whohas") /\ "late" \in Faults
    /\ IF job[j].left > 1 /\ job[j].timeouts + 1 < MaxAttempts
       THEN /\ job' = [job EXCEPT ![j].left = @ - 1, ![j].timeouts = @ + 1]
            /\ UNCHANGED mesh
       ELSE AttemptFails(j) /\ GiveUp(j)
    /\ UNCHANGED <<disk, panicked>>

(* WriteFile into the directory of the current transfer, which fails when  *)
(* the directory is gone, and the mark in Parts.                           *)
Writable(n, f) == transfer[n][f] # Absent /\ dir[transfer[n][f].dir] # Absent

WritePart(n, f, p, data) ==
    /\ dir' = [dir EXCEPT ![transfer[n][f].dir][p] = data]
    /\ transfer' = [transfer EXCEPT ![n][f].parts = @ \cup {p}]
    /\ UNCHANGED <<file, deleted>>

(* xfer returns the data, which getPart stores. *)
XferAck(j, m) ==
    /\ At(j, "xfer") /\ m \in net \cap Response /\ m.job = j /\ m.type = "ack"
    /\ GiveUp(j)
    /\ IF Writable(j.node, j.file)
       THEN WritePart(j.node, j.file, job[j].part, m.data) /\ Go(j, "parts")
       ELSE AttemptFails(j) /\ UNCHANGED disk
    /\ UNCHANGED <<panicked>>

XferFails(j) ==
    /\ At(j, "xfer")
    /\ \/ "late" \in Faults
       \/ \E m \in net \cap Response : m.job = j /\ m.type = "nack"
    /\ AttemptFails(j) /\ GiveUp(j)
    /\ UNCHANGED <<disk, panicked>>

(* After the last attempt the part may still have come in by MITM. *)
Check(j) ==
    /\ At(j, "check")
    /\ IF TransferOf(j) = Absent THEN Panic(j)
       ELSE /\ IF job[j].part \in TransferOf(j).parts THEN Go(j, "parts")
               ELSE Finish(j, "release")
            /\ UNCHANGED <<disk, mesh, panicked>>

(* The parts are joined in a file of the directory and renamed. *)
Assemble(j) ==
    /\ At(j, "parts") /\ job[j].todo = {}
    /\ IF TransferOf(j) = Absent THEN Panic(j)
       ELSE /\ LET parts == dir[TransferOf(j).dir] IN
               IF parts # Absent /\ \A p \in PartsOf(j.file) : parts[p] # Absent
               THEN file' = [file EXCEPT ![j.node][j.file] = parts]
               ELSE UNCHANGED file
            /\ Finish(j, "release")
            /\ UNCHANGED <<transfer, dir, deleted, mesh, panicked>>

(* The deferred functions: first the place in the queue is given back, ... *)
Release(j) ==
    /\ At(j, "release")
    /\ Go(j, "destroy")
    /\ UNCHANGED <<disk, mesh, panicked>>

(* A mutant of DestroyTempTransfer that does not take drainLock. *)
DestroyUndrained(j) ==
    /\ At(j, "destroy")
    /\ dir' = [dir EXCEPT ![j] = Absent]
    /\ transfer' = [transfer EXCEPT ![j.node][j.file] = Absent]
    /\ Go(j, "done")
    /\ UNCHANGED <<file, deleted, mesh, panicked>>

(* ... then, when no handlePart is in progress, the transfer goes. *)
DestroyTempTransfer(j) ==
    /\ At(j, "destroy")
    /\ IF TransferOf(j) = Absent
       THEN UNCHANGED <<transfer, dir>>
       ELSE /\ \A h \in handlers : h.req.to # j.node
            /\ dir' = [dir EXCEPT ![TransferOf(j).dir] = Absent]
            /\ transfer' = [transfer EXCEPT ![j.node][j.file] = Absent]
    /\ Go(j, "done")
    /\ UNCHANGED <<file, deleted, mesh, panicked>>

----------------------------------------------------------------------------
(* The handlers of messages. *)

Respond(req, type, data, sent) ==
    IF req.job = Absent THEN sent
    ELSE sent \cup {[type |-> type, from |-> req.to, job |-> req.job, data |-> data]}

(* handleInfo *)
HandleInfo(m) ==
    /\ m \in net \cap Request /\ m.type = "info" /\ m.to \notin panicked
    /\ net' = Respond(m, IF Exists(m.to, m.file) THEN "ack" ELSE "nack", "empty", net \ {m})
    /\ UNCHANGED <<disk, job, handlers, snoops, panicked>>

HasPart(n, f, p) == transfer[n][f] # Absent /\ p \in transfer[n][f].parts

(* handlePart takes drainLock and lists the file. *)
HandlePart(m) ==
    /\ m \in net \cap Request /\ m.type \in {"whohas", "xfer"} /\ m.to \notin panicked
    /\ net' = net \ {m}
    /\ handlers' = handlers \cup
          {[req |-> m, found |-> Exists(m.to, m.file),
            held |-> Exists(m.to, m.file) \/ HasPart(m.to, m.file, m.part)]}
    /\ UNCHANGED <<disk, job, snoops, panicked>>

(* It serves the file it has found or else, with transferLock, a part of   *)
(* the transfer in flight.                                                 *)
Acks(h) == h.found \/ HasPart(h.req.to, h.req.file, h.req.part)

(* readPart returns nothing when it cannot read, and the ACK stands. *)
ReadPart(h) ==
    LET n == h.req.to  f == h.req.file  p == h.req.part IN
    IF h.found THEN IF Exists(n, f) THEN file[n][f][p] ELSE "empty"
    ELSE LET parts == dir[transfer[n][f].dir] IN
         IF parts # Absent /\ parts[p] # Absent THEN parts[p] ELSE "empty"

HandlePartReply(h) ==
    /\ h \in handlers /\ h.req.to \notin panicked
    /\ handlers' = handlers \ {h}
    /\ LET data == IF Acks(h) /\ h.req.type = "xfer" THEN ReadPart(h) ELSE "empty" IN
       /\ net' = Respond(h.req, IF Acks(h) THEN "ack" ELSE "nack", data, net)
       /\ snoops' = IF data = "empty" THEN snoops
                    ELSE snoops \cup [node : Between[<<h.req.to, h.req.from>>],
                                      file : {h.req.file}, part : {h.req.part}]
    /\ UNCHANGED <<disk, job, panicked>>

(* A mutant of MITM that marks a part it could not write. *)
MITMUnwritten(s) ==
    /\ s \in snoops /\ s.node \notin panicked
    /\ snoops' = snoops \ {s}
    /\ LET t == transfer[s.node][s.file] IN
       IF t # Absent /\ t.inflight # s.part
       THEN transfer' = [transfer EXCEPT ![s.node][s.file].parts = @ \cup {s.part}]
       ELSE UNCHANGED transfer
    /\ UNCHANGED <<file, dir, deleted, job, net, handlers, panicked>>

(* A node on the way of a part keeps it, if it misses it and is not        *)
(* waiting for it.                                                         *)
MITM(s) ==
    /\ s \in snoops /\ s.node \notin panicked
    /\ snoops' = snoops \ {s}
    /\ LET t == transfer[s.node][s.file] IN
       IF /\ t # Absent /\ t.inflight # s.part /\ s.part \notin t.parts
          /\ Writable(s.node, s.file)
       THEN WritePart(s.node, s.file, s.part, "good")
       ELSE UNCHANGED disk
    /\ UNCHANGED <<job, net, handlers, panicked>>

(* `file delete', once in a behaviour. *)
Delete(n, f) ==
    /\ "delete" \in Faults /\ ~deleted /\ n \notin panicked /\ Exists(n, f)
    /\ file' = [file EXCEPT ![n][f] = Absent]
    /\ deleted' = TRUE
    /\ UNCHANGED <<transfer, dir, job, mesh, panicked>>

----------------------------------------------------------------------------
Timeout(j) == InfoTimeout(j) \/ WhoHasTimeout(j)

Receive(j) ==
    \/ \E m \in net : Info(j, m) \/ WhoHasAck(j, m) \/ WhoHasNack(j, m) \/ XferAck(j, m)
    \/ XferFails(j)

GetParts(j) ==
    \/ Touch(j) \/ Dequeue(j) \/ NextPart(j) \/ GetPart(j) \/ Check(j) \/ Assemble(j)
    \/ Release(j) \/ DestroyTempTransfer(j)

Handlers ==
    \/ \E m \in net : HandleInfo(m) \/ HandlePart(m)
    \/ \E h \in handlers : HandlePartReply(h)

Next ==
    \/ \E j \in Job : Get(j) \/ Timeout(j) \/ Receive(j) \/ GetParts(j)
    \/ Handlers
    \/ \E s \in snoops : MITM(s)
    \/ \E n \in Nodes, f \in Files : Delete(n, f)

(* Goroutines are scheduled, messages are delivered or time out. *)
Fairness ==
    /\ WF_vars(Handlers)
    /\ \A j \in Job : /\ WF_vars(Timeout(j) \/ Receive(j))
                      /\ WF_vars(GetParts(j))

Spec == Init /\ [][Next]_vars /\ Fairness

----------------------------------------------------------------------------
(* What the code achieves. *)

(* "We consider a part to be transferrable IFF it exists on disk and is    *)
(* marked as being fully received" (handlePart): the parts that a transfer *)
(* lists are in its directory, whoever stored them.                        *)
PartsOnDisk ==
    \A n \in Nodes, f \in Files : transfer[n][f] # Absent =>
        LET t == transfer[n][f] IN
        dir[t.dir] # Absent /\ \A p \in t.parts : dir[t.dir][p] # Absent

(* A file in the served directory has all its parts, in whatever order and *)
(* from whichever nodes they came (getParts, MITM), as long as no file is  *)
(* deleted while it is served.                                             *)
FilesWhole ==
    ~deleted => \A n \in Nodes, f \in Files :
        Exists(n, f) => \A p \in PartsOf(f) : file[n][f][p] = "good"

(* What is on the disks is what the tables say (getPart, MITM, getParts). *)
PartsSound == TypeOK /\ PartsOnDisk /\ FilesWhole

(* drainLock: a node that holds a part when it is asked answers with an    *)
(* ACK, although it may finish or give up its transfer meanwhile.          *)
HeldIsServed == \A h \in handlers : h.held => Acks(h)

(* getParts finds the transfer that Get made for it, until it destroys it. *)
(* It would dereference a nil pointer otherwise.                           *)
OwnTransfer ==
    /\ panicked = {}
    /\ \A j \in Job : job[j].pc \notin {"idle", "info", "done", "error"} =>
          TransferOf(j) # Absent /\ TransferOf(j).dir = j

(* Every getParts ends, with the file or without, and gives back its place *)
(* in the queue, so that iomHelper returns.                                *)
TransfersEnd == \A j \in Job : job[j].pc = "queued" ~> HelperReturns(j)

----------------------------------------------------------------------------
(* What the repository says and the code does not do. *)

(* "It returns the local path of the file or an error if the file doesn't  *)
(* exist or could not transfer" (iomHelper): the file is there.            *)
HelperHasFile == \A j \in Job : HelperReturns(j) => Exists(j.node, j.file)

(* "Respond to message m with an ACK if a filepart exists, and optionally  *)
(* the contents of that filepart" (handlePart): an ACK to "xfer" carries   *)
(* the contents.  When the file is deleted between List and readPart it    *)
(* carries nothing, and the client stores that.                            *)
AckHasData ==
    \A h \in handlers : h.req.type = "xfer" /\ Acks(h) => ReadPart(h) = "good"
============================================================================
