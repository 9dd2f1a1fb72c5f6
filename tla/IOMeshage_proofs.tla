-------------------------- MODULE IOMeshage_proofs --------------------------
(***************************************************************************)
(* Proofs about IOMeshage, for any mesh, any files and numbers of parts,   *)
(* any calls of Get, bounds and faults.                                    *)
(***************************************************************************)
EXTENDS IOMeshage, FiniteSetTheorems, TLAPS

(* The type invariant, variable by variable, with what makes it inductive: *)
(* a part that a job, a message, a handler or a snoop names is a part of   *)
(* its file, and the directory of a transfer is one for its node and file  *)
(* and holds the parts that the transfer lists.                            *)
JobOK ==
    /\ job \in [Job -> JobState]
    /\ \A j \in Job :
          /\ job[j].todo \subseteq PartsOf(j.file)
          /\ job[j].pc \in {"part", "whohas", "xfer", "check"} => job[j].part \in PartsOf(j.file)
          /\ job[j].pc \in {"part", "whohas", "xfer"} => job[j].attempt < MaxAttempts

Requests == {r \in Request : r.type # "info" => r.part \in PartsOf(r.file)}

NetOK == net \subseteq Requests \cup Response

Handler == [req : {r \in Requests : r.type # "info"}, found : BOOLEAN, held : BOOLEAN]

HandlersOK == handlers \subseteq Handler

SnoopsOK ==
    \A s \in snoops :
        s \in [node : Nodes, file : Files, part : AllParts] /\ s.part \in PartsOf(s.file)

DirsOK == \A j \in Job : dir[j] = Absent \/ dir[j] \in [PartsOf(j.file) -> Data \cup {Absent}]

FilesOK == \A n \in Nodes, f \in Files : file[n][f] = Absent \/ file[n][f] \in [PartsOf(f) -> Data]

TransfersOK ==
    \A n \in Nodes, f \in Files : transfer[n][f] = Absent \/
        /\ transfer[n][f] \in Transfer
        /\ transfer[n][f].dir.node = n /\ transfer[n][f].dir.file = f
        /\ transfer[n][f].parts \subseteq PartsOf(f)

Shape ==
    /\ DOMAIN file = Nodes /\ DOMAIN transfer = Nodes /\ DOMAIN dir = Job
    /\ \A n \in Nodes : DOMAIN file[n] = Files /\ DOMAIN transfer[n] = Files

DiskOK ==
    /\ Shape /\ DirsOK /\ FilesOK /\ TransfersOK /\ PartsOnDisk

TypeInv ==
    /\ JobOK /\ NetOK /\ HandlersOK /\ SnoopsOK /\ DiskOK
    /\ deleted \in BOOLEAN /\ panicked \subseteq Nodes

(* The inductive invariant behind FilesWhole: until a file is deleted      *)
(* nothing but the contents of a part is written, served or on its way to  *)
(* a job that waits for a part.                                            *)
WholeFiles ==
    \A n \in Nodes, f \in Files : Exists(n, f) => \A p \in PartsOf(f) : file[n][f][p] = "good"

WholeDirs ==
    \A j \in Job : dir[j] # Absent => \A p \in PartsOf(j.file) : dir[j][p] \in {"good", Absent}

FoundExists == \A h \in handlers : h.found => Exists(h.req.to, h.req.file)

OnlyXfer ==
    \A j \in Job : job[j].pc = "xfer" =>
        /\ \A m \in net : m.job = j =>
              m.type \notin {"info", "whohas"} /\ (m.type = "ack" => m.data = "good")
        /\ \A h \in handlers : h.req.job = j => h.req.type = "xfer"

Whole == WholeFiles /\ WholeDirs /\ FoundExists /\ OnlyXfer

WholeInv == ~deleted => Whole

(* The inductive invariant behind OwnTransfer: transfers and the getParts  *)
(* that are under way correspond to each other, and while Get asks for a   *)
(* file there is no transfer of it and no other call of Get on the node.   *)
Underway(j) == job[j].pc \notin {"idle", "info", "done", "error"}

OwnInv ==
    /\ OwnTransfer
    /\ \A n \in Nodes, f \in Files : transfer[n][f] # Absent => Underway(transfer[n][f].dir)
    /\ \A j \in Job : job[j].pc = "info" =>
          /\ TransferOf(j) = Absent
          /\ \A k \in Job : k.node = j.node /\ k # j => job[k].pc # "info"

----------------------------------------------------------------------------
(* Parts, nodes and calls of Get. *)

(* A part of a file is a part, and "no part" is none. *)
LEMMA PartsFacts ==
    ASSUME NEW f \in Files
    PROVE  PartsOf(f) \subseteq AllParts /\ NoPart \notin PartsOf(f)
<1>1. PartsOf(f) \subseteq AllParts
  BY DEF AllParts
<1>2. NumParts[f] \in Nat
  BY NumPartsAssumption
<1>3. QED
  BY <1>1, <1>2 DEF PartsOf, NoPart

(* A call of Get is made on a node, which therefore is not the only thing  *)
(* that Broadcast counts.                                                  *)
LEMMA JobFacts ==
    ASSUME NEW j \in Job
    PROVE  /\ j.node \in Nodes /\ j.file \in Files /\ j # Absent
           /\ Cardinality(Nodes) \in Nat /\ Cardinality(Nodes) > 0
<1>1. j.node \in Nodes /\ j.file \in Files /\ j # Absent
  BY JobAssumption
<1>2. Cardinality(Nodes) \in Nat
  BY NodesAssumption, FS_CardinalityType
<1>3. Cardinality(Nodes) # 0
  BY <1>1, NodesAssumption, FS_EmptySet
<1>4. QED
  BY <1>1, <1>2, <1>3

(* Nothing is on its way at first, and the files of Origin are whole. *)
LEMMA TypeInit == Init => TypeInv
<1> SUFFICES ASSUME Init PROVE TypeInv
  OBVIOUS
<1>1. JobOK
  <2>1. Fresh \in JobState
    <3>1. Cardinality(Nodes) \in Nat
      BY NodesAssumption, FS_CardinalityType
    <3>2. QED
      BY <3>1, BoundsAssumption DEF Fresh, JobState
  <2>2. QED
    BY <2>1 DEF Init, JobOK, Fresh
<1>2. NetOK /\ HandlersOK /\ SnoopsOK
  BY DEF Init, NetOK, HandlersOK, SnoopsOK
<1>3. DiskOK
  BY AbsentAssumption DEF Init, DiskOK, Shape, DirsOK, FilesOK, TransfersOK, PartsOnDisk, Data
<1>4. QED
  BY <1>1, <1>2, <1>3 DEF Init, TypeInv

----------------------------------------------------------------------------
(* What the helpers of the actions keep. *)

(* Go and Finish put a job somewhere, with no part at hand. *)
LEMMA GoKeeps ==
    ASSUME JobOK, NEW j \in Job, NEW pc \in {"parts", "release", "destroy", "done", "error"},
           Go(j, pc) \/ Finish(j, pc)
    PROVE  JobOK'
<1> DEFINE s == IF Go(j, pc) THEN [Fresh EXCEPT !.pc = pc, !.todo = job[j].todo]
                ELSE [Fresh EXCEPT !.pc = pc]
<1>1. Fresh \in JobState
  BY JobFacts, BoundsAssumption DEF Fresh, JobState
<1>2. job[j].todo \in SUBSET AllParts /\ job[j].todo \subseteq PartsOf(j.file)
  BY DEF JobOK, JobState
<1>3. s \in JobState /\ s.pc = pc /\ s.todo \subseteq PartsOf(j.file)
  BY <1>1, <1>2 DEF Fresh, JobState
<1>4. job' = [job EXCEPT ![j] = s]
  BY DEF Go, Finish
<1>5. QED
  BY <1>3, <1>4 DEF JobOK

(* A failed attempt is counted. *)
LEMMA AttemptFailsKeeps ==
    ASSUME JobOK, NEW j \in Job, job[j].pc \in {"whohas", "xfer"}, AttemptFails(j)
    PROVE  JobOK'
<1>1. job[j] \in JobState /\ job[j].attempt < MaxAttempts /\ Cardinality(Nodes) \in Nat
  BY JobFacts DEF JobOK
<1>2. job[j].attempt + 1 \in 0 .. MaxAttempts
  BY <1>1, BoundsAssumption DEF JobState
<1>3. PICK s \in JobState :
         /\ job' = [job EXCEPT ![j] = s] /\ s.todo = job[j].todo /\ s.part = job[j].part
         /\ s.pc \in {"part", "check"} /\ (s.pc = "part" => s.attempt < MaxAttempts)
  <2> DEFINE s == [job[j] EXCEPT
                      !.pc = IF job[j].attempt + 1 < MaxAttempts THEN "part" ELSE "check",
                      !.attempt = @ + 1, !.left = 0, !.timeouts = 0]
  <2>1. s \in JobState
    <3>1. 0 \in 0 .. MaxAttempts /\ 0 \in 0 .. Cardinality(Nodes)
      BY <1>1, BoundsAssumption
    <3>2. s.pc \in {"part", "check"}
      BY <1>1 DEF JobState
    <3>3. QED
      BY <1>1, <1>2, <3>1, <3>2 DEF JobState
  <2>2. job' = [job EXCEPT ![j] = s]
    BY DEF AttemptFails, JobOK
  <2>3. QED
    BY <1>1, <1>2, <2>1, <2>2 DEF JobState
<1>4. QED
  BY <1>3 DEF JobOK

(* A broadcast consists of requests. *)
LEMMA BroadcastKeeps ==
    ASSUME NetOK, NEW j \in Job, NEW type \in {"info", "whohas"},
           NEW p \in AllParts \cup {NoPart}, type # "info" => p \in PartsOf(j.file)
    PROVE  Broadcast(j, type, p, net) \subseteq Requests \cup Response
  BY JobFacts DEF Broadcast, NetOK, Requests, Request

(* What is left of a transaction that is over are requests for nobody. *)
LEMMA AbandonKeeps ==
    ASSUME NetOK, NEW j \in Job
    PROVE  Abandon(j, net) \subseteq Requests \cup Response
<1>1. ASSUME NEW m \in net, m.job = j, m.type = "xfer"
      PROVE  [m EXCEPT !.job = Absent] \in Requests
  <2>1. m \in Request /\ m.part \in PartsOf(m.file)
    BY <1>1 DEF NetOK, Requests, Response
  <2>2. QED
    BY <1>1, <2>1 DEF Requests, Request
<1>2. QED
  BY <1>1 DEF Abandon, NetOK

LEMMA AbandonHandlersKeeps ==
    ASSUME HandlersOK, NEW j \in Job
    PROVE  AbandonHandlers(j) \subseteq Handler
<1>1. ASSUME NEW h \in handlers
      PROVE  [h EXCEPT !.req.job = Absent] \in Handler
  <2>1. h \in Handler /\ h.req \in Request /\ h.req.type # "info" /\ h.req.part \in PartsOf(h.req.file)
    BY <1>1 DEF HandlersOK, Handler, Requests
  <2>2. [h.req EXCEPT !.job = Absent] \in {r \in Requests : r.type # "info"}
    BY <2>1 DEF Requests, Request
  <2>3. QED
    BY <2>1, <2>2 DEF Handler
<1>2. QED
  BY <1>1 DEF AbandonHandlers, HandlersOK

LEMMA GiveUpKeeps ==
    ASSUME NetOK, HandlersOK, SnoopsOK, NEW j \in Job, GiveUp(j)
    PROVE  NetOK' /\ HandlersOK' /\ SnoopsOK'
  BY AbandonKeeps, AbandonHandlersKeeps DEF GiveUp, NetOK, HandlersOK, SnoopsOK

(* A response goes to the job that asked, if there is one. *)
LEMMA RespondKeeps ==
    ASSUME NEW req \in Request, NEW type \in {"ack", "nack"}, NEW data \in Data,
           NEW sent, sent \subseteq Requests \cup Response
    PROVE  Respond(req, type, data, sent) \subseteq Requests \cup Response
  BY DEF Respond, Request, Response

(* A part is written where the transfer keeps its parts. *)
LEMMA WritePartKeeps ==
    ASSUME DiskOK, NEW n \in Nodes, NEW f \in Files, NEW p \in PartsOf(f), NEW data \in Data,
           Writable(n, f), WritePart(n, f, p, data)
    PROVE  DiskOK'
<1> DEFINE t == transfer[n][f]
           d == t.dir
<1>1. /\ t \in Transfer /\ d \in Job /\ d.node = n /\ d.file = f /\ t.parts \subseteq PartsOf(f)
      /\ dir[d] # Absent
  BY DEF Writable, DiskOK, TransfersOK, Transfer
<1>2. dir[d] \in [PartsOf(f) -> Data \cup {Absent}]
  BY <1>1 DEF DiskOK, DirsOK
<1>3. /\ DOMAIN dir' = Job
      /\ dir'[d] = [dir[d] EXCEPT ![p] = data]
      /\ \A j \in Job \ {d} : dir'[j] = dir[j]
  BY <1>1 DEF WritePart, DiskOK, Shape
<1>4. /\ dir'[d] \in [PartsOf(f) -> Data \cup {Absent}] /\ dir'[d] # Absent
      /\ dir'[d][p] # Absent
      /\ \A q \in PartsOf(f) : dir[d][q] # Absent => dir'[d][q] # Absent
  BY <1>2, <1>3, AbsentAssumption
<1>5. /\ DOMAIN transfer' = Nodes
      /\ \A m \in Nodes : DOMAIN transfer'[m] = Files
      /\ transfer'[n][f] = [t EXCEPT !.parts = @ \cup {p}]
      /\ \A m \in Nodes, g \in Files : <<m, g>> # <<n, f>> => transfer'[m][g] = transfer[m][g]
  BY DEF WritePart, DiskOK, Shape
<1>6. /\ transfer'[n][f] \in Transfer /\ transfer'[n][f].dir = d
      /\ transfer'[n][f].parts = t.parts \cup {p}
  BY <1>1, <1>5, PartsFacts DEF Transfer
<1>7. Shape' /\ FilesOK'
  BY <1>3, <1>5 DEF WritePart, DiskOK, Shape, FilesOK
<1>8. DirsOK'
  BY <1>1, <1>3, <1>4 DEF DiskOK, DirsOK
<1>9. TransfersOK'
  <2>1. ASSUME NEW m \in Nodes, NEW g \in Files, transfer'[m][g] # Absent
        PROVE  /\ transfer'[m][g] \in Transfer
               /\ transfer'[m][g].dir.node = m /\ transfer'[m][g].dir.file = g
               /\ transfer'[m][g].parts \subseteq PartsOf(g)
    <3>1. CASE m = n /\ g = f
      BY <1>1, <1>6, <3>1
    <3>2. CASE ~(m = n /\ g = f)
      BY <1>5, <2>1, <3>2 DEF DiskOK, TransfersOK
    <3>3. QED
      BY <3>1, <3>2
  <2>2. QED
    BY <2>1 DEF TransfersOK
<1>10. PartsOnDisk'
  <2>1. ASSUME NEW m \in Nodes, NEW g \in Files, transfer'[m][g] # Absent
        PROVE  /\ dir'[transfer'[m][g].dir] # Absent
               /\ \A q \in transfer'[m][g].parts : dir'[transfer'[m][g].dir][q] # Absent
    <3>1. CASE m = n /\ g = f
      <4>1. t # Absent /\ \A q \in t.parts : dir[d][q] # Absent
        BY DEF Writable, DiskOK, PartsOnDisk
      <4>2. QED
        BY <1>1, <1>4, <1>6, <3>1, <4>1
    <3>2. CASE ~(m = n /\ g = f)
      <4>1. transfer'[m][g] = transfer[m][g]
        BY <1>5, <3>2
      <4>2. transfer[m][g].dir \in Job /\ transfer[m][g].dir # d
        BY <1>1, <2>1, <3>2, <4>1 DEF DiskOK, TransfersOK, Transfer
      <4>3. QED
        BY <1>3, <2>1, <4>1, <4>2 DEF DiskOK, PartsOnDisk
    <3>3. QED
      BY <3>1, <3>2
  <2>2. QED
    BY <2>1 DEF PartsOnDisk
<1>11. QED
  BY <1>7, <1>8, <1>9, <1>10 DEF DiskOK

----------------------------------------------------------------------------
(* Every step of a getParts, a handler or MITM keeps what the variables    *)
(* hold well formed, and the parts that transfers list on the disk.        *)
LEMMA TypeStep ==
    ASSUME TypeInv, [Next]_vars
    PROVE  TypeInv'
<1> USE DEF TypeInv
<1>d. ASSUME UNCHANGED disk PROVE DiskOK' /\ deleted' \in BOOLEAN
  BY <1>d DEF disk, DiskOK, Shape, DirsOK, FilesOK, TransfersOK, PartsOnDisk
<1>m. ASSUME UNCHANGED mesh PROVE NetOK' /\ HandlersOK' /\ SnoopsOK'
  BY <1>m DEF mesh, NetOK, HandlersOK, SnoopsOK
<1>h. ASSUME UNCHANGED handlers PROVE HandlersOK'
  BY <1>h DEF HandlersOK
<1>s. ASSUME UNCHANGED snoops PROVE SnoopsOK'
  BY <1>s DEF SnoopsOK
<1>j. ASSUME UNCHANGED job PROVE JobOK'
  BY <1>j DEF JobOK
<1>p. ASSUME NEW j \in Job, Panic(j) PROVE TypeInv'
  <2>1. panicked' \subseteq Nodes
    BY <1>p, JobFacts DEF Panic
  <2>2. QED
    BY <1>d, <1>m, <1>j, <1>p, <2>1 DEF Panic
<1>c. ASSUME NEW j \in Job
      PROVE  /\ job[j] \in JobState /\ job[j].todo \subseteq PartsOf(j.file)
             /\ Cardinality(Nodes) \in Nat /\ Cardinality(Nodes) > 0
             /\ Cardinality(Nodes) - 1 \in 0 .. Cardinality(Nodes)
             /\ 0 \in 0 .. Cardinality(Nodes) /\ 0 \in 0 .. MaxAttempts
             /\ j.node \in Nodes /\ j.file \in Files
  BY <1>c, JobFacts, BoundsAssumption DEF JobOK
<1>1. ASSUME NEW j \in Job, Get(j)
      PROVE  TypeInv'
  <2>1. CASE Exists(j.node, j.file) \/ TransferOf(j) # Absent
    <3>1. Finish(j, "done") /\ UNCHANGED <<disk, mesh, panicked>>
      BY <1>1, <2>1 DEF Get, mesh
    <3>2. QED
      BY <1>d, <1>m, <3>1, GoKeeps
  <2>2. CASE ~(Exists(j.node, j.file) \/ TransferOf(j) # Absent)
    <3>1. /\ job' = [job EXCEPT ![j].pc = "info", ![j].left = Cardinality(Nodes) - 1]
          /\ net' = Broadcast(j, "info", NoPart, net) /\ UNCHANGED <<disk, handlers, snoops, panicked>>
      BY <1>1, <2>2 DEF Get
    <3>2. [job[j] EXCEPT !.pc = "info", !.left = Cardinality(Nodes) - 1] \in JobState
      BY <1>c DEF JobState
    <3>3. JobOK'
      BY <1>c, <3>1, <3>2 DEF JobOK
    <3>4. NetOK'
      BY <3>1, BroadcastKeeps DEF NetOK
    <3>5. QED
      BY <1>d, <1>h, <1>s, <3>1, <3>3, <3>4
  <2>3. QED
    BY <2>1, <2>2
<1>2. ASSUME NEW j \in Job, InfoTimeout(j)
      PROVE  TypeInv'
  BY <1>2, <1>d, GoKeeps, GiveUpKeeps DEF InfoTimeout
<1>3. ASSUME NEW j \in Job, WhoHasTimeout(j)
      PROVE  TypeInv'
  <2>1. CASE job[j].left > 1 /\ job[j].timeouts + 1 < MaxAttempts
    <3>1. /\ job' = [job EXCEPT ![j].left = @ - 1, ![j].timeouts = @ + 1]
          /\ UNCHANGED <<disk, mesh, panicked>>
      BY <1>3, <2>1 DEF WhoHasTimeout
    <3>2. [job[j] EXCEPT !.left = @ - 1, !.timeouts = @ + 1] \in JobState
      <4>1. job[j].left - 1 \in 0 .. Cardinality(Nodes) /\ job[j].timeouts + 1 \in 0 .. MaxAttempts
        BY <1>c, <2>1, BoundsAssumption DEF JobState
      <4>2. QED
        BY <1>c, <4>1 DEF JobState
    <3>3. JobOK'
      BY <1>c, <3>1, <3>2 DEF JobOK
    <3>4. QED
      BY <1>d, <1>m, <3>1, <3>3
  <2>2. CASE ~(job[j].left > 1 /\ job[j].timeouts + 1 < MaxAttempts)
    <3>1. AttemptFails(j) /\ GiveUp(j) /\ UNCHANGED <<disk, panicked>> /\ job[j].pc = "whohas"
      BY <1>3, <2>2 DEF WhoHasTimeout, At
    <3>2. QED
      BY <1>d, <3>1, AttemptFailsKeeps, GiveUpKeeps
  <2>3. QED
    BY <2>1, <2>2
<1>4. ASSUME NEW j \in Job, NEW m \in net, Info(j, m)
      PROVE  TypeInv'
  <2> DEFINE found == job[j].found \/ m.type = "ack"
             left == job[j].left - 1
  <2>1. UNCHANGED <<snoops, panicked>>
    BY <1>4 DEF Info
  <2>2. CASE /\ left > 0
             /\ job' = [job EXCEPT ![j].left = left, ![j].found = found]
             /\ net' = net \ {m}
             /\ UNCHANGED <<disk, handlers>>
    <3>1. [job[j] EXCEPT !.left = left, !.found = found] \in JobState
      <4>1. left \in 0 .. Cardinality(Nodes)
        BY <1>c, <2>2 DEF JobState
      <4>2. job[j].found \in BOOLEAN
        BY <1>c DEF JobState
      <4>3. found \in BOOLEAN
        BY <4>2
      <4>4. QED
        BY <1>c, <4>1, <4>3 DEF JobState
    <3>2. JobOK'
      BY <1>c, <2>2, <3>1 DEF JobOK
    <3>3. NetOK'
      BY <2>2 DEF NetOK
    <3>4. QED
      BY <1>d, <1>h, <1>s, <2>1, <2>2, <3>2, <3>3
  <2>3. CASE /\ left = 0 /\ ~found
             /\ Finish(j, "error")
             /\ net' = Abandon(j, net) /\ handlers' = AbandonHandlers(j)
             /\ UNCHANGED disk
    BY <1>d, <2>1, <2>3, GoKeeps, GiveUpKeeps DEF GiveUp
  <2>4. CASE /\ left = 0 /\ found
             /\ job' = [job EXCEPT ![j] = [Fresh EXCEPT !.pc = "queued", !.todo = PartsOf(j.file)]]
             /\ transfer' = [transfer EXCEPT ![j.node][j.file] =
                                [dir |-> j, parts |-> {}, inflight |-> NoPart]]
             /\ dir' = [dir EXCEPT ![j] = [p \in PartsOf(j.file) |-> Absent]]
             /\ net' = Abandon(j, net) /\ handlers' = AbandonHandlers(j)
             /\ UNCHANGED <<file, deleted>>
    <3>1. JobOK'
      <4>1. Fresh \in JobState /\ PartsOf(j.file) \in SUBSET AllParts
        BY <1>c, PartsFacts, BoundsAssumption DEF Fresh, JobState
      <4>2. [Fresh EXCEPT !.pc = "queued", !.todo = PartsOf(j.file)] \in JobState
        BY <4>1 DEF Fresh, JobState
      <4>3. QED
        BY <2>4, <4>1, <4>2 DEF JobOK, Fresh
    <3>2. NetOK' /\ HandlersOK' /\ SnoopsOK'
      BY <2>1, <2>4, GiveUpKeeps DEF GiveUp
    <3>3. DiskOK'
      <4> DEFINE t == [dir |-> j, parts |-> {}, inflight |-> NoPart]
                 d == [p \in PartsOf(j.file) |-> Absent]
      <4>1. /\ transfer'[j.node][j.file] = t
            /\ DOMAIN transfer' = Nodes /\ \A n \in Nodes : DOMAIN transfer'[n] = Files
            /\ \A n \in Nodes, f \in Files : <<n, f>> # <<j.node, j.file>> =>
                  transfer'[n][f] = transfer[n][f]
        BY <1>c, <2>4 DEF DiskOK, Shape
      <4>2. dir'[j] = d /\ DOMAIN dir' = Job /\ \A k \in Job \ {j} : dir'[k] = dir[k]
        BY <2>4 DEF DiskOK, Shape
      <4>3. d \in [PartsOf(j.file) -> Data \cup {Absent}] /\ d # Absent /\ t \in Transfer
        BY <1>c, AbsentAssumption DEF Transfer
      <4>4. Shape' /\ FilesOK'
        BY <2>4, <4>1, <4>2 DEF DiskOK, Shape, FilesOK
      <4>5. DirsOK'
        BY <4>2, <4>3 DEF DiskOK, DirsOK
      <4>6. ASSUME NEW n \in Nodes, NEW f \in Files, transfer'[n][f] # Absent
            PROVE  /\ transfer'[n][f] \in Transfer
                   /\ transfer'[n][f].dir.node = n /\ transfer'[n][f].dir.file = f
                   /\ transfer'[n][f].parts \subseteq PartsOf(f)
                   /\ dir'[transfer'[n][f].dir] # Absent
                   /\ \A p \in transfer'[n][f].parts : dir'[transfer'[n][f].dir][p] # Absent
        <5>1. CASE n = j.node /\ f = j.file
          BY <4>1, <4>2, <4>3, <5>1
        <5>2. CASE ~(n = j.node /\ f = j.file)
          <6>1. transfer'[n][f] = transfer[n][f]
            BY <4>1, <5>2
          <6>2. /\ transfer[n][f] \in Transfer /\ transfer[n][f].dir \in Job
                /\ transfer[n][f].dir.node = n /\ transfer[n][f].dir.file = f
                /\ transfer[n][f].parts \subseteq PartsOf(f)
            BY <4>6, <6>1 DEF DiskOK, TransfersOK, Transfer
          <6>3. dir'[transfer[n][f].dir] = dir[transfer[n][f].dir]
            BY <4>2, <5>2, <6>2
          <6>4. QED
            BY <4>6, <6>1, <6>2, <6>3 DEF DiskOK, PartsOnDisk
        <5>3. QED
          BY <5>1, <5>2
      <4>7. QED
        BY <4>4, <4>5, <4>6 DEF DiskOK, TransfersOK, PartsOnDisk
    <3>4. QED
      BY <2>1, <2>4, <3>1, <3>2, <3>3
  <2>5. QED
    BY <1>4, <2>2, <2>3, <2>4 DEF Info
<1>5. ASSUME NEW j \in Job, NEW m \in net, WhoHasAck(j, m)
      PROVE  TypeInv'
  <2>1. [job[j] EXCEPT !.pc = "xfer", !.left = 0, !.timeouts = 0] \in JobState
    BY <1>c DEF JobState
  <2>2. JobOK'
    BY <1>5, <1>c, <2>1 DEF WhoHasAck, At, JobOK
  <2>3. [type |-> "xfer", from |-> j.node, to |-> m.from, job |-> j, file |-> j.file,
         part |-> job[j].part] \in Requests
    <3>1. m.from \in Nodes /\ job[j].part \in PartsOf(j.file)
      BY <1>5 DEF WhoHasAck, At, Response, JobOK
    <3>2. QED
      BY <1>c, <3>1, PartsFacts DEF Requests, Request
  <2>4. NetOK' /\ HandlersOK'
    BY <1>5, <2>3, AbandonKeeps, AbandonHandlersKeeps DEF WhoHasAck, NetOK, HandlersOK
  <2>5. QED
    BY <1>5, <1>d, <1>s, <2>2, <2>4 DEF WhoHasAck
<1>6. ASSUME NEW j \in Job, NEW m \in net, WhoHasNack(j, m)
      PROVE  TypeInv'
  <2>1. CASE job[j].left > 1
    <3>1. /\ job' = [job EXCEPT ![j].left = @ - 1] /\ net' = net \ {m}
          /\ UNCHANGED <<handlers, snoops, disk, panicked>>
      BY <1>6, <2>1 DEF WhoHasNack
    <3>2. [job[j] EXCEPT !.left = @ - 1] \in JobState
      <4>1. job[j].left - 1 \in 0 .. Cardinality(Nodes)
        BY <1>c, <2>1 DEF JobState
      <4>2. QED
        BY <1>c, <4>1 DEF JobState
    <3>3. JobOK'
      BY <1>c, <3>1, <3>2 DEF JobOK
    <3>4. NetOK'
      BY <3>1 DEF NetOK
    <3>5. QED
      BY <1>d, <1>h, <1>s, <3>1, <3>3, <3>4
  <2>2. CASE ~(job[j].left > 1)
    <3>1. AttemptFails(j) /\ GiveUp(j) /\ UNCHANGED <<disk, panicked>> /\ job[j].pc = "whohas"
      BY <1>6, <2>2 DEF WhoHasNack, At
    <3>2. QED
      BY <1>d, <3>1, AttemptFailsKeeps, GiveUpKeeps
  <2>3. QED
    BY <2>1, <2>2
<1>7. ASSUME NEW j \in Job, NEW m \in net, XferAck(j, m)
      PROVE  TypeInv'
  <2>1. job[j].pc = "xfer" /\ job[j].part \in PartsOf(j.file) /\ m.data \in Data
    BY <1>7 DEF XferAck, At, JobOK, Response
  <2>2. NetOK' /\ HandlersOK' /\ SnoopsOK'
    BY <1>7, GiveUpKeeps DEF XferAck
  <2>3. CASE Writable(j.node, j.file)
    <3>1. DiskOK'
      BY <1>7, <1>c, <2>1, <2>3, WritePartKeeps DEF XferAck
    <3>2. JobOK'
      BY <1>7, <2>3, GoKeeps DEF XferAck
    <3>3. QED
      BY <1>7, <2>2, <2>3, <3>1, <3>2 DEF XferAck, WritePart
  <2>4. CASE ~Writable(j.node, j.file)
    BY <1>7, <1>d, <2>1, <2>2, <2>4, AttemptFailsKeeps DEF XferAck
  <2>5. QED
    BY <2>3, <2>4
<1>8. ASSUME NEW j \in Job, XferFails(j)
      PROVE  TypeInv'
  BY <1>8, <1>d, AttemptFailsKeeps, GiveUpKeeps DEF XferFails, At
<1>9. ASSUME NEW j \in Job, Touch(j)
      PROVE  TypeInv'
  <2>1. [p \in {} |-> "good"] \in [PartsOf(j.file) -> Data]
    BY <1>9 DEF Touch, PartsOf
  <2>2. /\ DOMAIN file' = Nodes /\ \A n \in Nodes : DOMAIN file'[n] = Files
        /\ \A n \in Nodes, f \in Files :
              file'[n][f] = IF n = j.node /\ f = j.file THEN [p \in {} |-> "good"] ELSE file[n][f]
    BY <1>9, <1>c DEF Touch, DiskOK, Shape
  <2>3. DiskOK'
    BY <1>9, <2>1, <2>2 DEF Touch, DiskOK, Shape, DirsOK, FilesOK, TransfersOK, PartsOnDisk
  <2>4. QED
    BY <1>9, <1>m, <2>3, GoKeeps DEF Touch
<1>10. ASSUME NEW j \in Job, Dequeue(j)
      PROVE  TypeInv'
  BY <1>10, <1>d, <1>m, <1>p, GoKeeps DEF Dequeue
<1>11. ASSUME NEW j \in Job, NextPart(j)
      PROVE  TypeInv'
  <2>1. PICK p \in job[j].todo :
           job' = [job EXCEPT ![j].pc = "part", ![j].part = p, ![j].attempt = 0,
                              ![j].todo = @ \ {p}]
    BY <1>11 DEF NextPart
  <2>2. [job[j] EXCEPT !.pc = "part", !.part = p, !.attempt = 0, !.todo = @ \ {p}] \in JobState
    <3>1. job[j].todo \in SUBSET AllParts
      BY <1>c DEF JobState
    <3>2. p \in AllParts /\ job[j].todo \ {p} \in SUBSET AllParts
      BY <2>1, <3>1
    <3>3. QED
      BY <1>c, <3>2 DEF JobState
  <2>3. JobOK'
    BY <1>c, <2>1, <2>2, BoundsAssumption DEF JobOK
  <2>4. QED
    BY <1>11, <1>d, <1>m, <2>3 DEF NextPart
<1>12. ASSUME NEW j \in Job, GetPart(j)
      PROVE  TypeInv'
  <2>1. CASE TransferOf(j) = Absent
    BY <1>12, <1>p, <2>1 DEF GetPart
  <2>2. CASE TransferOf(j) # Absent /\ job[j].part \in TransferOf(j).parts
    BY <1>12, <1>d, <1>m, <2>2, GoKeeps DEF GetPart
  <2>3. CASE TransferOf(j) # Absent /\ job[j].part \notin TransferOf(j).parts
    <3>1. /\ transfer' = [transfer EXCEPT ![j.node][j.file].inflight = job[j].part]
          /\ job' = [job EXCEPT ![j].pc = "whohas", ![j].left = Cardinality(Nodes) - 1]
          /\ net' = Broadcast(j, "whohas", job[j].part, net)
          /\ UNCHANGED <<file, dir, deleted, handlers, snoops, panicked>>
      BY <1>12, <2>3 DEF GetPart
    <3>2. job[j].pc = "part" /\ job[j].part \in PartsOf(j.file) /\ job[j].part \in AllParts
      BY <1>12, <1>c, PartsFacts DEF GetPart, At, JobOK
    <3>3. [job[j] EXCEPT !.pc = "whohas", !.left = Cardinality(Nodes) - 1] \in JobState
      BY <1>c DEF JobState
    <3>4. JobOK'
      BY <1>c, <3>1, <3>2, <3>3 DEF JobOK
    <3>5. NetOK'
      BY <3>1, <3>2, BroadcastKeeps DEF NetOK
    <3>6. DiskOK'
      <4> DEFINE t == transfer[j.node][j.file]
      <4>1. /\ transfer'[j.node][j.file] = [t EXCEPT !.inflight = job[j].part]
            /\ DOMAIN transfer' = Nodes /\ \A n \in Nodes : DOMAIN transfer'[n] = Files
            /\ \A n \in Nodes, f \in Files : <<n, f>> # <<j.node, j.file>> =>
                  transfer'[n][f] = transfer[n][f]
        BY <1>c, <3>1 DEF DiskOK, Shape
      <4>2. t # Absent /\ t \in Transfer
        BY <1>c, <2>3 DEF TransferOf, DiskOK, TransfersOK
      <4>3. /\ transfer'[j.node][j.file] \in Transfer
            /\ transfer'[j.node][j.file].dir = t.dir /\ transfer'[j.node][j.file].parts = t.parts
        BY <3>2, <4>1, <4>2 DEF Transfer
      <4>4. \A n \in Nodes, f \in Files : transfer'[n][f] # Absent =>
               /\ transfer'[n][f] \in Transfer
               /\ transfer[n][f] # Absent
               /\ transfer'[n][f].dir = transfer[n][f].dir
               /\ transfer'[n][f].parts = transfer[n][f].parts
        <5>1. ASSUME NEW n \in Nodes, NEW f \in Files, n = j.node /\ f = j.file
              PROVE  /\ transfer'[n][f] \in Transfer
                     /\ transfer[n][f] # Absent
                     /\ transfer'[n][f].dir = transfer[n][f].dir
                     /\ transfer'[n][f].parts = transfer[n][f].parts
          BY <4>2, <4>3, <5>1
        <5>2. ASSUME NEW n \in Nodes, NEW f \in Files, ~(n = j.node /\ f = j.file),
                     transfer'[n][f] # Absent
              PROVE  transfer'[n][f] = transfer[n][f] /\ transfer[n][f] \in Transfer
          BY <4>1, <5>2 DEF DiskOK, TransfersOK
        <5>3. QED
          BY <5>1, <5>2
      <4>5. Shape' /\ DirsOK' /\ FilesOK'
        BY <3>1, <4>1 DEF DiskOK, Shape, DirsOK, FilesOK
      <4>6. TransfersOK'
        BY <4>4 DEF DiskOK, TransfersOK
      <4>7. PartsOnDisk'
        <5>1. PartsOnDisk /\ dir' = dir
          BY <3>1 DEF DiskOK
        <5>2. ASSUME NEW n \in Nodes, NEW f \in Files, transfer'[n][f] # Absent
              PROVE  /\ dir'[transfer'[n][f].dir] # Absent
                     /\ \A p \in transfer'[n][f].parts : dir'[transfer'[n][f].dir][p] # Absent
          <6>1. /\ transfer[n][f] # Absent /\ transfer'[n][f].dir = transfer[n][f].dir
                /\ transfer'[n][f].parts = transfer[n][f].parts
            BY <4>4, <5>2
          <6>2. /\ dir[transfer[n][f].dir] # Absent
                /\ \A p \in transfer[n][f].parts : dir[transfer[n][f].dir][p] # Absent
            BY <5>1, <6>1 DEF PartsOnDisk
          <6>3. QED
            BY <5>1, <6>1, <6>2
        <5>3. QED
          BY <5>2 DEF PartsOnDisk
      <4>8. QED
        BY <4>5, <4>6, <4>7 DEF DiskOK
    <3>7. QED
      BY <1>h, <1>s, <3>1, <3>4, <3>5, <3>6
  <2>4. QED
    BY <2>1, <2>2, <2>3
<1>13. ASSUME NEW j \in Job, Check(j)
      PROVE  TypeInv'
  BY <1>13, <1>d, <1>m, <1>p, GoKeeps DEF Check
<1>14. ASSUME NEW j \in Job, Assemble(j)
      PROVE  TypeInv'
  <2>1. CASE TransferOf(j) = Absent
    BY <1>14, <1>p, <2>1 DEF Assemble
  <2>2. CASE TransferOf(j) # Absent
    <3> DEFINE parts == dir[TransferOf(j).dir]
    <3>1. TransferOf(j).dir \in Job /\ TransferOf(j).dir.file = j.file
      BY <1>c, <2>2 DEF TransferOf, DiskOK, TransfersOK, Transfer
    <3>2. CASE parts # Absent /\ \A p \in PartsOf(j.file) : parts[p] # Absent
      <4>1. parts \in [PartsOf(j.file) -> Data]
        BY <3>1, <3>2 DEF DiskOK, DirsOK
      <4>2. file' = [file EXCEPT ![j.node][j.file] = parts]
        BY <1>14, <2>2, <3>2 DEF Assemble
      <4>3. /\ DOMAIN file' = Nodes /\ \A n \in Nodes : DOMAIN file'[n] = Files
            /\ \A n \in Nodes, f \in Files :
                  file'[n][f] = IF n = j.node /\ f = j.file THEN parts ELSE file[n][f]
        BY <1>c, <4>2 DEF DiskOK, Shape
      <4>4. UNCHANGED <<transfer, dir, deleted, mesh, panicked>>
        BY <1>14, <2>2 DEF Assemble
      <4>5. FilesOK'
        BY <4>1, <4>3 DEF DiskOK, FilesOK
      <4>6. DiskOK'
        BY <4>3, <4>4, <4>5 DEF DiskOK, Shape, DirsOK, TransfersOK, PartsOnDisk
      <4>7. QED
        BY <1>14, <1>m, <2>2, <4>4, <4>6, GoKeeps DEF Assemble
    <3>3. CASE ~(parts # Absent /\ \A p \in PartsOf(j.file) : parts[p] # Absent)
      <4>1. UNCHANGED <<disk, mesh, panicked>>
        BY <1>14, <2>2, <3>3 DEF Assemble, disk
      <4>2. QED
        BY <1>14, <1>d, <1>m, <2>2, <4>1, GoKeeps DEF Assemble
    <3>4. QED
      BY <3>2, <3>3
  <2>3. QED
    BY <2>1, <2>2
<1>15. ASSUME NEW j \in Job, Release(j)
      PROVE  TypeInv'
  BY <1>15, <1>d, <1>m, GoKeeps DEF Release
<1>16. ASSUME NEW j \in Job, DestroyTempTransfer(j)
      PROVE  TypeInv'
  <2>1. UNCHANGED <<file, deleted, mesh, panicked>> /\ Go(j, "done")
    BY <1>16 DEF DestroyTempTransfer
  <2>2. DiskOK'
    <3>1. CASE TransferOf(j) = Absent
      BY <1>16, <2>1, <3>1, <1>d DEF DestroyTempTransfer, disk
    <3>2. CASE TransferOf(j) # Absent
      <4> DEFINE d == transfer[j.node][j.file].dir
      <4>1. d \in Job /\ d.node = j.node /\ d.file = j.file
        BY <1>c, <3>2 DEF TransferOf, DiskOK, TransfersOK, Transfer
      <4>2. /\ dir' = [dir EXCEPT ![d] = Absent]
            /\ transfer' = [transfer EXCEPT ![j.node][j.file] = Absent]
        BY <1>16, <3>2 DEF DestroyTempTransfer, TransferOf
      <4>3. /\ transfer'[j.node][j.file] = Absent
            /\ DOMAIN transfer' = Nodes /\ \A n \in Nodes : DOMAIN transfer'[n] = Files
            /\ \A n \in Nodes, f \in Files : <<n, f>> # <<j.node, j.file>> =>
                  transfer'[n][f] = transfer[n][f]
        BY <1>c, <4>2 DEF DiskOK, Shape
      <4>4. dir'[d] = Absent /\ DOMAIN dir' = Job /\ \A k \in Job \ {d} : dir'[k] = dir[k]
        BY <4>1, <4>2 DEF DiskOK, Shape
      <4>5. Shape' /\ FilesOK' /\ DirsOK'
        BY <2>1, <4>3, <4>4 DEF DiskOK, Shape, FilesOK, DirsOK
      <4>6. ASSUME NEW n \in Nodes, NEW f \in Files, transfer'[n][f] # Absent
            PROVE  /\ transfer'[n][f] = transfer[n][f]
                   /\ transfer[n][f].dir \in Job
                   /\ dir'[transfer[n][f].dir] = dir[transfer[n][f].dir]
        <5>1. transfer'[n][f] = transfer[n][f] /\ <<n, f>> # <<j.node, j.file>>
          BY <4>3, <4>6
        <5>2. /\ transfer[n][f].dir \in Job
              /\ transfer[n][f].dir.node = n /\ transfer[n][f].dir.file = f
          BY <4>6, <5>1 DEF DiskOK, TransfersOK, Transfer
        <5>3. QED
          BY <4>1, <4>4, <5>1, <5>2
      <4>7. TransfersOK'
        BY <4>6 DEF DiskOK, TransfersOK
      <4>8. PartsOnDisk'
        BY <4>6 DEF DiskOK, PartsOnDisk
      <4>9. QED
        BY <4>5, <4>7, <4>8 DEF DiskOK
    <3>3. QED
      BY <3>1, <3>2
  <2>3. QED
    BY <1>m, <2>1, <2>2, GoKeeps
<1>17. ASSUME NEW m \in net, HandleInfo(m)
      PROVE  TypeInv'
  <2>1. m \in Request /\ net \ {m} \subseteq Requests \cup Response
    BY <1>17 DEF HandleInfo, NetOK
  <2>2. NetOK'
    BY <1>17, <2>1, RespondKeeps DEF HandleInfo, NetOK, Data
  <2>3. QED
    BY <1>17, <1>d, <1>h, <1>s, <1>j, <2>2 DEF HandleInfo
<1>18. ASSUME NEW m \in net, HandlePart(m)
      PROVE  TypeInv'
  <2>1. NetOK'
    BY <1>18 DEF HandlePart, NetOK
  <2>2. m \in {r \in Requests : r.type # "info"}
    BY <1>18 DEF HandlePart, NetOK, Requests, Response
  <2>3. HandlersOK'
    <3> DEFINE found == Exists(m.to, m.file)
               held == Exists(m.to, m.file) \/ HasPart(m.to, m.file, m.part)
    <3>1. found \in BOOLEAN /\ held \in BOOLEAN
      BY DEF Exists, HasPart
    <3>2. [req |-> m, found |-> found, held |-> held] \in Handler
      BY <2>2, <3>1 DEF Handler
    <3>3. QED
      BY <1>18, <3>2 DEF HandlePart, HandlersOK
  <2>4. QED
    BY <1>18, <1>d, <1>s, <1>j, <2>1, <2>3 DEF HandlePart
<1>19. ASSUME NEW h \in handlers, HandlePartReply(h)
      PROVE  TypeInv'
  <2> DEFINE data == IF Acks(h) /\ h.req.type = "xfer" THEN ReadPart(h) ELSE "empty"
             n == h.req.to
             f == h.req.file
             p == h.req.part
  <2>1. /\ h.req \in Request /\ n \in Nodes /\ f \in Files /\ p \in PartsOf(f) /\ h.req.from \in Nodes
        /\ p \in AllParts
    BY PartsFacts DEF HandlersOK, Handler, Requests, Request
  <2>2. data \in Data
    <3>1. CASE h.found
      BY <2>1, <3>1 DEF ReadPart, Exists, DiskOK, FilesOK, Data
    <3>2. CASE ~h.found /\ Acks(h)
      <4>1. transfer[n][f] # Absent /\ transfer[n][f].dir \in Job /\ transfer[n][f].dir.file = f
        BY <2>1, <3>2 DEF Acks, HasPart, DiskOK, TransfersOK, Transfer
      <4>2. QED
        BY <2>1, <3>2, <4>1 DEF ReadPart, DiskOK, DirsOK, Data
    <3>3. QED
      BY <3>1, <3>2 DEF Acks, Data
  <2>3. NetOK'
    BY <1>19, <2>1, <2>2, RespondKeeps DEF HandlePartReply, NetOK
  <2>4. HandlersOK'
    BY <1>19 DEF HandlePartReply, HandlersOK
  <2>5. SnoopsOK'
    <3>1. Between[<<n, h.req.from>>] \subseteq Nodes
      BY <2>1, BetweenAssumption
    <3>2. snoops' \subseteq snoops \cup [node : Between[<<n, h.req.from>>], file : {f}, part : {p}]
      BY <1>19 DEF HandlePartReply
    <3>3. QED
      BY <2>1, <3>1, <3>2 DEF SnoopsOK
  <2>6. QED
    BY <1>19, <1>d, <1>j, <2>3, <2>4, <2>5 DEF HandlePartReply
<1>20. ASSUME NEW s \in snoops, MITM(s)
      PROVE  TypeInv'
  <2>1. s.node \in Nodes /\ s.file \in Files /\ s.part \in PartsOf(s.file)
    BY DEF SnoopsOK
  <2>2. SnoopsOK'
    BY <1>20 DEF MITM, SnoopsOK
  <2>3. DiskOK' /\ deleted' \in BOOLEAN
    BY <1>20, <1>d, <2>1, WritePartKeeps DEF MITM, WritePart, Data
  <2>4. QED
    BY <1>20, <1>h, <1>j, <2>2, <2>3 DEF MITM, NetOK
<1>21. ASSUME NEW n \in Nodes, NEW f \in Files, Delete(n, f)
      PROVE  TypeInv'
  <2>1. /\ DOMAIN file' = Nodes /\ \A k \in Nodes : DOMAIN file'[k] = Files
        /\ \A k \in Nodes, g \in Files :
              file'[k][g] = IF k = n /\ g = f THEN Absent ELSE file[k][g]
    BY <1>21 DEF Delete, DiskOK, Shape
  <2>2. DiskOK'
    BY <1>21, <2>1 DEF Delete, DiskOK, Shape, DirsOK, FilesOK, TransfersOK, PartsOnDisk
  <2>3. QED
    BY <1>21, <1>m, <1>j, <2>2 DEF Delete
<1>22. CASE UNCHANGED vars
  BY <1>22, <1>d, <1>m, <1>j DEF vars, disk, mesh
<1>23. QED
  BY <1>1, <1>2, <1>3, <1>4, <1>5, <1>6, <1>7, <1>8, <1>9, <1>10, <1>11, <1>12, <1>13, <1>14,
      <1>15, <1>16, <1>17, <1>18, <1>19, <1>20, <1>21, <1>22
      DEF Next, Timeout, Receive, GetParts, Handlers

----------------------------------------------------------------------------
(* FilesWhole *)

(* The end of a transaction: a message or a handler that still names a job *)
(* was there before and names another job, and every handler was there     *)
(* before, but for the job it names.                                       *)
LEMMA AbandonedFacts ==
    ASSUME TypeInv, NEW j \in Job
    PROVE  /\ \A m \in Abandon(j, net) : m.job \in Job => m \in net /\ m.job # j
           /\ \A h \in AbandonHandlers(j) :
                 /\ \E g \in handlers : h.found = g.found /\ h.held = g.held
                       /\ h.req.to = g.req.to /\ h.req.file = g.req.file
                       /\ h.req.part = g.req.part
                 /\ h.req.job \in Job => h \in handlers /\ h.req.job # j
<1>1. \A m \in Abandon(j, net) : m.job \in Job => m \in net /\ m.job # j
  <2>1. ASSUME NEW m \in net, m.job = j, m.type = "xfer"
        PROVE  [m EXCEPT !.job = Absent].job = Absent
    <3>1. m \in Request
      BY <2>1 DEF TypeInv, NetOK, Requests, Response
    <3>2. QED
      BY <3>1 DEF Request
  <2>2. QED
    BY <2>1, JobAssumption DEF Abandon
<1>2. ASSUME NEW h \in AbandonHandlers(j)
      PROVE  /\ \E g \in handlers : h.found = g.found /\ h.held = g.held
                   /\ h.req.to = g.req.to /\ h.req.file = g.req.file
                   /\ h.req.part = g.req.part
             /\ h.req.job \in Job => h \in handlers /\ h.req.job # j
  <2>1. PICK g \in handlers : h = IF g.req.job = j THEN [g EXCEPT !.req.job = Absent] ELSE g
    BY DEF AbandonHandlers
  <2>2. CASE g.req.job = j
    <3>1. g \in Handler /\ g.req \in Request
      BY DEF TypeInv, HandlersOK, Handler, Requests
    <3>2. h = [g EXCEPT !.req = [g.req EXCEPT !.job = Absent]]
      BY <2>1, <2>2
    <3>3. /\ h.found = g.found /\ h.held = g.held /\ h.req = [g.req EXCEPT !.job = Absent]
      BY <3>1, <3>2 DEF Handler
    <3>4. /\ h.req.to = g.req.to /\ h.req.file = g.req.file /\ h.req.part = g.req.part
          /\ h.req.job = Absent
      BY <3>1, <3>3 DEF Request
    <3>5. QED
      BY <3>3, <3>4, JobAssumption
  <2>3. CASE g.req.job # j
    BY <2>1, <2>3
  <2>4. QED
    BY <2>2, <2>3
<1>3. QED
  BY <1>1, <1>2

(* A step of a job that does not begin to wait for a part, loses no file,  *)
(* writes only contents and lets nobody but itself be sent anything.       *)
LEMMA JobStepWhole ==
    ASSUME Whole, NEW j \in Job, \A k \in Job \ {j} : job'[k] = job[k],
           job'[j].pc # "xfer", WholeFiles', WholeDirs',
           \A n \in Nodes, f \in Files : Exists(n, f) => Exists(n, f)',
           \A m \in net' : m.job \in Job \ {j} => m \in net,
           \A h \in handlers' :
              /\ \E g \in handlers : h.found = g.found /\ h.req.to = g.req.to
                                        /\ h.req.file = g.req.file
              /\ h.req.job \in Job \ {j} => h \in handlers,
           HandlersOK'
    PROVE  Whole'
<1>1. FoundExists'
  BY DEF Whole, FoundExists, HandlersOK, Handler, Requests, Request
<1>2. OnlyXfer'
  BY DEF Whole, OnlyXfer
<1>3. QED
  BY <1>1, <1>2 DEF Whole

(* Contents are written into a directory that holds only contents. *)
LEMMA WritePartWhole ==
    ASSUME DiskOK, WholeDirs, NEW n \in Nodes, NEW f \in Files, NEW p \in PartsOf(f),
           Writable(n, f), WritePart(n, f, p, "good")
    PROVE  WholeDirs'
<1> DEFINE d == transfer[n][f].dir
<1>1. d \in Job /\ d.node = n /\ d.file = f /\ dir[d] # Absent
  BY DEF Writable, DiskOK, TransfersOK, Transfer
<1>2. dir[d] \in [PartsOf(f) -> Data \cup {Absent}]
  BY <1>1 DEF DiskOK, DirsOK
<1>3. dir'[d] = [dir[d] EXCEPT ![p] = "good"] /\ \A j \in Job \ {d} : dir'[j] = dir[j]
  BY <1>1 DEF WritePart, DiskOK, Shape
<1>4. \A q \in PartsOf(f) : dir'[d][q] \in {"good", Absent}
  BY <1>1, <1>2, <1>3 DEF WholeDirs
<1>5. QED
  BY <1>1, <1>3, <1>4 DEF WholeDirs

(* The files are whole at first and nothing is on its way. *)
LEMMA WholeInit == Init => WholeInv
  BY AbsentAssumption DEF Init, WholeInv, Whole, WholeFiles, WholeDirs, FoundExists, OnlyXfer,
                          Exists, Fresh

(* No step but Delete makes a file, a directory or an answer hold less     *)
(* than the contents of its parts.                                         *)
LEMMA WholeStep ==
    ASSUME TypeInv, TypeInv', WholeInv, [Next]_vars
    PROVE  WholeInv'
<1> SUFFICES ASSUME ~deleted' PROVE Whole'
  BY DEF WholeInv
<1>u. CASE UNCHANGED vars
  <2>1. Whole
    BY <1>u DEF vars, WholeInv
  <2>2. QED
    BY <1>u, <2>1 DEF vars, Whole, WholeFiles, WholeDirs, FoundExists, OnlyXfer, Exists
<1>x. CASE \E n \in Nodes, f \in Files : Delete(n, f)
  BY <1>x DEF Delete
<1> SUFFICES ASSUME Next, ~\E n \in Nodes, f \in Files : Delete(n, f), Whole PROVE Whole'
  <2>1. CASE Next /\ ~\E n \in Nodes, f \in Files : Delete(n, f)
    <3>1. deleted' = deleted
      <4>1. ASSUME NEW j \in Job, Get(j) \/ Timeout(j) \/ XferFails(j) PROVE deleted' = deleted
        BY <4>1 DEF Timeout, Get, InfoTimeout, WhoHasTimeout, XferFails, disk
      <4>2. ASSUME NEW j \in Job, NEW m \in net,
                   Info(j, m) \/ WhoHasAck(j, m) \/ WhoHasNack(j, m) \/ XferAck(j, m)
            PROVE  deleted' = deleted
        BY <4>2 DEF Info, WhoHasAck, WhoHasNack, XferAck, WritePart, disk
      <4>3. ASSUME NEW j \in Job, GetParts(j) PROVE deleted' = deleted
        BY <4>3 DEF GetParts, Touch, Dequeue, NextPart, GetPart, Check, Assemble, Release,
                    DestroyTempTransfer, Panic, disk
      <4>4. ASSUME Handlers \/ \E s \in snoops : MITM(s) PROVE deleted' = deleted
        BY <4>4 DEF Handlers, HandleInfo, HandlePart, HandlePartReply, MITM, WritePart, disk
      <4>5. QED
        BY <2>1, <4>1, <4>2, <4>3, <4>4 DEF Next, Receive
    <3>2. QED
      BY <2>1, <3>1 DEF WholeInv
  <2>2. QED
    BY <1>u, <1>x, <2>1
<1> USE DEF TypeInv
<1>c. ASSUME NEW j \in Job
      PROVE  j.node \in Nodes /\ j.file \in Files /\ job[j] \in JobState /\ j # Absent
  BY <1>c, JobFacts DEF JobOK
<1>d. ASSUME UNCHANGED disk
      PROVE  /\ WholeFiles' /\ WholeDirs'
             /\ \A n \in Nodes, f \in Files : Exists(n, f) => Exists(n, f)'
  BY <1>d DEF disk, Whole, WholeFiles, WholeDirs, Exists
<1>f. ASSUME UNCHANGED file
      PROVE  /\ WholeFiles' /\ \A n \in Nodes, f \in Files : Exists(n, f) => Exists(n, f)'
  BY <1>f DEF Whole, WholeFiles, Exists
<1>g. ASSUME NEW j \in Job, NEW pc \in {"parts", "release", "destroy", "done", "error"},
             Go(j, pc) \/ Finish(j, pc)
      PROVE  job'[j].pc # "xfer" /\ \A k \in Job \ {j} : job'[k] = job[k]
  BY <1>g DEF Go, Finish, Fresh, JobOK
<1>a. ASSUME NEW j \in Job, AttemptFails(j)
      PROVE  job'[j].pc # "xfer" /\ \A k \in Job \ {j} : job'[k] = job[k]
  <2>1. job[j] \in JobState /\ DOMAIN job = Job
    BY DEF JobOK
  <2>2. QED
    BY <1>a, <2>1 DEF AttemptFails, JobState
<1>q. ASSUME NEW j \in Job, net' = Abandon(j, net), handlers' = AbandonHandlers(j),
             job'[j].pc # "xfer", \A k \in Job \ {j} : job'[k] = job[k], WholeDirs', UNCHANGED file
      PROVE  Whole'
  BY <1>f, <1>q, AbandonedFacts, JobStepWhole
<1>l. ASSUME NEW j \in Job, UNCHANGED mesh,
             job'[j].pc # "xfer", \A k \in Job \ {j} : job'[k] = job[k],
             WholeFiles', WholeDirs',
             \A n \in Nodes, f \in Files : Exists(n, f) => Exists(n, f)'
      PROVE  Whole'
  BY <1>l, JobStepWhole DEF mesh
<1>p. ASSUME NEW j \in Job, Panic(j) PROVE Whole'
  BY <1>p, <1>d DEF Panic, mesh, Whole, FoundExists, OnlyXfer, HandlersOK, Handler, Requests, Request
<1>1. ASSUME NEW j \in Job, Get(j)
      PROVE  Whole'
  <2>1. CASE Exists(j.node, j.file) \/ TransferOf(j) # Absent
    BY <1>1, <1>d, <1>g, <1>l, <2>1 DEF Get, mesh
  <2>2. CASE ~(Exists(j.node, j.file) \/ TransferOf(j) # Absent)
    <3>1. /\ job' = [job EXCEPT ![j].pc = "info", ![j].left = Cardinality(Nodes) - 1]
          /\ net' = Broadcast(j, "info", NoPart, net) /\ UNCHANGED <<disk, handlers>>
      BY <1>1, <2>2 DEF Get
    <3>2. job'[j].pc # "xfer" /\ \A k \in Job \ {j} : job'[k] = job[k]
      BY <1>c, <3>1 DEF JobOK, JobState
    <3>3. \A m \in net' : m.job \in Job \ {j} => m \in net
      BY <3>1 DEF Broadcast
    <3>4. QED
      BY <1>d, <3>1, <3>2, <3>3, JobStepWhole
  <2>3. QED
    BY <2>1, <2>2
<1>2. ASSUME NEW j \in Job, InfoTimeout(j)
      PROVE  Whole'
  BY <1>2, <1>d, <1>g, <1>q DEF InfoTimeout, GiveUp, disk
<1>3. ASSUME NEW j \in Job, WhoHasTimeout(j)
      PROVE  Whole'
  <2>1. CASE job[j].left > 1 /\ job[j].timeouts + 1 < MaxAttempts
    <3>1. /\ job' = [job EXCEPT ![j].left = @ - 1, ![j].timeouts = @ + 1]
          /\ UNCHANGED <<disk, mesh>> /\ job[j].pc = "whohas"
      BY <1>3, <2>1 DEF WhoHasTimeout, At
    <3>2. job'[j].pc # "xfer" /\ \A k \in Job \ {j} : job'[k] = job[k]
      BY <1>c, <3>1 DEF JobOK, JobState
    <3>3. QED
      BY <1>d, <1>l, <3>1, <3>2
  <2>2. CASE ~(job[j].left > 1 /\ job[j].timeouts + 1 < MaxAttempts)
    BY <1>3, <1>a, <1>d, <1>q, <2>2 DEF WhoHasTimeout, GiveUp, disk
  <2>3. QED
    BY <2>1, <2>2
<1>4. ASSUME NEW j \in Job, NEW m \in net, Info(j, m)
      PROVE  Whole'
  <2> DEFINE found == job[j].found \/ m.type = "ack"
             left == job[j].left - 1
  <2>1. job[j].pc = "info"
    BY <1>4 DEF Info, At
  <2>2. CASE /\ left > 0
             /\ job' = [job EXCEPT ![j].left = left, ![j].found = found]
             /\ net' = net \ {m}
             /\ UNCHANGED <<disk, handlers>>
    <3>1. job'[j].pc # "xfer" /\ \A k \in Job \ {j} : job'[k] = job[k]
      BY <1>c, <2>1, <2>2 DEF JobOK, JobState
    <3>2. QED
      BY <1>d, <2>2, <3>1, JobStepWhole
  <2>3. CASE /\ left = 0 /\ ~found
             /\ Finish(j, "error")
             /\ net' = Abandon(j, net) /\ handlers' = AbandonHandlers(j)
             /\ UNCHANGED disk
    BY <1>d, <1>g, <1>q, <2>3 DEF disk
  <2>4. CASE /\ left = 0 /\ found
             /\ job' = [job EXCEPT ![j] = [Fresh EXCEPT !.pc = "queued",
                                                        !.todo = PartsOf(j.file)]]
             /\ transfer' = [transfer EXCEPT ![j.node][j.file] =
                                [dir |-> j, parts |-> {}, inflight |-> NoPart]]
             /\ dir' = [dir EXCEPT ![j] = [p \in PartsOf(j.file) |-> Absent]]
             /\ net' = Abandon(j, net) /\ handlers' = AbandonHandlers(j)
             /\ UNCHANGED <<file, deleted>>
    <3>1. job'[j].pc # "xfer" /\ \A k \in Job \ {j} : job'[k] = job[k]
      BY <2>4 DEF JobOK, Fresh
    <3>2. WholeDirs'
      BY <2>4 DEF Whole, WholeDirs, DiskOK, Shape
    <3>3. QED
      BY <1>q, <2>4, <3>1, <3>2
  <2>5. QED
    BY <1>4, <2>2, <2>3, <2>4 DEF Info
<1>5. ASSUME NEW j \in Job, NEW m \in net, WhoHasAck(j, m)
      PROVE  Whole'
  <2> DEFINE r == [type |-> "xfer", from |-> j.node, to |-> m.from, job |-> j,
                   file |-> j.file, part |-> job[j].part]
  <2>1. /\ net' = Abandon(j, net) \cup {r} /\ handlers' = AbandonHandlers(j) /\ UNCHANGED disk
        /\ \A k \in Job \ {j} : job'[k] = job[k]
    BY <1>5 DEF WhoHasAck, JobOK
  <2>2. FoundExists'
    BY <1>d, <2>1, AbandonedFacts
       DEF Whole, FoundExists, HandlersOK, Handler, Requests, Request
  <2>3. OnlyXfer'
    <3>1. ASSUME NEW k \in Job, NEW x \in net', x.job = k, job'[k].pc = "xfer"
          PROVE  x.type \notin {"info", "whohas"} /\ (x.type = "ack" => x.data = "good")
      <4>1. CASE x = r
        BY <4>1
      <4>2. CASE x # r
        BY <2>1, <3>1, <4>2, AbandonedFacts DEF Whole, OnlyXfer
      <4>3. QED
        BY <4>1, <4>2
    <3>2. ASSUME NEW k \in Job, NEW h \in handlers', h.req.job = k, job'[k].pc = "xfer"
          PROVE  h.req.type = "xfer"
      BY <2>1, <3>2, AbandonedFacts DEF Whole, OnlyXfer
    <3>3. QED
      BY <3>1, <3>2 DEF OnlyXfer
  <2>4. QED
    BY <1>d, <2>1, <2>2, <2>3 DEF Whole
<1>6. ASSUME NEW j \in Job, NEW m \in net, WhoHasNack(j, m)
      PROVE  Whole'
  <2>1. CASE job[j].left > 1
    <3>1. /\ job' = [job EXCEPT ![j].left = @ - 1] /\ net' = net \ {m}
          /\ UNCHANGED <<handlers, disk>> /\ job[j].pc = "whohas"
      BY <1>6, <2>1 DEF WhoHasNack, At
    <3>2. job'[j].pc # "xfer" /\ \A k \in Job \ {j} : job'[k] = job[k]
      BY <1>c, <3>1 DEF JobOK, JobState
    <3>3. QED
      BY <1>d, <3>1, <3>2, JobStepWhole
  <2>2. CASE ~(job[j].left > 1)
    BY <1>6, <1>a, <1>d, <1>q, <2>2 DEF WhoHasNack, GiveUp, disk
  <2>3. QED
    BY <2>1, <2>2
<1>7. ASSUME NEW j \in Job, NEW m \in net, XferAck(j, m)
      PROVE  Whole'
  <2>1. job[j].part \in PartsOf(j.file) /\ m.data = "good"
    BY <1>7 DEF XferAck, At, JobOK, Whole, OnlyXfer
  <2>2. CASE Writable(j.node, j.file)
    <3>1. WritePart(j.node, j.file, job[j].part, "good") /\ Go(j, "parts") /\ GiveUp(j)
      BY <1>7, <2>1, <2>2 DEF XferAck
    <3>2. WholeDirs'
      BY <1>c, <2>1, <2>2, <3>1, WritePartWhole DEF Whole
    <3>3. QED
      BY <1>g, <1>q, <3>1, <3>2 DEF GiveUp, WritePart
  <2>3. CASE ~Writable(j.node, j.file)
    BY <1>7, <1>a, <1>d, <1>q, <2>3 DEF XferAck, GiveUp, disk
  <2>4. QED
    BY <2>2, <2>3
<1>8. ASSUME NEW j \in Job, XferFails(j)
      PROVE  Whole'
  BY <1>8, <1>a, <1>d, <1>q DEF XferFails, GiveUp, disk
<1>9. ASSUME NEW j \in Job, Touch(j)
      PROVE  Whole'
  <2>1. PartsOf(j.file) = {}
    BY <1>9 DEF Touch, PartsOf
  <2>2. \A n \in Nodes, f \in Files :
           file'[n][f] = IF n = j.node /\ f = j.file THEN [p \in {} |-> "good"] ELSE file[n][f]
    BY <1>9, <1>c DEF Touch, DiskOK, Shape
  <2>3. [p \in {} |-> "good"] # Absent
    <3>1. [p \in {} |-> "good"] \in [PartsOf(j.file) -> Data \cup {Absent}]
      BY <2>1
    <3>2. QED
      BY <1>c, <3>1, AbsentAssumption
  <2>4. WholeFiles' /\ \A n \in Nodes, f \in Files : Exists(n, f) => Exists(n, f)'
    BY <2>1, <2>2, <2>3 DEF Whole, WholeFiles, Exists
  <2>5. WholeDirs'
    BY <1>9 DEF Touch, Whole, WholeDirs
  <2>6. QED
    BY <1>9, <1>g, <1>l, <2>4, <2>5 DEF Touch
<1>10. ASSUME NEW j \in Job, Dequeue(j)
      PROVE  Whole'
  BY <1>10, <1>d, <1>g, <1>l, <1>p DEF Dequeue
<1>11. ASSUME NEW j \in Job, NextPart(j)
      PROVE  Whole'
  <2>1. job'[j].pc # "xfer" /\ \A k \in Job \ {j} : job'[k] = job[k]
    BY <1>11, <1>c DEF NextPart, JobOK, JobState
  <2>2. QED
    BY <1>11, <1>d, <1>l, <2>1 DEF NextPart
<1>12. ASSUME NEW j \in Job, GetPart(j)
      PROVE  Whole'
  <2>1. CASE TransferOf(j) = Absent
    BY <1>12, <1>p, <2>1 DEF GetPart
  <2>2. CASE TransferOf(j) # Absent /\ job[j].part \in TransferOf(j).parts
    BY <1>12, <1>d, <1>g, <1>l, <2>2 DEF GetPart
  <2>3. CASE TransferOf(j) # Absent /\ job[j].part \notin TransferOf(j).parts
    <3>1. /\ job' = [job EXCEPT ![j].pc = "whohas", ![j].left = Cardinality(Nodes) - 1]
          /\ net' = Broadcast(j, "whohas", job[j].part, net)
          /\ UNCHANGED <<file, dir, deleted, handlers>>
      BY <1>12, <2>3 DEF GetPart
    <3>2. job'[j].pc # "xfer" /\ \A k \in Job \ {j} : job'[k] = job[k]
      BY <1>c, <3>1 DEF JobOK, JobState
    <3>3. \A m \in net' : m.job \in Job \ {j} => m \in net
      BY <3>1 DEF Broadcast
    <3>4. WholeDirs'
      BY <3>1 DEF Whole, WholeDirs
    <3>5. QED
      BY <1>f, <3>1, <3>2, <3>3, <3>4, JobStepWhole
  <2>4. QED
    BY <2>1, <2>2, <2>3
<1>13. ASSUME NEW j \in Job, Check(j)
      PROVE  Whole'
  BY <1>13, <1>d, <1>g, <1>l, <1>p DEF Check
<1>14. ASSUME NEW j \in Job, Assemble(j)
      PROVE  Whole'
  <2>1. CASE TransferOf(j) = Absent
    BY <1>14, <1>p, <2>1 DEF Assemble
  <2>2. CASE TransferOf(j) # Absent
    <3> DEFINE parts == dir[TransferOf(j).dir]
    <3>1. TransferOf(j).dir \in Job /\ TransferOf(j).dir.file = j.file
      BY <1>c, <2>2 DEF TransferOf, DiskOK, TransfersOK, Transfer
    <3>2. WholeFiles' /\ \A n \in Nodes, f \in Files : Exists(n, f) => Exists(n, f)'
      <4>1. CASE parts # Absent /\ \A p \in PartsOf(j.file) : parts[p] # Absent
        <5>1. \A p \in PartsOf(j.file) : parts[p] = "good"
          BY <3>1, <4>1 DEF Whole, WholeDirs
        <5>2. file' = [file EXCEPT ![j.node][j.file] = parts]
          BY <1>14, <2>2, <4>1 DEF Assemble
        <5>3. \A n \in Nodes, f \in Files :
                 file'[n][f] = IF n = j.node /\ f = j.file THEN parts ELSE file[n][f]
          BY <1>c, <5>2 DEF DiskOK, Shape
        <5>4. QED
          BY <4>1, <5>1, <5>3 DEF Whole, WholeFiles, Exists
      <4>2. CASE ~(parts # Absent /\ \A p \in PartsOf(j.file) : parts[p] # Absent)
        BY <1>14, <1>f, <2>2, <4>2 DEF Assemble
      <4>3. QED
        BY <4>1, <4>2
    <3>3. UNCHANGED <<dir, mesh>> /\ Finish(j, "release")
      BY <1>14, <2>2 DEF Assemble
    <3>4. WholeDirs'
      BY <3>3 DEF Whole, WholeDirs
    <3>5. QED
      BY <1>g, <1>l, <3>2, <3>3, <3>4
  <2>3. QED
    BY <2>1, <2>2
<1>15. ASSUME NEW j \in Job, Release(j)
      PROVE  Whole'
  BY <1>15, <1>d, <1>g, <1>l DEF Release
<1>16. ASSUME NEW j \in Job, DestroyTempTransfer(j)
      PROVE  Whole'
  <2>1. UNCHANGED <<file, mesh>> /\ Go(j, "done")
    BY <1>16 DEF DestroyTempTransfer
  <2>2. \A k \in Job : dir'[k] \in {dir[k], Absent}
    BY <1>16 DEF DestroyTempTransfer, DiskOK, Shape
  <2>3. WholeDirs'
    BY <2>2 DEF Whole, WholeDirs
  <2>4. QED
    BY <1>f, <1>g, <1>l, <2>1, <2>3
<1>17. ASSUME NEW m \in net, HandleInfo(m)
      PROVE  Whole'
  <2>1. m \in Request /\ m.type = "info" /\ UNCHANGED <<disk, job, handlers>>
    BY <1>17 DEF HandleInfo
  <2>2. \A x \in net' : x \in net \/ (x.job = m.job /\ m.job # Absent)
    <3> DEFINE type == IF Exists(m.to, m.file) THEN "ack" ELSE "nack"
               r == [type |-> type, from |-> m.to, job |-> m.job, data |-> "empty"]
    <3>1. net' = Respond(m, type, "empty", net \ {m})
      BY <1>17 DEF HandleInfo
    <3>2. r.job = m.job
      OBVIOUS
    <3>3. m.job = Absent => net' = net \ {m}
      BY <3>1 DEF Respond
    <3>4. m.job # Absent => net' = (net \ {m}) \cup {r}
      BY <3>1 DEF Respond
    <3>5. QED
      BY <3>2, <3>3, <3>4
  <2>3. FoundExists'
    BY <1>d, <2>1 DEF Whole, FoundExists, HandlersOK, Handler, Requests, Request
  <2>4. OnlyXfer'
    BY <2>1, <2>2 DEF Whole, OnlyXfer
  <2>5. QED
    BY <1>d, <2>1, <2>3, <2>4 DEF Whole
<1>18. ASSUME NEW m \in net, HandlePart(m)
      PROVE  Whole'
  <2> DEFINE h == [req |-> m, found |-> Exists(m.to, m.file),
                   held |-> Exists(m.to, m.file) \/ HasPart(m.to, m.file, m.part)]
  <2>1. m \in Request /\ handlers' = handlers \cup {h} /\ net' = net \ {m} /\ UNCHANGED <<disk, job>>
    BY <1>18 DEF HandlePart
  <2>2. h.req = m /\ (h.found => Exists(h.req.to, h.req.file))
    OBVIOUS
  <2>3. FoundExists'
    <3>1. ASSUME NEW g \in handlers', g.found PROVE Exists(g.req.to, g.req.file)
      BY <2>1, <2>2, <3>1 DEF Whole, FoundExists
    <3>2. QED
      BY <1>d, <2>1, <3>1 DEF FoundExists, HandlersOK, Handler, Requests, Request
  <2>4. OnlyXfer'
    <3>1. \A j \in Job : job[j].pc = "xfer" /\ m.job = j => m.type = "xfer"
      BY <1>18 DEF HandlePart, Whole, OnlyXfer
    <3>2. QED
      BY <2>1, <2>2, <3>1 DEF Whole, OnlyXfer
  <2>5. QED
    BY <1>d, <2>1, <2>3, <2>4 DEF Whole
<1>19. ASSUME NEW h \in handlers, HandlePartReply(h)
      PROVE  Whole'
  <2> DEFINE data == IF Acks(h) /\ h.req.type = "xfer" THEN ReadPart(h) ELSE "empty"
             n == h.req.to
             f == h.req.file
             p == h.req.part
             type == IF Acks(h) THEN "ack" ELSE "nack"
             r == [type |-> type, from |-> n, job |-> h.req.job, data |-> data]
  <2>1. n \in Nodes /\ f \in Files /\ p \in PartsOf(f)
    BY DEF HandlersOK, Handler, Requests, Request
  <2>2. /\ handlers' = handlers \ {h} /\ UNCHANGED <<disk, job>>
        /\ net' = Respond(h.req, type, data, net)
    BY <1>19 DEF HandlePartReply
  <2>3. Acks(h) => ReadPart(h) = "good"
    <3>1. CASE h.found
      BY <2>1, <3>1 DEF ReadPart, Whole, FoundExists, WholeFiles
    <3>2. CASE ~h.found /\ Acks(h)
      <4>1. transfer[n][f] # Absent /\ p \in transfer[n][f].parts
        BY <3>2 DEF Acks, HasPart
      <4>2. transfer[n][f].dir \in Job /\ transfer[n][f].dir.file = f
        BY <2>1, <4>1 DEF DiskOK, TransfersOK, Transfer
      <4>3. dir[transfer[n][f].dir] # Absent /\ dir[transfer[n][f].dir][p] # Absent
        BY <2>1, <4>1 DEF DiskOK, PartsOnDisk
      <4>4. QED
        BY <2>1, <3>2, <4>2, <4>3 DEF ReadPart, Whole, WholeDirs
    <3>3. QED
      BY <3>1, <3>2 DEF Acks
  <2>4. \A x \in net' : x \in net \/ x = r
    BY <2>2 DEF Respond
  <2>5. r.job = h.req.job /\ r.type \in {"ack", "nack"}
        /\ (r.type = "ack" /\ h.req.type = "xfer" => r.data = "good")
    BY <2>3
  <2>6. FoundExists'
    BY <1>d, <2>2 DEF Whole, FoundExists, HandlersOK, Handler, Requests, Request
  <2>7. OnlyXfer'
    <3>1. \A j \in Job : job[j].pc = "xfer" /\ h.req.job = j => h.req.type = "xfer"
      BY DEF Whole, OnlyXfer
    <3>2. QED
      BY <2>2, <2>4, <2>5, <3>1 DEF Whole, OnlyXfer
  <2>8. QED
    BY <1>d, <2>2, <2>6, <2>7 DEF Whole
<1>20. ASSUME NEW s \in snoops, MITM(s)
      PROVE  Whole'
  <2>1. s.node \in Nodes /\ s.file \in Files /\ s.part \in PartsOf(s.file)
    BY DEF SnoopsOK
  <2>2. UNCHANGED <<file, job, net, handlers>>
    BY <1>20 DEF MITM, WritePart, disk
  <2>3. WholeDirs'
    BY <1>20, <1>d, <2>1, WritePartWhole DEF MITM, Whole
  <2>4. FoundExists' /\ OnlyXfer'
    BY <1>f, <2>2 DEF Whole, FoundExists, OnlyXfer, HandlersOK, Handler, Requests, Request
  <2>5. QED
    BY <1>f, <2>2, <2>3, <2>4 DEF Whole
<1>21. QED
  BY <1>1, <1>2, <1>3, <1>4, <1>5, <1>6, <1>7, <1>8, <1>9, <1>10, <1>11, <1>12, <1>13, <1>14,
      <1>15, <1>16, <1>17, <1>18, <1>19, <1>20 DEF Next, Timeout, Receive, GetParts, Handlers

----------------------------------------------------------------------------
(* OwnTransfer and HeldIsServed, when calls of Get on a node do not        *)
(* overlap.                                                                *)

(* Steps that make and destroy no transfer and forget none of its parts, *)
SameTransfers ==
    \A n \in Nodes, f \in Files :
        /\ transfer'[n][f] = Absent <=> transfer[n][f] = Absent
        /\ transfer[n][f] # Absent =>
              /\ transfer'[n][f].dir = transfer[n][f].dir
              /\ transfer[n][f].parts \subseteq transfer'[n][f].parts

(* that begin no handlePart, *)
SameHandlers ==
    \A h \in handlers' : \E g \in handlers :
        /\ h.found = g.found /\ h.held = g.held
        /\ h.req.to = g.req.to /\ h.req.file = g.req.file /\ h.req.part = g.req.part

(* and in which no call of Get and no getParts begins or ends. *)
SameJobs ==
    \A k \in Job : /\ Underway(k)' = Underway(k)
                   /\ job'[k].pc = "info" => job[k].pc = "info"

LEMMA SameOwn ==
    ASSUME TypeInv, OwnInv, SameTransfers, SameJobs, panicked' = panicked
    PROVE  OwnInv'
<1> DEFINE UnderwayNext(j) == job'[j].pc \notin {"idle", "info", "done", "error"}
<1>1. \A j \in Job : j.node \in Nodes /\ j.file \in Files
  BY JobFacts
<1>2. \A n \in Nodes, f \in Files : transfer[n][f] # Absent => transfer[n][f].dir \in Job
  BY DEF TypeInv, DiskOK, TransfersOK, Transfer
<1>3. panicked' = {} /\ \A j \in Job : Underway(j)' =>
         TransferOf(j)' # Absent /\ TransferOf(j)'.dir = j
  BY <1>1 DEF OwnInv, OwnTransfer, Underway, SameTransfers, SameJobs, TransferOf
<1>4. \A n \in Nodes, f \in Files : transfer'[n][f] # Absent => UnderwayNext(transfer'[n][f].dir)
  <2>1. ASSUME NEW n \in Nodes, NEW f \in Files, transfer'[n][f] # Absent
        PROVE  UnderwayNext(transfer'[n][f].dir)
    <3>1. transfer[n][f] # Absent /\ transfer'[n][f].dir = transfer[n][f].dir
      BY <2>1 DEF SameTransfers
    <3>2. transfer[n][f].dir \in Job /\ Underway(transfer[n][f].dir)
      BY <1>2, <3>1 DEF OwnInv
    <3>3. QED
      BY <3>1, <3>2 DEF SameJobs, Underway
  <2>2. QED
    BY <2>1
<1>5. ASSUME NEW j \in Job, job'[j].pc = "info"
      PROVE  /\ TransferOf(j)' = Absent
             /\ \A k \in Job : k.node = j.node /\ k # j => job'[k].pc # "info"
  BY <1>1, <1>5 DEF OwnInv, SameTransfers, SameJobs, TransferOf
<1>6. QED
  BY <1>3, <1>4, <1>5 DEF OwnInv, OwnTransfer, Underway

LEMMA SameHeld ==
    ASSUME TypeInv, HeldIsServed, SameTransfers, SameHandlers
    PROVE  HeldIsServed'
<1>1. ASSUME NEW h \in handlers', h.held
      PROVE  Acks(h)'
  <2>1. PICK g \in handlers : /\ h.found = g.found /\ h.held = g.held
                              /\ h.req.to = g.req.to /\ h.req.file = g.req.file
                              /\ h.req.part = g.req.part
    BY DEF SameHandlers
  <2>2. Acks(g) /\ g.req.to \in Nodes /\ g.req.file \in Files
    BY <1>1, <2>1 DEF HeldIsServed, TypeInv, HandlersOK, Handler, Requests, Request
  <2>3. QED
    BY <2>1, <2>2 DEF Acks, HasPart, SameTransfers
<1>2. QED
  BY <1>1 DEF HeldIsServed

(* The variables that bring these about. *)
LEMMA SameDisk ==
    ASSUME UNCHANGED transfer
    PROVE  SameTransfers
  BY DEF SameTransfers

LEMMA SameMesh ==
    ASSUME handlers' \subseteq handlers
    PROVE  SameHandlers
  BY DEF SameHandlers

LEMMA SameAbandoned ==
    ASSUME TypeInv, NEW j \in Job, handlers' = AbandonHandlers(j)
    PROVE  SameHandlers
  BY AbandonedFacts DEF SameHandlers

LEMMA SameWritten ==
    ASSUME DiskOK, NEW n \in Nodes, NEW f \in Files, NEW p \in AllParts, NEW data,
           Writable(n, f), WritePart(n, f, p, data)
    PROVE  SameTransfers
<1> DEFINE t == transfer[n][f]
<1>1. t \in Transfer /\ t # Absent
  BY DEF Writable, DiskOK, TransfersOK
<1>2. /\ transfer'[n][f] = [t EXCEPT !.parts = @ \cup {p}]
      /\ \A m \in Nodes, g \in Files : <<m, g>> # <<n, f>> => transfer'[m][g] = transfer[m][g]
  BY DEF WritePart, DiskOK, Shape
<1>3. transfer'[n][f].dir = t.dir /\ transfer'[n][f].parts = t.parts \cup {p}
  BY <1>1, <1>2 DEF Transfer
<1>4. transfer'[n][f] # Absent
  BY <1>1, <1>2, AbsentAssumption DEF Transfer
<1>5. QED
  BY <1>1, <1>2, <1>3, <1>4 DEF SameTransfers

(* No step takes a transfer from the getParts that uses it, or a part from *)
(* a handlePart that has found it: Get makes a transfer only where there   *)
(* is none, and DestroyTempTransfer destroys its own and waits for the     *)
(* handlers.                                                               *)
LEMMA OwnStep ==
    ASSUME ~Overlap, TypeInv, TypeInv', OwnInv, HeldIsServed, [Next]_vars
    PROVE  OwnInv' /\ HeldIsServed'
<1> USE DEF TypeInv
<1>c. ASSUME NEW j \in Job
      PROVE  /\ j.node \in Nodes /\ j.file \in Files /\ job[j] \in JobState /\ DOMAIN job = Job
             /\ Underway(j) => TransferOf(j) # Absent /\ TransferOf(j).dir = j
  BY <1>c, JobFacts DEF JobOK, OwnInv, OwnTransfer, Underway
<1>q. ASSUME SameTransfers, SameHandlers, SameJobs, panicked' = panicked
      PROVE  OwnInv' /\ HeldIsServed'
  BY <1>q, SameOwn, SameHeld
<1>g. ASSUME NEW j \in Job, NEW pc \in {"parts", "release", "destroy"}, Underway(j),
             Go(j, pc) \/ Finish(j, pc)
      PROVE  SameJobs
  BY <1>c, <1>g DEF Go, Finish, Fresh, Underway, SameJobs
<1>e. ASSUME NEW j \in Job, NEW pc \in {"done", "error"}, job[j].pc \in {"idle", "info"},
             Finish(j, pc)
      PROVE  SameJobs
  BY <1>c, <1>e DEF Finish, Fresh, Underway, SameJobs
<1>a. ASSUME NEW j \in Job, Underway(j), AttemptFails(j)
      PROVE  SameJobs
  <2>1. job'[j].pc \in {"part", "check"} /\ \A k \in Job \ {j} : job'[k] = job[k]
    BY <1>a, <1>c DEF AttemptFails, JobState
  <2>2. QED
    BY <1>a, <2>1 DEF Underway, SameJobs
<1>j. ASSUME UNCHANGED job PROVE SameJobs
  BY <1>j DEF SameJobs, Underway
<1>1. ASSUME NEW j \in Job, Get(j)
      PROVE  OwnInv' /\ HeldIsServed'
  <2>1. job[j].pc = "idle" /\ UNCHANGED <<disk, handlers, panicked>>
    BY <1>1 DEF Get, At
  <2>2. SameTransfers /\ SameHandlers
    BY <2>1, SameDisk, SameMesh DEF disk
  <2>3. CASE Exists(j.node, j.file) \/ TransferOf(j) # Absent
    BY <1>1, <1>e, <1>q, <2>1, <2>2, <2>3 DEF Get
  <2>4. CASE ~(Exists(j.node, j.file) \/ TransferOf(j) # Absent)
    <3>1. /\ job' = [job EXCEPT ![j].pc = "info", ![j].left = Cardinality(Nodes) - 1]
          /\ \A k \in Job : k.node = j.node => job[k].pc # "info"
      BY <1>1, <2>4 DEF Get
    <3>2. job'[j].pc = "info" /\ \A k \in Job \ {j} : job'[k] = job[k]
      BY <1>c, <3>1 DEF JobState
    <3>3. UNCHANGED transfer /\ UNCHANGED panicked
      BY <2>1 DEF disk
    <3>4. OwnTransfer'
      BY <1>c, <3>2, <3>3 DEF OwnInv, OwnTransfer, TransferOf
    <3>5. \A n \in Nodes, f \in Files : transfer[n][f] # Absent =>
             transfer[n][f].dir \in Job \ {j} /\ Underway(transfer[n][f].dir)
      BY <2>1 DEF OwnInv, Underway, DiskOK, TransfersOK, Transfer
    <3>6. \A n \in Nodes, f \in Files : transfer[n][f] # Absent =>
             job'[transfer[n][f].dir].pc \notin {"idle", "info", "done", "error"}
      BY <3>2, <3>5 DEF Underway
    <3>7. \A i \in Job : job'[i].pc = "info" =>
             /\ TransferOf(i) = Absent
             /\ \A k \in Job : k.node = i.node /\ k # i => job'[k].pc # "info"
      BY <2>4, <3>1, <3>2 DEF OwnInv
    <3>8. OwnInv'
      BY <3>3, <3>4, <3>6, <3>7 DEF OwnInv, Underway, TransferOf
    <3>9. QED
      BY <2>2, <3>8, SameHeld
  <2>5. QED
    BY <2>3, <2>4
<1>2. ASSUME NEW j \in Job, InfoTimeout(j)
      PROVE  OwnInv' /\ HeldIsServed'
  BY <1>2, <1>e, <1>q, SameDisk, SameAbandoned DEF InfoTimeout, At, GiveUp, disk
<1>3. ASSUME NEW j \in Job, WhoHasTimeout(j)
      PROVE  OwnInv' /\ HeldIsServed'
  <2>1. job[j].pc = "whohas" /\ UNCHANGED <<transfer, panicked>> /\ Underway(j)
    BY <1>3 DEF WhoHasTimeout, At, disk, Underway
  <2>2. CASE job[j].left > 1 /\ job[j].timeouts + 1 < MaxAttempts
    <3>1. /\ job' = [job EXCEPT ![j].left = @ - 1, ![j].timeouts = @ + 1]
          /\ UNCHANGED handlers
      BY <1>3, <2>2 DEF WhoHasTimeout, mesh
    <3>2. \A k \in Job : job'[k].pc = job[k].pc
      BY <1>c, <3>1 DEF JobState, JobOK
    <3>3. SameJobs
      BY <3>2 DEF SameJobs, Underway
    <3>4. QED
      BY <1>q, <2>1, <3>1, <3>3, SameDisk, SameMesh
  <2>3. CASE ~(job[j].left > 1 /\ job[j].timeouts + 1 < MaxAttempts)
    <3>1. AttemptFails(j) /\ GiveUp(j)
      BY <1>3, <2>3 DEF WhoHasTimeout
    <3>2. QED
      BY <1>a, <1>q, <2>1, <3>1, SameDisk, SameAbandoned DEF GiveUp
  <2>4. QED
    BY <2>2, <2>3
<1>4. ASSUME NEW j \in Job, NEW m \in net, Info(j, m)
      PROVE  OwnInv' /\ HeldIsServed'
  <2> DEFINE found == job[j].found \/ m.type = "ack"
             left == job[j].left - 1
  <2>1. job[j].pc = "info" /\ panicked' = panicked
    BY <1>4 DEF Info, At
  <2>2. CASE /\ left > 0
             /\ job' = [job EXCEPT ![j].left = left, ![j].found = found]
             /\ net' = net \ {m}
             /\ UNCHANGED <<disk, handlers>>
    <3>1. \A k \in Job : job'[k].pc = job[k].pc
      BY <1>c, <2>2 DEF JobState, JobOK
    <3>2. SameJobs
      BY <3>1 DEF SameJobs, Underway
    <3>3. QED
      BY <1>q, <2>1, <2>2, <3>2, SameDisk, SameMesh DEF disk
  <2>3. CASE /\ left = 0 /\ ~found
             /\ Finish(j, "error")
             /\ net' = Abandon(j, net) /\ handlers' = AbandonHandlers(j)
             /\ UNCHANGED disk
    BY <1>e, <1>q, <2>1, <2>3, SameDisk, SameAbandoned DEF disk
  <2>4. CASE /\ left = 0 /\ found
             /\ job' = [job EXCEPT ![j] = [Fresh EXCEPT !.pc = "queued",
                                                        !.todo = PartsOf(j.file)]]
             /\ transfer' = [transfer EXCEPT ![j.node][j.file] =
                                [dir |-> j, parts |-> {}, inflight |-> NoPart]]
             /\ dir' = [dir EXCEPT ![j] = [p \in PartsOf(j.file) |-> Absent]]
             /\ net' = Abandon(j, net) /\ handlers' = AbandonHandlers(j)
             /\ UNCHANGED <<file, deleted>>
    <3> DEFINE t == [dir |-> j, parts |-> {}, inflight |-> NoPart]
    <3>1. job'[j].pc = "queued" /\ \A k \in Job \ {j} : job'[k] = job[k]
      BY <1>c, <2>4 DEF Fresh
    <3>2. /\ transfer'[j.node][j.file] = t
          /\ \A n \in Nodes, f \in Files : <<n, f>> # <<j.node, j.file>> =>
                transfer'[n][f] = transfer[n][f]
      BY <1>c, <2>4 DEF DiskOK, Shape
    <3>3. t \in Transfer /\ t # Absent /\ t.dir = j
      BY AbsentAssumption DEF Transfer
    <3>4. TransferOf(j) = Absent /\ \A k \in Job : k.node = j.node /\ k # j => job[k].pc # "info"
      BY <2>1 DEF OwnInv
    <3>5. ASSUME NEW k \in Job, job'[k].pc \notin {"idle", "info", "done", "error"}
          PROVE  transfer'[k.node][k.file] # Absent /\ transfer'[k.node][k.file].dir = k
      <4>1. CASE k = j
        BY <3>2, <3>3, <4>1
      <4>2. CASE k # j
        <5>1. Underway(k) /\ TransferOf(k) # Absent /\ TransferOf(k).dir = k
          BY <1>c, <3>1, <3>5, <4>2 DEF Underway
        <5>2. <<k.node, k.file>> # <<j.node, j.file>>
          BY <3>4, <5>1 DEF TransferOf
        <5>3. QED
          BY <1>c, <3>2, <5>1, <5>2 DEF TransferOf
      <4>3. QED
        BY <4>1, <4>2
    <3>6. ASSUME NEW n \in Nodes, NEW f \in Files, transfer'[n][f] # Absent
          PROVE  job'[transfer'[n][f].dir].pc \notin {"idle", "info", "done", "error"}
      <4>1. CASE <<n, f>> = <<j.node, j.file>>
        BY <3>1, <3>2, <3>3, <4>1
      <4>2. CASE <<n, f>> # <<j.node, j.file>>
        <5>1. transfer'[n][f] = transfer[n][f]
          BY <3>2, <4>2
        <5>2. transfer[n][f].dir \in Job /\ Underway(transfer[n][f].dir)
          BY <3>6, <5>1 DEF OwnInv, DiskOK, TransfersOK, Transfer
        <5>3. transfer[n][f].dir # j
          BY <2>1, <5>2 DEF Underway
        <5>4. QED
          BY <3>1, <5>1, <5>2, <5>3 DEF Underway
      <4>3. QED
        BY <4>1, <4>2
    <3>7. ASSUME NEW i \in Job, job'[i].pc = "info"
          PROVE  /\ transfer'[i.node][i.file] = Absent
                 /\ \A k \in Job : k.node = i.node /\ k # i => job'[k].pc # "info"
      <4>1. i # j /\ job[i].pc = "info"
        BY <3>1, <3>7
      <4>2. TransferOf(i) = Absent /\ \A k \in Job : k.node = i.node /\ k # i => job[k].pc # "info"
        BY <4>1 DEF OwnInv
      <4>3. i.node # j.node
        BY <3>4, <4>1
      <4>4. QED
        BY <1>c, <3>1, <3>2, <4>2, <4>3 DEF TransferOf
    <3>8. OwnInv'
      BY <2>1, <3>5, <3>6, <3>7 DEF OwnInv, OwnTransfer, Underway, TransferOf
    <3>9. HeldIsServed'
      <4>1. \A n \in Nodes, f \in Files : \A p : HasPart(n, f, p) => HasPart(n, f, p)'
        BY <3>2, <3>4 DEF HasPart, TransferOf
      <4>2. SameHandlers
        BY <2>4, SameAbandoned
      <4>3. ASSUME NEW h \in handlers', h.held PROVE Acks(h)'
        <5>1. PICK g \in handlers : /\ h.found = g.found /\ h.held = g.held
                                    /\ h.req.to = g.req.to /\ h.req.file = g.req.file
                                    /\ h.req.part = g.req.part
          BY <4>2 DEF SameHandlers
        <5>2. Acks(g) /\ g.req.to \in Nodes /\ g.req.file \in Files
          BY <4>3, <5>1 DEF HeldIsServed, HandlersOK, Handler, Requests, Request
        <5>3. h.found \/ HasPart(h.req.to, h.req.file, h.req.part)
          BY <5>1, <5>2 DEF Acks
        <5>4. QED
          BY <4>1, <5>1, <5>2, <5>3 DEF Acks, HasPart
      <4>4. QED
        BY <4>3 DEF HeldIsServed
    <3>10. QED
      BY <3>8, <3>9
  <2>5. QED
    BY <1>4, <2>2, <2>3, <2>4 DEF Info
<1>5. ASSUME NEW j \in Job, NEW m \in net, WhoHasAck(j, m)
      PROVE  OwnInv' /\ HeldIsServed'
  <2>1. job'[j].pc = "xfer" /\ Underway(j) /\ \A k \in Job \ {j} : job'[k] = job[k]
    BY <1>5, <1>c DEF WhoHasAck, At, JobState, Underway
  <2>2. SameJobs
    BY <2>1 DEF SameJobs, Underway
  <2>3. QED
    BY <1>5, <1>q, <2>2, SameDisk, SameAbandoned DEF WhoHasAck, disk
<1>6. ASSUME NEW j \in Job, NEW m \in net, WhoHasNack(j, m)
      PROVE  OwnInv' /\ HeldIsServed'
  <2>1. job[j].pc = "whohas" /\ UNCHANGED <<transfer, panicked>> /\ Underway(j)
    BY <1>6 DEF WhoHasNack, At, disk, Underway
  <2>2. CASE job[j].left > 1
    <3>1. job' = [job EXCEPT ![j].left = @ - 1] /\ UNCHANGED handlers
      BY <1>6, <2>2 DEF WhoHasNack
    <3>2. \A k \in Job : job'[k].pc = job[k].pc
      BY <1>c, <3>1 DEF JobState, JobOK
    <3>3. SameJobs
      BY <3>2 DEF SameJobs, Underway
    <3>4. QED
      BY <1>q, <2>1, <3>1, <3>3, SameDisk, SameMesh
  <2>3. CASE ~(job[j].left > 1)
    <3>1. AttemptFails(j) /\ GiveUp(j)
      BY <1>6, <2>3 DEF WhoHasNack
    <3>2. QED
      BY <1>a, <1>q, <2>1, <3>1, SameDisk, SameAbandoned DEF GiveUp
  <2>4. QED
    BY <2>2, <2>3
<1>7. ASSUME NEW j \in Job, NEW m \in net, XferAck(j, m)
      PROVE  OwnInv' /\ HeldIsServed'
  <2>1. Underway(j) /\ job[j].part \in PartsOf(j.file) /\ panicked' = panicked /\ GiveUp(j)
    BY <1>7 DEF XferAck, At, JobOK, Underway
  <2>2. SameHandlers
    BY <2>1, SameAbandoned DEF GiveUp
  <2>3. CASE Writable(j.node, j.file)
    <3>1. WritePart(j.node, j.file, job[j].part, m.data) /\ Go(j, "parts")
      BY <1>7, <2>3 DEF XferAck
    <3>2. SameTransfers
      BY <1>c, <2>1, <2>3, <3>1, PartsFacts, SameWritten
    <3>3. QED
      BY <1>g, <1>q, <2>1, <2>2, <3>1, <3>2
  <2>4. CASE ~Writable(j.node, j.file)
    BY <1>7, <1>a, <1>q, <2>1, <2>2, <2>4, SameDisk DEF XferAck, disk
  <2>5. QED
    BY <2>3, <2>4
<1>8. ASSUME NEW j \in Job, XferFails(j)
      PROVE  OwnInv' /\ HeldIsServed'
  <2>1. Underway(j) /\ AttemptFails(j) /\ GiveUp(j) /\ UNCHANGED <<disk, panicked>>
    BY <1>8 DEF XferFails, At, Underway
  <2>2. QED
    BY <1>a, <1>q, <2>1, SameDisk, SameAbandoned DEF GiveUp, disk
<1>9. ASSUME NEW j \in Job, Touch(j)
      PROVE  OwnInv' /\ HeldIsServed'
  <2>1. Underway(j) /\ Finish(j, "destroy") /\ UNCHANGED <<transfer, handlers, panicked>>
    BY <1>9 DEF Touch, At, Underway, mesh
  <2>2. QED
    BY <1>g, <1>q, <2>1, SameDisk, SameMesh
<1>10. ASSUME NEW j \in Job, Dequeue(j)
      PROVE  OwnInv' /\ HeldIsServed'
  <2>1. Underway(j)
    BY <1>10 DEF Dequeue, At, Underway
  <2>2. Go(j, "parts") /\ UNCHANGED <<transfer, handlers, panicked>>
    BY <1>10, <1>c, <2>1 DEF Dequeue, mesh, disk
  <2>3. QED
    BY <1>g, <1>q, <2>1, <2>2, SameDisk, SameMesh
<1>11. ASSUME NEW j \in Job, NextPart(j)
      PROVE  OwnInv' /\ HeldIsServed'
  <2>1. job'[j].pc = "part" /\ Underway(j) /\ \A k \in Job \ {j} : job'[k] = job[k]
    BY <1>11, <1>c DEF NextPart, At, JobState, Underway
  <2>2. SameJobs
    BY <2>1 DEF SameJobs, Underway
  <2>3. QED
    BY <1>11, <1>q, <2>2, SameDisk, SameMesh DEF NextPart, disk, mesh
<1>12. ASSUME NEW j \in Job, GetPart(j)
      PROVE  OwnInv' /\ HeldIsServed'
  <2>1. job[j].pc = "part" /\ Underway(j) /\ TransferOf(j) # Absent
    BY <1>12, <1>c DEF GetPart, At, Underway
  <2>2. CASE job[j].part \in TransferOf(j).parts
    <3>1. Go(j, "parts") /\ UNCHANGED <<transfer, handlers, panicked>>
      BY <1>12, <2>1, <2>2 DEF GetPart, mesh, disk
    <3>2. QED
      BY <1>g, <1>q, <2>1, <3>1, SameDisk, SameMesh
  <2>3. CASE job[j].part \notin TransferOf(j).parts
    <3>1. /\ transfer' = [transfer EXCEPT ![j.node][j.file].inflight = job[j].part]
          /\ job' = [job EXCEPT ![j].pc = "whohas", ![j].left = Cardinality(Nodes) - 1]
          /\ UNCHANGED <<handlers, panicked>>
      BY <1>12, <2>1, <2>3 DEF GetPart
    <3>2. job'[j].pc = "whohas" /\ \A k \in Job \ {j} : job'[k] = job[k]
      BY <1>c, <3>1 DEF JobState
    <3>3. SameJobs
      BY <2>1, <3>2 DEF SameJobs, Underway
    <3>4. SameTransfers
      <4> DEFINE t == transfer[j.node][j.file]
      <4>1. t \in Transfer /\ t # Absent /\ job[j].part \in AllParts
        BY <1>c, <2>1, PartsFacts DEF TransferOf, DiskOK, TransfersOK, JobOK
      <4>2. /\ transfer'[j.node][j.file] = [t EXCEPT !.inflight = job[j].part]
            /\ \A n \in Nodes, f \in Files : <<n, f>> # <<j.node, j.file>> =>
                  transfer'[n][f] = transfer[n][f]
        BY <1>c, <3>1 DEF DiskOK, Shape
      <4>3. [t EXCEPT !.inflight = job[j].part] \in Transfer
        BY <4>1 DEF Transfer
      <4>4. /\ transfer'[j.node][j.file] # Absent
            /\ transfer'[j.node][j.file].dir = t.dir /\ transfer'[j.node][j.file].parts = t.parts
        BY <4>1, <4>2, <4>3, AbsentAssumption DEF Transfer
      <4>5. QED
        BY <4>1, <4>2, <4>4 DEF SameTransfers
    <3>5. QED
      BY <1>q, <3>1, <3>3, <3>4, SameMesh
  <2>4. QED
    BY <2>2, <2>3
<1>13. ASSUME NEW j \in Job, Check(j)
      PROVE  OwnInv' /\ HeldIsServed'
  <2>1. Underway(j)
    BY <1>13 DEF Check, At, Underway
  <2>2. (Go(j, "parts") \/ Finish(j, "release")) /\ UNCHANGED <<transfer, handlers, panicked>>
    BY <1>13, <1>c, <2>1 DEF Check, mesh, disk
  <2>3. QED
    BY <1>g, <1>q, <2>1, <2>2, SameDisk, SameMesh
<1>14. ASSUME NEW j \in Job, Assemble(j)
      PROVE  OwnInv' /\ HeldIsServed'
  <2>1. Underway(j)
    BY <1>14 DEF Assemble, At, Underway
  <2>2. Finish(j, "release") /\ UNCHANGED <<transfer, handlers, panicked>>
    BY <1>14, <1>c, <2>1 DEF Assemble, mesh, disk
  <2>3. QED
    BY <1>g, <1>q, <2>1, <2>2, SameDisk, SameMesh
<1>15. ASSUME NEW j \in Job, Release(j)
      PROVE  OwnInv' /\ HeldIsServed'
  <2>1. Underway(j) /\ Go(j, "destroy") /\ UNCHANGED <<transfer, handlers, panicked>>
    BY <1>15 DEF Release, At, Underway, mesh, disk
  <2>2. QED
    BY <1>g, <1>q, <2>1, SameDisk, SameMesh
<1>16. ASSUME NEW j \in Job, DestroyTempTransfer(j)
      PROVE  OwnInv' /\ HeldIsServed'
  <2>1. job[j].pc = "destroy" /\ Underway(j) /\ TransferOf(j) # Absent /\ TransferOf(j).dir = j
    BY <1>16, <1>c DEF DestroyTempTransfer, At, Underway
  <2>2. /\ \A h \in handlers : h.req.to # j.node
        /\ transfer' = [transfer EXCEPT ![j.node][j.file] = Absent]
        /\ Go(j, "done") /\ UNCHANGED <<handlers, panicked>>
    BY <1>16, <2>1 DEF DestroyTempTransfer, mesh
  <2>3. job'[j].pc = "done" /\ \A k \in Job \ {j} : job'[k] = job[k]
    BY <1>c, <2>2 DEF Go, Fresh
  <2>4. /\ transfer'[j.node][j.file] = Absent
        /\ \A n \in Nodes, f \in Files : <<n, f>> # <<j.node, j.file>> =>
              transfer'[n][f] = transfer[n][f]
    BY <1>c, <2>2 DEF DiskOK, Shape
  <2>5. ASSUME NEW k \in Job, job'[k].pc \notin {"idle", "info", "done", "error"}
        PROVE  transfer'[k.node][k.file] # Absent /\ transfer'[k.node][k.file].dir = k
    <3>1. k # j /\ Underway(k) /\ TransferOf(k) # Absent /\ TransferOf(k).dir = k
      BY <1>c, <2>3, <2>5 DEF Underway
    <3>2. <<k.node, k.file>> # <<j.node, j.file>>
      BY <2>1, <3>1 DEF TransferOf
    <3>3. QED
      BY <1>c, <2>4, <3>1, <3>2 DEF TransferOf
  <2>6. ASSUME NEW n \in Nodes, NEW f \in Files, transfer'[n][f] # Absent
        PROVE  job'[transfer'[n][f].dir].pc \notin {"idle", "info", "done", "error"}
    <3>1. transfer'[n][f] = transfer[n][f] /\ <<n, f>> # <<j.node, j.file>>
      BY <2>4, <2>6
    <3>2. /\ transfer[n][f].dir \in Job /\ Underway(transfer[n][f].dir)
          /\ transfer[n][f].dir.node = n /\ transfer[n][f].dir.file = f
      BY <2>6, <3>1 DEF OwnInv, DiskOK, TransfersOK, Transfer
    <3>3. QED
      BY <2>3, <3>1, <3>2 DEF Underway
  <2>7. ASSUME NEW i \in Job, job'[i].pc = "info"
        PROVE  /\ transfer'[i.node][i.file] = Absent
               /\ \A k \in Job : k.node = i.node /\ k # i => job'[k].pc # "info"
    BY <1>c, <2>3, <2>4, <2>7 DEF OwnInv, TransferOf
  <2>8. OwnInv'
    BY <2>2, <2>5, <2>6, <2>7 DEF OwnInv, OwnTransfer, Underway, TransferOf
  <2>9. HeldIsServed'
    <3>1. ASSUME NEW h \in handlers, h.held PROVE Acks(h)'
      <4>1. Acks(h) /\ h.req.to \in Nodes /\ h.req.file \in Files /\ h.req.to # j.node
        BY <2>2, <3>1 DEF HeldIsServed, HandlersOK, Handler, Requests, Request
      <4>2. transfer'[h.req.to][h.req.file] = transfer[h.req.to][h.req.file]
        BY <2>4, <4>1
      <4>3. QED
        BY <4>1, <4>2 DEF Acks, HasPart
    <3>2. QED
      BY <2>2, <3>1 DEF HeldIsServed
  <2>10. QED
    BY <2>8, <2>9
<1>17. ASSUME NEW m \in net, HandleInfo(m)
      PROVE  OwnInv' /\ HeldIsServed'
  BY <1>17, <1>j, <1>q, SameDisk, SameMesh DEF HandleInfo, disk
<1>18. ASSUME NEW m \in net, HandlePart(m)
      PROVE  OwnInv' /\ HeldIsServed'
  <2> DEFINE h == [req |-> m, found |-> Exists(m.to, m.file),
                   held |-> Exists(m.to, m.file) \/ HasPart(m.to, m.file, m.part)]
  <2>1. handlers' = handlers \cup {h} /\ UNCHANGED <<transfer, job, panicked>>
    BY <1>18 DEF HandlePart, disk
  <2>2. OwnInv'
    BY <1>j, <2>1, SameDisk, SameOwn
  <2>3. h.held => Acks(h)
    BY DEF Acks
  <2>4. ASSUME NEW g \in handlers', g.held PROVE Acks(g)
    BY <2>1, <2>3, <2>4 DEF HeldIsServed
  <2>5. HeldIsServed'
    BY <2>1, <2>4 DEF HeldIsServed, Acks, HasPart
  <2>6. QED
    BY <2>2, <2>5
<1>19. ASSUME NEW h \in handlers, HandlePartReply(h)
      PROVE  OwnInv' /\ HeldIsServed'
  BY <1>19, <1>j, <1>q, SameDisk, SameMesh DEF HandlePartReply, disk
<1>20. ASSUME NEW s \in snoops, MITM(s)
      PROVE  OwnInv' /\ HeldIsServed'
  <2>1. s.node \in Nodes /\ s.file \in Files /\ s.part \in AllParts
    BY DEF SnoopsOK
  <2>2. SameTransfers
    BY <1>20, <2>1, SameDisk, SameWritten DEF MITM, disk
  <2>3. QED
    BY <1>20, <1>j, <1>q, <2>2, SameMesh DEF MITM
<1>21. ASSUME NEW n \in Nodes, NEW f \in Files, Delete(n, f)
      PROVE  OwnInv' /\ HeldIsServed'
  BY <1>21, <1>j, <1>q, SameDisk, SameMesh DEF Delete, mesh
<1>22. CASE UNCHANGED vars
  BY <1>22, <1>j, <1>q, SameDisk, SameMesh DEF vars
<1>23. QED
  BY <1>1, <1>2, <1>3, <1>4, <1>5, <1>6, <1>7, <1>8, <1>9, <1>10, <1>11, <1>12, <1>13, <1>14,
      <1>15, <1>16, <1>17, <1>18, <1>19, <1>20, <1>21, <1>22
      DEF Next, Timeout, Receive, GetParts, Handlers

----------------------------------------------------------------------------
(* The theorems. *)

(* The strengthened type invariant, of every behaviour. *)
LEMMA TypeCorrect == Spec => []TypeInv
<1>1. TypeInv /\ [Next]_vars => TypeInv'
  BY TypeStep
<1>2. QED
  BY TypeInit, <1>1, PTL DEF Spec

(* What is on the disks is what the tables say: a part that a transfer     *)
(* lists is in its directory, whoever stored it, and unless a file was     *)
(* deleted every file that is served has the contents of all its parts     *)
(* (getPart, MITM, getParts), for every mesh, with any losses, timeouts    *)
(* and overlapping calls of Get.                                           *)
THEOREM PartsAreSound == Spec => []PartsSound
<1>1. TypeInv /\ TypeInv' /\ WholeInv /\ [Next]_vars => WholeInv'
  BY WholeStep
<1>2. TypeInv /\ WholeInv => PartsSound
  <2> SUFFICES ASSUME TypeInv, WholeInv PROVE PartsSound
    OBVIOUS
  <2>1. TypeOK
    BY DEF TypeInv, TypeOK, JobOK, NetOK, HandlersOK, Handler, Requests, SnoopsOK, DiskOK,
           DirsOK, FilesOK, TransfersOK
  <2>2. PartsOnDisk
    BY DEF TypeInv, DiskOK
  <2>3. FilesWhole
    BY DEF WholeInv, Whole, WholeFiles, FilesWhole
  <2>4. QED
    BY <2>1, <2>2, <2>3 DEF PartsSound
<1>3. QED
  BY WholeInit, TypeCorrect, <1>1, <1>2, PTL DEF Spec

(* Transfers that are under way are kept, and held parts served. *)
LEMMA OwnCorrect == ASSUME ~Overlap PROVE Spec => [](OwnInv /\ HeldIsServed)
<1>1. Init => OwnInv /\ HeldIsServed
  BY JobFacts DEF Init, OwnInv, OwnTransfer, HeldIsServed, TransferOf, Fresh
<1>2. TypeInv /\ TypeInv' /\ (OwnInv /\ HeldIsServed) /\ [Next]_vars => (OwnInv /\ HeldIsServed)'
  BY OwnStep
<1>3. QED
  BY TypeCorrect, <1>1, <1>2, PTL DEF Spec

(* When the calls of Get on a node do not overlap (the commands of a node  *)
(* run one at a time), getParts finds the transfer that Get made for it    *)
(* until it destroys it, and no nil Transfer is dereferenced.              *)
THEOREM OwnTransferKept == ~Overlap => (Spec => []OwnTransfer)
<1> SUFFICES ASSUME ~Overlap PROVE Spec => []OwnTransfer
  OBVIOUS
<1>1. OwnInv => OwnTransfer
  BY DEF OwnInv
<1>2. QED
  BY OwnCorrect, <1>1, PTL

(* drainLock: a node that holds a part when it is asked for it answers     *)
(* with an ACK, although its getParts may end meanwhile.                   *)
THEOREM HeldPartsAreServed == ~Overlap => (Spec => []HeldIsServed)
<1> SUFFICES ASSUME ~Overlap PROVE Spec => []HeldIsServed
  OBVIOUS
<1>1. QED
  BY OwnCorrect, PTL

=============================================================================
