----------------------------- MODULE Scheduler -----------------------------
(***************************************************************************)
(* The placement of queued VMs on the hosts of a namespace: the scheduler  *)
(* and the commands of a namespace that queue, schedule and launch VMs.    *)
(*                                                                         *)
(* The commands run one at a time, under cmdLock.  A call of Schedule that *)
(* runs the scheduler is a sequence of steps here: it begins with the      *)
(* statistics of the hosts, places one VM per iteration (add recurses into *)
(* the VMs that are colocated with it) and ends with an assignment or with *)
(* an error.                                                               *)
(***************************************************************************)
EXTENDS Integers, Sequences, FiniteSets, SequencesExt

CONSTANTS
    HostNames,   \* hosts, members of the namespace or not
    Here,        \* hostname: what localhost stands for
    Capacity,    \* CPUs or MemTotal of each host; 1 for netcommit
    Batches,     \* the configurations that users launch
    MaxQueue,    \* bound: batches in the queue
    MaxVMs,      \* bound: VMs that run
    MaxLost,     \* bound: VMs of an assignment that fail to launch
    Localhost,   \* "localhost"
    Unset,       \* "": no host to be scheduled on, no VM to be colocated with
    Absent,      \* no assignment, no run of the scheduler
    Ops          \* which of mv, delhost, gone, partial users and hosts do

Names == UNION {ToSet(b.names) \cup {b.colocate} : b \in Batches} \ {Unset}

(* VMConfig, as far as the scheduler reads it, with the name of the VM. *)
VM == [name : Names, schedule : HostNames \cup {Localhost, Unset},
       colocate : Names \cup {Unset}, coschedule : Nat \cup {-1}, load : Nat]

HostStats == [name : HostNames, limit : Int, vms : Nat, commit : Nat]

(* QueuedVMs: the VMs that one launch queues. *)
QueuedVMs == [names : Seq(Names), schedule : HostNames \cup {Localhost, Unset},
              colocate : Names \cup {Unset}, coschedule : Nat \cup {-1}, load : Nat]

ASSUME HostsAssumption == IsFiniteSet(HostNames)
ASSUME CapacityAssumption == Capacity \in [HostNames -> Nat \ {0}]
ASSUME HereAssumption == Here \in HostNames
ASSUME BatchAssumption ==
    \A b \in Batches :
        /\ b \in QueuedVMs
        \* expandLaunchNames; a VM without a name has one of its own here
        /\ b.names # <<>> /\ IsInjective(b.names)
        \* validSchedule and validColocate
        /\ b.schedule = Unset \/ b.colocate = Unset
ASSUME OpsAssumption == Ops \subseteq {"mv", "delhost", "gone", "partial"}

VARIABLES
    Hosts,       \* Namespace.Hosts
    queue,       \* Namespace.queue
    assignment,  \* Namespace.assignment: the VMs for each host, or Absent
    vms,         \* the VMs that run, with their hosts
    moved,       \* history: `ns schedule mv' changed the assignment
    forced,      \* history: VMs were launched that mv moved or that had one host to go to
    aliased,     \* the assignment and the queue share their QueuedVMs
    run          \* the variables of a run of the scheduler, or Absent

vars == <<Hosts, queue, assignment, vms, moved, forced, aliased, run>>

Assignment == [HostNames -> Seq(VM)]

Run == [dry : BOOLEAN, hosts : Seq(HostStats), left : Seq(VM), res : Assignment,
        colocated : [Names -> Seq(VM)], stack : Seq([host : HostNames, vm : VM, todo : Seq(VM)])]

NoVMs == [h \in HostNames |-> <<>>]

(* The queue and the assignment hold VMs, and the scheduler its host statistics. *)
TypeOK ==
    /\ Hosts \subseteq HostNames /\ moved \in BOOLEAN /\ forced \in BOOLEAN
    /\ aliased \in BOOLEAN
    /\ queue \in Seq(QueuedVMs)
    /\ \A i \in 1 .. Len(queue) : \E b \in Batches :
          queue[i] = [b EXCEPT !.schedule = queue[i].schedule]
    /\ assignment = Absent \/ assignment \in Assignment
    /\ vms \subseteq [name : Names, host : HostNames, coschedule : Nat \cup {-1}, load : Nat]
    /\ run = Absent \/ (run \in Run /\ \A i \in 1 .. Len(run.hosts) : run.hosts[i].limit \in (Nat \ {0}) \cup {-1})

Init ==
    /\ Hosts = HostNames /\ queue = <<>> /\ assignment = Absent /\ vms = {}
    /\ moved = FALSE /\ forced = FALSE /\ aliased = FALSE /\ run = Absent

----------------------------------------------------------------------------
(* The statistics of the hosts. *)

On(h) == {v \in vms : v.host = h}

(* VMs.Limit and NewHostStats: the lowest coschedule of the VMs on h, plus one. *)
LimitOf(S) == LET c == {v.coschedule : v \in S} \ {-1} IN IF c = {} THEN -1 ELSE Min(c) + 1

NewHostStats(h) ==
    [name |-> h, limit |-> LimitOf(On(h)), vms |-> Cardinality(On(h)),
     commit |-> MapThenSumSet(LAMBDA v : v.load, On(h))]

IsFull(h) == h.limit # -1 /\ h.vms >= h.limit

(* cpuCommit, memoryCommit and networkCommit: h1 < h2 *)
By(h1, h2) ==
    IF IsFull(h1) # IsFull(h2) THEN ~IsFull(h1)
    ELSE h1.commit * Capacity[h2.name] < h2.commit * Capacity[h1.name]

(* A mutant of Increment that sets a limit but never lowers one. *)
IncrementLowersNothing(h, vm) ==
    [h EXCEPT !.vms = @ + 1, !.commit = @ + vm.load,
              !.limit = IF vm.coschedule # -1 /\ @ = -1 THEN vm.coschedule + 1 ELSE @]

(* increment, and the limit that add sets or lowers *)
Increment(h, vm) ==
    LET limit == vm.coschedule + 1 IN
    [h EXCEPT !.vms = @ + 1, !.commit = @ + vm.load,
              !.limit = IF vm.coschedule # -1 /\ (@ = -1 \/ limit < @) THEN limit ELSE @]

----------------------------------------------------------------------------
(* The heap of hosts, whose first element is the least loaded. *)

Swap(hosts, i, j) == [hosts EXCEPT ![i] = hosts[j], ![j] = hosts[i]]

Child(hosts, root) ==
    IF 2 * root + 1 <= Len(hosts) /\ ~By(hosts[2 * root], hosts[2 * root + 1])
    THEN 2 * root + 1 ELSE 2 * root

(* The variables of siftDown: the place of the host that sinks, and the heap. *)
Sift == [root : Nat \ {0}, hosts : Seq(HostStats)]

siftDown[s \in Sift] ==
    IF 2 * s.root > Len(s.hosts) THEN s.hosts
    ELSE LET child == Child(s.hosts, s.root) IN
         IF By(s.hosts[s.root], s.hosts[child]) THEN s.hosts
         ELSE LET sunk == [root |-> child, hosts |-> Swap(s.hosts, s.root, child)] IN siftDown[sunk]

(* The variables of Sort: the place of the next host to sink, if any, and the heap. *)
Climb == [root : Nat, hosts : Seq(HostStats)]

(* Sort: Floyd's method, from the lowest subtrees up *)
floyd[s \in Climb] ==
    IF s.root = 0 THEN s.hosts
    ELSE LET up == [root |-> s.root - 1, hosts |-> siftDown[s]] IN floyd[up]

Heapify(hosts) == floyd[[root |-> (Len(hosts) + 1) \div 2, hosts |-> hosts]]

IndexOf(hosts, h) == CHOOSE i \in 1 .. Len(hosts) : hosts[i].name = h

(* A mutant of Update that leaves the host where it is. *)
UpdateNothing(hosts, h) == hosts

Update(hosts, h) == siftDown[[root |-> IndexOf(hosts, h), hosts |-> hosts]]

----------------------------------------------------------------------------
(* The commands that fill the queue. *)

Idle == run = Absent

VMsOf(q) ==
    [i \in 1 .. Len(q.names) |->
        [name |-> q.names[i], schedule |-> q.schedule, colocate |-> q.colocate,
         coschedule |-> q.coschedule, load |-> q.load]]

(* The VMs of the queued ones at I, in the order of the queue *)
VMsAt(qs, I) == FlattenSeq([i \in 1 .. Len(qs) |-> IF i \in I THEN VMsOf(qs[i]) ELSE <<>>])

(* globalVMs: the VMs on the hosts of the namespace *)
GlobalVMs == {v \in vms : v.host \in Hosts}

InQueue == UNION {ToSet(queue[i].names) : i \in 1 .. Len(queue)}

(* The bounds on what users launch *)
Room(b) ==
    /\ Len(queue) < MaxQueue
    /\ Cardinality(vms) + Cardinality(InQueue) + Len(b.names) <= MaxVMs

Taken == {v.name : v \in GlobalVMs} \cup InQueue

(* A mutant of Queue that does not invalidate the assignment of a dry run. *)
QueueKeepsAssignment(b) ==
    /\ Idle /\ Room(b)
    /\ queue' = IF ToSet(b.names) \cap Taken = {} THEN Append(queue, b) ELSE queue
    /\ UNCHANGED <<Hosts, vms, forced, run, assignment, moved, aliased>>

(* An assignment is invalid once Queue is called, even if it then fails. *)
Queue(b) ==
    /\ Idle /\ Room(b)
    /\ assignment' = Absent /\ moved' = FALSE /\ aliased' = FALSE
    /\ queue' = IF ToSet(b.names) \cap Taken = {} THEN Append(queue, b) ELSE queue
    /\ UNCHANGED <<Hosts, vms, forced, run>>

FlushQueue == Idle /\ queue' = <<>> /\ UNCHANGED <<Hosts, assignment, vms, forced, moved, aliased, run>>

DelHost(h) ==
    /\ Idle /\ "delhost" \in Ops
    /\ Hosts' = Hosts \ {h}
    /\ UNCHANGED <<queue, assignment, vms, forced, moved, aliased, run>>

AddHost(h) == Idle /\ Hosts' = Hosts \cup {h} /\ UNCHANGED <<queue, assignment, vms, forced, moved, aliased, run>>

(* VMs are killed and flushed by other commands (module KvmVM). *)
Gone(v) ==
    /\ Idle /\ "gone" \in Ops
    /\ vms' = vms \ {v}
    /\ UNCHANGED <<Hosts, queue, assignment, moved, forced, aliased, run>>

----------------------------------------------------------------------------
(* Launching. *)

(* The VMs of an assignment, as they run on h *)
Launched(a, h) ==
    {[name |-> v.name, host |-> h, coschedule |-> v.coschedule, load |-> v.load] : v \in ToSet(a[h])}

(* Namespace.schedule: every host launches its VMs, and some may fail. *)
Launch(a, unchecked) ==
    LET placed == UNION {Launched(a, h) : h \in HostNames} IN
    /\ \E lost \in SUBSET placed :
          /\ Cardinality(lost) <= MaxLost
          /\ vms' = vms \cup (placed \ lost)
    /\ queue' = <<>>
    /\ forced' = (forced \/ unchecked)
    /\ UNCHANGED Hosts

(* Schedule(false) with an assignment that a dry run left *)
LaunchAssigned ==
    /\ Idle /\ Hosts # {} /\ queue # <<>> /\ assignment # Absent
    /\ Launch(assignment, moved \/ aliased)
    /\ assignment' = Absent /\ moved' = FALSE /\ aliased' = FALSE /\ UNCHANGED run

(* Reschedule, for one VM; the assignment of a single host is the queue itself *)
(* and is not moved here.                                                      *)
Reschedule(h, i, dst) ==
    /\ Idle /\ "mv" \in Ops /\ assignment # Absent /\ ~aliased
    /\ dst \in Hosts /\ i \in 1 .. Len(assignment[h])
    /\ LET removed == [assignment EXCEPT ![h] = RemoveAt(@, i)] IN
       assignment' = [removed EXCEPT ![dst] = Append(@, assignment[h][i])]
    /\ moved' = TRUE
    /\ UNCHANGED <<Hosts, queue, vms, forced, aliased, run>>

----------------------------------------------------------------------------
(* The beginning of Scheduler.Schedule. *)

(* Of VMs with one name, which a host that was deleted and added again may *)
(* bring about, the last one that globalVMs lists counts.                  *)
LastListed ==
    {S \in SUBSET GlobalVMs : \A v \in GlobalVMs :
        Cardinality({w \in S : w.name = v.name}) = 1}

(* Schedule resolves colocation with VMs that run, for all that is queued. *)
Resolved(S) ==
    [i \in 1 .. Len(queue) |->
        LET hosts == {v.host : v \in {w \in S : w.name = queue[i].colocate}} IN
        IF hosts = {} THEN queue[i] ELSE [queue[i] EXCEPT !.schedule = CHOOSE h \in hosts : TRUE]]

Localised(q) == IF q.schedule = Localhost THEN [q EXCEPT !.schedule = Here] ELSE q

Floating(q) == q.colocate # Unset /\ q.schedule = Unset

ColocatedIn(qs) ==
    [x \in Names |-> VMsAt(qs, {i \in 1 .. Len(qs) : Floating(qs[i]) /\ qs[i].colocate = x})]

(* colocatedCount *)
Followers(qs, q) ==
    Cardinality({i \in 1 .. Len(qs) : Floating(qs[i]) /\ qs[i].colocate \in ToSet(q.names)})

(* QueuedVMs.Less: not an order for two queued VMs with different hosts *)
Less(qs, q, q2) ==
    IF q.schedule # q2.schedule THEN q.schedule # Unset
    ELSE IF q.coschedule # q2.coschedule
    THEN q.coschedule # -1 /\ (q2.coschedule = -1 \/ q.coschedule < q2.coschedule)
    ELSE IF Followers(qs, q) # Followers(qs, q2) THEN Followers(qs, q) > Followers(qs, q2)
    ELSE Len(q.names) > Len(q2.names)

(* What sort.Slice may leave: no element before one that must precede it *)
Sorted(qs) ==
    {[i \in 1 .. Len(qs) |-> qs[p[i]]] : p \in
        {p \in [1 .. Len(qs) -> 1 .. Len(qs)] :
            \A i, j \in 1 .. Len(qs) : i < j =>
                /\ p[i] # p[j]
                /\ Less(qs, qs[p[j]], qs[p[i]]) => Less(qs, qs[p[i]], qs[p[j]])}}

(* The hosts that answer, in the order in which they do *)
Answers ==
    UNION {{[i \in 1 .. Len(order) |-> NewHostStats(order[i])] : order \in SetToSeqs(S)} :
           S \in IF "partial" \in Ops THEN SUBSET Hosts ELSE {Hosts}}

(* Schedule without an assignment to launch, as far as the loop over the queue *)
BeginSchedule(dry) ==
    /\ Idle /\ Hosts # {} /\ queue # <<>>
    /\ dry \/ assignment = Absent
    /\ \E hosts \in Answers, S \in LastListed :
       LET resolved == Resolved(S)
           qs == [i \in 1 .. Len(queue) |-> Localised(resolved[i])]
           known == {hosts[i].name : i \in 1 .. Len(hosts)}
           unknown == {i \in 1 .. Len(qs) : qs[i].schedule \notin known \cup {Unset}}
       IN
       \/ \* no hosts, or an unknown host, where the loop stops: an error
          /\ Len(hosts) = 0 \/ (Len(hosts) > 1 /\ unknown # {})
          /\ queue' = [i \in 1 .. Len(qs) |->
                          IF Len(hosts) > 1 /\ i < Min(unknown) THEN qs[i] ELSE resolved[i]]
          /\ UNCHANGED <<Hosts, assignment, vms, forced, moved, aliased, run>>
       \/ \* one host gets everything
          /\ Len(hosts) = 1
          /\ LET all == [NoVMs EXCEPT ![hosts[1].name] = VMsAt(resolved, 1 .. Len(queue))] IN
             IF dry
             THEN /\ assignment' = all /\ aliased' = TRUE /\ moved' = FALSE
                  /\ queue' = resolved /\ UNCHANGED <<Hosts, vms, forced>>
             ELSE Launch(all, TRUE) /\ UNCHANGED <<assignment, moved, aliased>>
          /\ UNCHANGED run
       \/ /\ Len(hosts) > 1
          /\ unknown = {}
          /\ queue' \in Sorted(qs)
          /\ run' = [dry |-> dry, hosts |-> Heapify(hosts), colocated |-> ColocatedIn(qs),
                     left |-> VMsAt(queue', {i \in 1 .. Len(queue) : ~Floating(queue'[i])}),
                     res |-> NoVMs, stack |-> <<>>]
          /\ UNCHANGED <<Hosts, assignment, vms, forced, moved, aliased>>

----------------------------------------------------------------------------
(* The loop over the queue. *)

Top == run.stack[1]

(* The first half of add: the host takes the VM, whose colocated VMs are to follow. *)
Enter(h, vm, r) ==
    LET i == IndexOf(r.hosts, h) IN
    [r EXCEPT !.hosts[i] = Increment(@, vm),
              !.stack = <<[host |-> h, vm |-> vm, todo |-> r.colocated[vm.name]]>> \o @]

(* The next VM goes to the host it names, or to the least loaded one. *)
Place ==
    /\ ~Idle /\ run.stack = <<>> /\ run.left # <<>>
    /\ LET vm == Head(run.left)
           h == IF vm.schedule # Unset THEN vm.schedule ELSE run.hosts[1].name
       IN run' = Enter(h, vm, [run EXCEPT !.left = Tail(@)])
    /\ UNCHANGED <<Hosts, queue, assignment, vms, forced, moved, aliased>>

(* add calls itself for a VM that is colocated. *)
AddColocated ==
    /\ ~Idle /\ run.stack # <<>> /\ Top.todo # <<>>
    /\ run' = Enter(Top.host, Head(Top.todo), [run EXCEPT !.stack[1].todo = Tail(@)])
    /\ UNCHANGED <<Hosts, queue, assignment, vms, forced, moved, aliased>>

Fail == run' = Absent /\ UNCHANGED <<Hosts, queue, assignment, vms, forced, moved, aliased>>

(* The second half of add, and Update when it returns to the loop *)
Added ==
    /\ ~Idle /\ run.stack # <<>> /\ Top.todo = <<>>
    /\ LET h == run.hosts[IndexOf(run.hosts, Top.host)] IN
       IF h.limit # -1 /\ h.vms > h.limit THEN Fail
       ELSE /\ run' = [run EXCEPT
                  !.colocated[Top.vm.name] = <<>>,
                  !.res[h.name] = Append(@, Top.vm),
                  !.stack = Tail(@),
                  !.hosts = IF Len(run.stack) = 1 THEN Update(@, h.name) ELSE @]
            /\ UNCHANGED <<Hosts, queue, assignment, vms, forced, moved, aliased>>

(* The loop is over: floating VMs without a home are an error. *)
EndSchedule ==
    /\ ~Idle /\ run.stack = <<>> /\ run.left = <<>>
    /\ IF \E x \in Names : run.colocated[x] # <<>> THEN Fail
       ELSE /\ run' = Absent
            /\ IF run.dry
               THEN /\ assignment' = run.res /\ moved' = FALSE /\ aliased' = FALSE
                    /\ UNCHANGED <<Hosts, queue, vms, forced>>
               ELSE Launch(run.res, FALSE) /\ UNCHANGED <<assignment, moved, aliased>>

Commands ==
    \/ \E b \in Batches : Queue(b)
    \/ FlushQueue
    \/ \E h \in HostNames : DelHost(h) \/ AddHost(h)
    \/ \E v \in vms : Gone(v)
    \/ LaunchAssigned
    \/ \E h, dst \in HostNames, i \in 1 .. Cardinality(Names) : Reschedule(h, i, dst)
    \/ \E dry \in BOOLEAN : BeginSchedule(dry)

Loop == Place \/ AddColocated \/ Added \/ EndSchedule

Next == Commands \/ Loop

(* The loop runs in the goroutine of the command, which nothing blocks. *)
Spec == Init /\ [][Next]_vars /\ WF_vars(Loop)

----------------------------------------------------------------------------
(* Properties *)

(* Whenever the scheduler chooses a host, the first of the heap is not more loaded *)
(* than any other: it is full only if all are, and no other has a lower commit     *)
(* ("hostSorter acts a minheap so that the least-loaded host is in position 0").   *)
(* One sift after each VM is enough because a host never becomes less loaded.      *)
LeastLoadedFirst ==
    ~Idle /\ run.stack = <<>> =>
        \A i \in 1 .. Len(run.hosts) : ~By(run.hosts[i], run.hosts[1])

Assigned(h) == ToSet(assignment[h])

(* An assignment that can still be launched holds every VM of the queue once and   *)
(* nothing else, whatever was queued, flushed or moved since the dry run.          *)
PlacedOnce ==
    assignment # Absent /\ queue # <<>> =>
        /\ {v.name : v \in UNION {Assigned(h) : h \in HostNames}} = InQueue
        /\ \A h, k \in HostNames :
              \A i \in 1 .. Len(assignment[h]), j \in 1 .. Len(assignment[k]) :
                  assignment[h][i].name = assignment[k][j].name => h = k /\ i = j

(* An assignment that no one edited puts every VM on the host it names, and every  *)
(* floating VM on the host of the VM it is colocated with.                         *)
PlacedAsAsked ==
    assignment # Absent /\ queue # <<>> /\ ~moved /\ ~aliased =>
        \A h \in HostNames : \A v \in Assigned(h) :
            /\ v.schedule \in {Unset, h}
            /\ v.schedule = Unset /\ v.colocate # Unset =>
                   \E w \in Assigned(h) : w.name = v.colocate

(* What LaunchAssigned will launch is what the users queued (Schedule, Queue,      *)
(* Reschedule).                                                                    *)
AssignmentSound == TypeOK /\ PlacedOnce /\ PlacedAsAsked

(* A VM with a coschedule limit never runs with more peers than that, over any     *)
(* number of launches of VMs with and without limits, failed ones included, unless *)
(* the user moved VMs or the namespace had a single host ("Set a limit on the      *)
(* number of VMs that should be scheduled on the same host as the VM").            *)
CoscheduleHeld ==
    ~forced => \A v \in vms : v.coschedule = -1 \/ Cardinality(On(v.host)) - 1 <= v.coschedule

(* VMs of an assignment run together with the VM they are colocated with, if it    *)
(* runs or is assigned ("Colocate this VM with another VM that has already been    *)
(* launched or is queued for launching").                                          *)
ColocatedTogether ==
    assignment # Absent /\ queue # <<>> /\ ~moved =>
        \A h \in HostNames : \A v \in Assigned(h) :
            /\ \A w \in GlobalVMs : w.name = v.colocate => w.host = h
            /\ \A k \in HostNames : \A w \in Assigned(k) : w.name = v.colocate => k = h
============================================================================
