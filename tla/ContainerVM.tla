---------------------------- MODULE ContainerVM ----------------------------
(***************************************************************************)
(* The life of one container: minimega's container.go with the parts of    *)
(* vm.go and vms.go it uses.  A container is a process in a freezer cgroup *)
(* that is named after the VM; launch() freezes it before it executes      *)
(* init, Start thaws it, Stop freezes it again, and a process that is      *)
(* frozen cannot end, not even by SIGKILL.                                 *)
(*                                                                         *)
(* As in KvmVM one command runs at a time, what is done between taking and *)
(* releasing vm.lock is one step, and every launch has a number, that of   *)
(* its kill channel.  The exception is the goroutine that kills the        *)
(* container: it keeps vm.lock while it waits for the tasks to end.        *)
(***************************************************************************)
EXTENDS Naturals, FiniteSets

CONSTANTS
    MaxLaunches,  \* bound on the launches of this VM
    Bridges,      \* the bridges its interface can be connected to
    Default,      \* the bridge of a configuration that names none
    Off,          \* DisconnectedVLAN
    Commands,     \* the commands the user gives
    Faults        \* what may fail in the environment

Gens == 1 .. MaxLaunches

States == {"BUILDING", "RUNNING", "PAUSED", "QUIT", "ERROR"}
Killable == {"BUILDING", "RUNNING", "PAUSED"}

AllCommands == {"start", "stop", "kill", "flush", "connect"}

(* Steps that can fail: containerInit, which is tried once, the overlay,   *)
(* the symlink to the instance path, pipes and volumes, the start of the   *)
(* process, the network, createVeth (whose error is lost), AddTap, and     *)
(* writing FROZEN or THAWED.                                               *)
AllFaults == {"cgroup", "overlay", "alias", "pipe", "exec", "net", "veth", "addtap",
              "freeze", "thaw"}

ASSUME LaunchesAssumption == MaxLaunches \in Nat \ {0}
ASSUME BridgesAssumption == Default \in Bridges /\ Off \notin Bridges
ASSUME CommandsAssumption == Commands \subseteq AllCommands
ASSUME FaultsAssumption == Faults \subseteq AllFaults

VARIABLES
    config,      \* whether the VM runs on a snapshot, and whether it has fifos
    state,       \* vm.State
    tagged,      \* setErrorf has recorded an error in vm.Tags
    present,     \* the VM is in vms.m
    dir,         \* the instance path exists
    alias,       \* the symlink to the instance path exists
    overlay,     \* the overlay is mounted
    fifos,       \* the fifos exist in the instance path
    cgroup,      \* the freezer cgroup of the VM: "none", "frozen" or "thawed"
    netns,       \* the symlink to the network namespace exists
    nic,         \* the bridge of the interface in the configuration, or Off
    taps,        \* the bridges that hold the VM's tap
    skewed,      \* a command left nic and taps to disagree
    registered,  \* the VM is registered with the ron server
    gen,         \* the current kill channel
    closed,      \* the kill channels that are closed
    proc,        \* the process of each launch
    waiter,      \* the goroutine in cmd.Wait of each launch
    killer,      \* the goroutine that selects on errChan and vm.kill
    killCh,      \* the channel that goroutine read from vm.kill
    pc,          \* where the command in progress is
    reconnect,   \* an argument of the `vm start' in progress
    fatal        \* mustWrite failed: log.Fatal has ended minimega

disk == <<dir, alias, overlay, fifos>>
network == <<netns, nic, taps, skewed>>
goroutines == <<proc, waiter, killer, killCh>>
command == <<pc, reconnect>>
vars == <<config, state, tagged, present, disk, cgroup, network, registered, gen,
          closed, goroutines, command, fatal>>

ProcStates == {"none", "alive", "dying", "clean", "error"}
WaiterStates == {"none", "waiting", "sending", "done"}
KillerStates == {"none", "spawned", "select", "exited", "kill", "killing", "signal", "done"}

(* The state is one of VMState, and every launch has at most one process,  *)
(* one goroutine in cmd.Wait and one that kills or cleans up (launch).     *)
TypeOK ==
    /\ config \in [snapshot : BOOLEAN, fifos : BOOLEAN]
    /\ state \in States
    /\ tagged \in BOOLEAN /\ present \in BOOLEAN /\ registered \in BOOLEAN
    /\ dir \in BOOLEAN /\ alias \in BOOLEAN /\ overlay \in BOOLEAN /\ fifos \in BOOLEAN
    /\ cgroup \in {"none", "frozen", "thawed"}
    /\ netns \in BOOLEAN /\ skewed \in BOOLEAN
    /\ nic \in Bridges \cup {Off} /\ taps \in SUBSET Bridges
    /\ gen \in Gens /\ closed \in SUBSET Gens
    /\ proc \in [Gens -> ProcStates]
    /\ waiter \in [Gens -> WaiterStates]
    /\ killer \in [Gens -> KillerStates]
    /\ killCh \in [Gens -> Gens]
    /\ pc \in {"launch", "idle", "start", "wait", "woken", "panic"}
    /\ reconnect \in BOOLEAN /\ fatal \in BOOLEAN

(* NewContainer: the VM is locked and in vms.m, so that Launch comes first. *)
Init ==
    /\ config \in [snapshot : BOOLEAN, fifos : BOOLEAN]
    /\ state = "BUILDING" /\ tagged = FALSE /\ present = TRUE
    /\ dir = FALSE /\ alias = FALSE /\ overlay = FALSE /\ fifos = FALSE
    /\ cgroup = "none" /\ netns = FALSE
    /\ nic = Default /\ taps = {} /\ skewed = FALSE /\ registered = FALSE
    /\ gen = 1 /\ closed = {}
    /\ proc = [g \in Gens |-> "none"]
    /\ waiter = [g \in Gens |-> "none"]
    /\ killer = [g \in Gens |-> "none"]
    /\ killCh = [g \in Gens |-> g]
    /\ pc = "launch" /\ reconnect = FALSE /\ fatal = FALSE

Running(g) == proc[g] \in {"alive", "dying"}
Exited(g) == proc[g] \in {"clean", "error"}

(* setState and setErrorf.  Both write a file in the instance path, and    *)
(* end minimega if they cannot.                                            *)
SetState(s) ==
    /\ state' = s /\ UNCHANGED tagged
    /\ fatal' = (fatal \/ ~dir')

SetErrorf ==
    /\ state' = "ERROR" /\ tagged' = TRUE
    /\ fatal' = (fatal \/ ~dir')

(* log.Fatal and a panic end minimega. *)
Up == ~fatal /\ pc # "panic"

(* vm.lock is free. *)
Unlocked == \A g \in Gens : killer[g] # "killing"

----------------------------------------------------------------------------
(* launch() of generation g.  The part guarded by State == VM_BUILDING is  *)
(* done only by the first launch; the rest is common to all.               *)

(* The fifos are made in every launch and removed by none: Mkfifo fails    *)
(* when they exist.                                                        *)
FifosClash == config.fifos /\ fifos

(* launch() returns before it starts the process. *)
LaunchFails(first) ==
    /\ \/ /\ first /\ "cgroup" \in Faults              \* containerInit
          /\ UNCHANGED disk
       \/ /\ first /\ config.snapshot /\ "overlay" \in Faults
          /\ dir' = TRUE /\ UNCHANGED <<alias, overlay, fifos>>
       \/ /\ first /\ "alias" \in Faults               \* createInstancePathAlias
          /\ dir' = TRUE /\ overlay' = config.snapshot /\ UNCHANGED <<alias, fifos>>
       \/ /\ "pipe" \in Faults \/ FifosClash           \* os.Pipe ... os.MkdirAll
          /\ dir' = (first \/ dir) /\ alias' = (first \/ alias)
          /\ overlay' = IF first THEN config.snapshot ELSE overlay
          /\ UNCHANGED fifos
       \/ /\ "exec" \in Faults /\ ~FifosClash          \* pty.Start
          /\ dir' = (first \/ dir) /\ alias' = (first \/ alias)
          /\ overlay' = FALSE                          \* overlayUnmount
          /\ fifos' = config.fifos
    /\ SetErrorf
    /\ UNCHANGED <<cgroup, network, goroutines>>

(* The process has started. *)
StartProcess(g, first, p) ==
    /\ ~FifosClash
    /\ dir' = (first \/ dir) /\ alias' = (first \/ alias)
    /\ overlay' = IF first THEN config.snapshot ELSE overlay
    /\ fifos' = config.fifos
    /\ proc' = [proc EXCEPT ![g] = p]

(* launchNetwork fails: the symlink or the tap exists, OVS refuses the     *)
(* VLAN of a disconnected interface, or something else is wrong.           *)
NetworkFails == netns \/ nic \in taps \/ nic = Off \/ "net" \in Faults

(* launchNetwork or freeze fails.  The process is killed but not waited    *)
(* for, and the taps stay on their bridge.                                 *)
LaunchFailsNetwork(g, first) ==
    /\ \E p \in {"dying", "error"} : StartProcess(g, first, p)
    /\ \/ NetworkFails /\ UNCHANGED <<taps, cgroup>>
       \/ /\ ~netns /\ nic \notin taps /\ nic # Off
          /\ "freeze" \in Faults
          /\ taps' = taps \cup {nic}
          /\ cgroup' = IF cgroup = "none" THEN "thawed" ELSE cgroup
    /\ netns' = FALSE                                  \* unlinkNetns
    /\ SetErrorf
    /\ UNCHANGED <<nic, skewed, waiter, killer, killCh>>

(* launchNetwork succeeds.  The error of createVeth is lost in             *)
(* CreateContainerTap.                                                     *)
AttachNetwork ==
    /\ ~netns /\ nic \notin taps
    /\ \/ nic # Off /\ taps' = taps \cup {nic} /\ UNCHANGED skewed
       \/ "veth" \in Faults /\ UNCHANGED taps /\ skewed' = TRUE
    /\ netns' = TRUE
    /\ UNCHANGED nic

(* The goroutine in cmd.Wait, and the one that kills or cleans up. *)
SpawnGoroutines(g) ==
    /\ waiter' = [waiter EXCEPT ![g] = "waiting"]
    /\ killer' = [killer EXCEPT ![g] = "spawned"]
    /\ UNCHANGED killCh

(* A mutant of LaunchSucceeds that does not freeze the process. *)
LaunchThawed(g, first, p) ==
    /\ StartProcess(g, first, p)
    /\ AttachNetwork
    /\ cgroup' = "thawed"
    /\ SpawnGoroutines(g)

(* launch() succeeds: the process is frozen before it executes init. *)
LaunchSucceeds(g, first, p) ==
    /\ StartProcess(g, first, p)
    /\ AttachNetwork
    /\ cgroup' = "frozen"
    /\ SpawnGoroutines(g)

(* ContainerVM.Launch; launch() leaves the state at BUILDING when it       *)
(* succeeds.  The process may end before it is frozen.                     *)
Launch ==
    /\ pc = "launch"
    /\ \/ LaunchFails(TRUE)
       \/ LaunchFailsNetwork(gen, TRUE)
       \/ /\ \E p \in {"alive", "error"} : LaunchSucceeds(gen, TRUE, p)
          /\ UNCHANGED <<state, tagged, fatal>>
    /\ pc' = "idle"
    /\ UNCHANGED <<config, present, registered, gen, closed, reconnect>>

----------------------------------------------------------------------------
(* The process and the goroutines. *)

(* The process ends, by itself or by a signal; not while it is frozen. *)
ProcessExit(g) ==
    /\ Running(g) /\ cgroup # "frozen"
    /\ \E s \in IF proc[g] = "dying" THEN {"error"} ELSE {"clean", "error"} :
          proc' = [proc EXCEPT ![g] = s]
    /\ UNCHANGED <<config, state, tagged, present, disk, cgroup, network, registered, gen,
                   closed, waiter, killer, killCh, command, fatal>>

(* cmd.Wait returns; the goroutine blocks on errChan. *)
Wait(g) ==
    /\ Up /\ waiter[g] = "waiting" /\ Exited(g)
    /\ waiter' = [waiter EXCEPT ![g] = "sending"]
    /\ UNCHANGED <<config, state, tagged, present, disk, cgroup, network, registered, gen,
                   closed, proc, killer, killCh, command, fatal>>

(* The other goroutine evaluates vm.kill, without the lock, as it enters   *)
(* its select.                                                             *)
EnterSelect(g) ==
    /\ Up /\ killer[g] = "spawned"
    /\ killer' = [killer EXCEPT ![g] = "select"]
    /\ killCh' = [killCh EXCEPT ![g] = gen]
    /\ UNCHANGED <<config, state, tagged, present, disk, cgroup, network, registered, gen,
                   closed, proc, waiter, command, fatal>>

(* case err := <-errChan *)
SelectExited(g) ==
    /\ Up /\ killer[g] = "select" /\ waiter[g] = "sending"
    /\ killer' = [killer EXCEPT ![g] = "exited"]
    /\ waiter' = [waiter EXCEPT ![g] = "done"]
    /\ UNCHANGED <<config, state, tagged, present, disk, cgroup, network, registered, gen,
                   closed, proc, killCh, command, fatal>>

(* case <-vm.kill *)
SelectKill(g) ==
    /\ Up /\ killer[g] = "select" /\ killCh[g] \in closed
    /\ killer' = [killer EXCEPT ![g] = "kill"]
    /\ UNCHANGED <<config, state, tagged, present, disk, cgroup, network, registered, gen,
                   closed, proc, waiter, killCh, command, fatal>>

(* A mutant of CleanUp that leaves the taps to Flush, as for a KVM VM. *)
CleanUpKeepsTaps(g) ==
    /\ netns' = FALSE /\ UNCHANGED taps
    /\ cgroup' = IF \E h \in Gens \ {g} : Running(h) THEN cgroup ELSE "none"
    /\ UNCHANGED <<nic, skewed>>

(* The symlink, the taps and the cgroup go; os.Remove of a cgroup that has *)
(* tasks fails.                                                            *)
CleanUp(g) ==
    /\ netns' = FALSE
    /\ taps' = taps \ {IF nic = Off THEN Default ELSE nic}
    /\ cgroup' = IF \E h \in Gens \ {g} : Running(h) THEN cgroup ELSE "none"
    /\ UNCHANGED <<nic, skewed>>

(* The process ended by itself: its error is recorded, the VM is cleaned   *)
(* up, and the state becomes QUIT unless it is ERROR.                      *)
ExitedLocked(g) ==
    /\ Up /\ Unlocked /\ killer[g] = "exited"
    /\ CleanUp(g)
    /\ UNCHANGED disk
    /\ \/ proc[g] = "error" /\ SetErrorf
       \/ proc[g] # "error" /\ state = "ERROR" /\ UNCHANGED <<state, tagged, fatal>>
       \/ proc[g] # "error" /\ state # "ERROR" /\ SetState("QUIT")
    /\ killer' = [killer EXCEPT ![g] = "signal"]
    /\ UNCHANGED <<config, present, registered, gen, closed, proc, waiter, killCh, command>>

(* A mutant of KillLocked that does not thaw the container. *)
KillFrozen(g) ==
    /\ Up /\ Unlocked /\ killer[g] = "kill"
    /\ proc' = [proc EXCEPT ![g] = IF @ = "alive" THEN "dying" ELSE @]
    /\ killer' = [killer EXCEPT ![g] = "killing"]
    /\ UNCHANGED <<config, state, tagged, present, disk, cgroup, network, registered, gen,
                   closed, waiter, killCh, command, fatal>>

(* The container is killed and thawed ... *)
KillLocked(g) ==
    /\ Up /\ Unlocked /\ killer[g] = "kill"
    /\ proc' = [proc EXCEPT ![g] = IF @ = "alive" THEN "dying" ELSE @]
    /\ UNCHANGED disk
    /\ \/ /\ cgroup # "none"
          /\ cgroup' = "thawed" /\ UNCHANGED <<state, tagged, fatal>>
       \/ /\ cgroup = "none" \/ "thaw" \in Faults
          /\ SetErrorf /\ UNCHANGED cgroup
    /\ killer' = [killer EXCEPT ![g] = "killing"]
    /\ UNCHANGED <<config, present, network, registered, gen, closed, waiter, killCh, command>>

(* ... and, with vm.lock held, waited for: until the cgroup has no tasks   *)
(* or cannot be read, and errChan is drained.                              *)
Killed(g) ==
    /\ Up /\ killer[g] = "killing" /\ waiter[g] = "sending"
    /\ cgroup = "none" \/ \A h \in Gens : ~Running(h)
    /\ CleanUp(g)
    /\ UNCHANGED disk
    /\ \/ cgroup = "none" /\ SetErrorf
       \/ cgroup # "none" /\ state = "ERROR" /\ UNCHANGED <<state, tagged, fatal>>
       \/ cgroup # "none" /\ state # "ERROR" /\ SetState("QUIT")
    /\ killer' = [killer EXCEPT ![g] = "signal"]
    /\ waiter' = [waiter EXCEPT ![g] = "done"]
    /\ UNCHANGED <<config, present, registered, gen, closed, proc, killCh, command>>

(* The deferred cond.Signal, after the lock is released. *)
Signal(g) ==
    /\ Up /\ killer[g] = "signal"
    /\ killer' = [killer EXCEPT ![g] = "done"]
    /\ pc' = IF pc = "wait" THEN "woken" ELSE pc
    /\ UNCHANGED <<config, state, tagged, present, disk, cgroup, network, registered, gen,
                   closed, proc, waiter, killCh, reconnect, fatal>>

----------------------------------------------------------------------------
(* Commands.  Each takes vm.lock, GetState included. *)

Idle == Up /\ Unlocked /\ pc = "idle" /\ present

(* Namespace.Start looks at the state. *)
StartCheck(wild) ==
    /\ Idle /\ "start" \in Commands /\ gen < MaxLaunches
    /\ state \in {"BUILDING", "PAUSED"} \/ (state \in {"QUIT", "ERROR"} /\ ~wild)
    /\ pc' = "start" /\ reconnect' = (state # "BUILDING")
    /\ UNCHANGED <<config, state, tagged, present, disk, cgroup, network, registered, gen,
                   closed, goroutines, fatal>>

(* Connect registers the VM with the ron server the first time only. *)
Connect == registered' = (registered \/ ~reconnect)

(* The end of ContainerVM.Start: thaw the container. *)
ThawAndRun ==
    \/ /\ cgroup # "none" /\ cgroup' = "thawed"
       /\ SetState("RUNNING") /\ Connect
    \/ /\ cgroup = "none" \/ "thaw" \in Faults
       /\ SetErrorf /\ UNCHANGED <<cgroup, registered>>

Start ==
    /\ Up /\ Unlocked /\ pc = "start" /\ state \in {"BUILDING", "PAUSED"}
    /\ UNCHANGED disk
    /\ ThawAndRun
    /\ pc' = "idle"
    /\ UNCHANGED <<config, present, network, gen, closed, goroutines, reconnect>>

(* launch() of the next generation, which freezes the process, and thaw. *)
RelaunchThawed(p) ==
    /\ StartProcess(gen + 1, FALSE, p)
    /\ AttachNetwork
    /\ cgroup' = "thawed"
    /\ SpawnGoroutines(gen + 1)

(* A mutant of Relaunch that keeps the closed kill channel. *)
RelaunchKeepsChannel ==
    /\ Up /\ Unlocked /\ pc = "start" /\ state \in {"QUIT", "ERROR"}
    /\ gen' = gen + 1
    /\ closed' = closed \cup (IF gen \in closed THEN {gen + 1} ELSE {})
    /\ RelaunchThawed("alive") /\ SetState("RUNNING") /\ Connect
    /\ pc' = "idle"
    /\ UNCHANGED <<config, present, reconnect>>

(* ContainerVM.Start of a VM in QUIT or ERROR: a new kill channel,         *)
(* launch(), and then thaw.                                                *)
Relaunch ==
    /\ Up /\ Unlocked /\ pc = "start" /\ state \in {"QUIT", "ERROR"}
    /\ gen' = gen + 1
    /\ \/ LaunchFails(FALSE) /\ UNCHANGED registered
       \/ LaunchFailsNetwork(gen + 1, FALSE) /\ UNCHANGED registered
       \/ \E p \in {"alive", "error"} :
             \/ RelaunchThawed(p) /\ SetState("RUNNING") /\ Connect
             \/ /\ "thaw" \in Faults /\ LaunchSucceeds(gen + 1, FALSE, p)
                /\ SetErrorf /\ UNCHANGED registered
    /\ pc' = "idle"
    /\ UNCHANGED <<config, present, closed, reconnect>>

(* VMs.Stop and ContainerVM.Stop *)
Stop ==
    /\ Idle /\ "stop" \in Commands /\ state = "RUNNING"
    /\ UNCHANGED disk
    /\ \/ cgroup # "none" /\ cgroup' = "frozen" /\ SetState("PAUSED")
       \/ (cgroup = "none" \/ "freeze" \in Faults) /\ SetErrorf /\ UNCHANGED cgroup
    /\ UNCHANGED <<config, present, network, registered, gen, closed, goroutines, command>>

(* VMs.Kill and BaseVM.Kill up to cond.Wait; closing the channel a second  *)
(* time panics.                                                            *)
Kill ==
    /\ Idle /\ "kill" \in Commands /\ state \in Killable
    /\ IF gen \in closed THEN pc' = "panic" ELSE pc' = "wait"
    /\ closed' = closed \cup {gen}
    /\ UNCHANGED <<config, state, tagged, present, disk, cgroup, network, registered, gen,
                   goroutines, reconnect, fatal>>

(* Kill has the lock again and looks at the state. *)
KillResume ==
    /\ Up /\ Unlocked /\ pc = "woken"
    /\ pc' = IF state \in Killable THEN "wait" ELSE "idle"
    /\ UNCHANGED <<config, state, tagged, present, disk, cgroup, network, registered, gen,
                   closed, goroutines, reconnect, fatal>>

(* ContainerVM.Flush: umount the overlay, which fails when there is none   *)
(* or a process uses it, then BaseVM.Flush.                                *)
Unmounts == config.snapshot => overlay /\ \A g \in Gens : ~Running(g)

FlushSucceeds ==
    /\ Unmounts /\ alias
    /\ overlay' = FALSE /\ alias' = FALSE /\ dir' = FALSE /\ fifos' = FALSE

FlushFails ==
    \/ ~Unmounts /\ UNCHANGED disk
    \/ Unmounts /\ ~alias /\ overlay' = FALSE /\ UNCHANGED <<dir, alias, fifos>>

(* A mutant of Flush without the check of the state. *)
FlushAnyState ==
    /\ Idle /\ "flush" \in Commands
    /\ present' = FALSE /\ registered' = FALSE
    /\ UNCHANGED <<config, state, tagged, disk, cgroup, network, gen, closed, goroutines,
                   command, fatal>>

(* VMs.Flush of a VM in QUIT or ERROR, after Disconnect. *)
Flush ==
    /\ Idle /\ "flush" \in Commands /\ state \in {"QUIT", "ERROR"}
    /\ \/ FlushSucceeds /\ present' = FALSE
       \/ FlushFails /\ UNCHANGED present
    /\ registered' = FALSE
    /\ UNCHANGED <<config, state, tagged, cgroup, network, gen, closed, goroutines,
                   command, fatal>>

(* VMs.FlushAll forgets the VM whether or not Flush succeeds. *)
FlushAll ==
    /\ Idle /\ "flush" \in Commands /\ state \in {"QUIT", "ERROR"}
    /\ FlushSucceeds \/ FlushFails
    /\ present' = FALSE /\ registered' = FALSE
    /\ UNCHANGED <<config, state, tagged, cgroup, network, gen, closed, goroutines,
                   command, fatal>>

(* BaseVM.networkConnect moves the tap: off its bridge, if the             *)
(* configuration names one, and onto the new one.  When AddTap fails, the  *)
(* tap is on no bridge and the configuration is unchanged.                 *)
MoveTap(to) ==
    LET left == taps \ {nic} IN
    /\ nic # Off => nic \in taps                       \* RemoveTap
    /\ \/ to \notin left /\ taps' = left \cup {to} /\ nic' = to /\ UNCHANGED skewed
       \/ /\ to \in left \/ "addtap" \in Faults
          /\ taps' = left /\ skewed' = TRUE /\ UNCHANGED nic

(* ContainerVM.NetworkConnect: in RUNNING and PAUSED the tap is moved, in  *)
(* the other states only the configuration changes.                        *)
NetworkConnect(to) ==
    /\ Idle /\ "connect" \in Commands
    /\ \/ state \in {"RUNNING", "PAUSED"} /\ MoveTap(to)
       \/ /\ state \notin {"RUNNING", "PAUSED"}
          /\ nic' = to /\ UNCHANGED taps
          /\ skewed' = (skewed \/ (state = "BUILDING" /\ to # nic))
    /\ UNCHANGED <<config, state, tagged, present, disk, cgroup, netns, registered, gen,
                   closed, goroutines, command, fatal>>

(* ContainerVM.NetworkDisconnect *)
NetworkDisconnect ==
    /\ Idle /\ "connect" \in Commands /\ nic # Off
    /\ nic' = Off
    /\ \/ /\ state \in {"RUNNING", "PAUSED"} /\ nic \in taps
          /\ taps' = taps \ {nic} /\ UNCHANGED skewed
       \/ /\ state \notin {"RUNNING", "PAUSED"}
          /\ UNCHANGED taps /\ skewed' = (skewed \/ state = "BUILDING")
    /\ UNCHANGED <<config, state, tagged, present, disk, cgroup, netns, registered, gen,
                   closed, goroutines, command, fatal>>

----------------------------------------------------------------------------
CLI ==
    \/ \E wild \in BOOLEAN : StartCheck(wild)
    \/ Stop \/ Kill \/ Flush \/ FlushAll
    \/ \E to \in Bridges : NetworkConnect(to)
    \/ NetworkDisconnect

Continue == Launch \/ Start \/ Relaunch \/ KillResume

Killer(g) ==
    \/ EnterSelect(g) \/ SelectExited(g) \/ SelectKill(g) \/ ExitedLocked(g)
    \/ KillLocked(g) \/ Killed(g) \/ Signal(g)

Next == CLI \/ Continue \/ \E g \in Gens : Wait(g) \/ Killer(g) \/ ProcessExit(g)

(* Goroutines are scheduled, a command that has begun runs on, and a       *)
(* process that was sent SIGKILL ends once it is thawed.                   *)
Fairness ==
    /\ WF_vars(Continue)
    /\ \A g \in Gens : /\ WF_vars(Wait(g))
                       /\ WF_vars(Killer(g))
                       /\ WF_vars(proc[g] = "dying" /\ ProcessExit(g))

Spec == Init /\ [][Next]_vars /\ Fairness

----------------------------------------------------------------------------
(* What holds whatever fails. *)

(* A container implements the promise of the interface VM: its State       *)
(* follows its one process, until an error is recorded (launch, Start,     *)
(* Kill and Flush together with the goroutines of launch).                 *)
ProcOfVM ==
    IF \E g \in Gens : Running(g) THEN "live"
    ELSE IF \E g \in Gens : proc[g] # "none" THEN "gone" ELSE "none"

Promise == INSTANCE VM WITH faulted <- tagged, proc <- ProcOfVM

ImplementsVM == Promise!Spec

(* BaseVM.Kill never closes a kill channel twice (Go would panic), and     *)
(* finds a goroutine that listens on the current one and has not left for  *)
(* good: there is somebody to kill the container and to wake Kill up.      *)
KillIsHeard ==
    /\ pc # "panic"
    /\ pc # "launch" /\ state \in Killable =>
          /\ gen \in closed => pc \in {"wait", "woken"}
          /\ killCh[gen] = gen
          /\ killer[gen] \in {"spawned", "select", "exited", "kill", "killing"}

(* The above, in states that are well formed. *)
KillSound == TypeOK /\ KillIsHeard

(* "In order to synchronize freezing the container before we call init"    *)
(* (containerShim): a live container runs only while its State says so,    *)
(* and a paused or new one is frozen.                                      *)
FrozenUnlessRunning ==
    ~tagged => \A g \in Gens :
        proc[g] = "alive" => cgroup = (IF state = "RUNNING" THEN "thawed" ELSE "frozen")

(* "We MUST create/destroy taps on launch/kill boundaries" (launch): the   *)
(* tap of a container is on the bridge of its configuration while it       *)
(* lives, and on none when it has ended.                                   *)
TapsFollow ==
    ~tagged /\ ~skewed /\ pc # "launch" =>
        taps = IF state \in Killable /\ nic # Off THEN {nic} ELSE {}

(* Kill, which waits for the killing goroutine, which keeps vm.lock until  *)
(* the tasks are gone, returns; unless thawing failed, which leaves the    *)
(* container frozen and vm.lock taken.                                     *)
KillReturns == pc \in {"wait", "woken"} ~> (pc = "idle" \/ tagged)

----------------------------------------------------------------------------
(* What the repository says and the code does not do. *)

(* "Containers only have taps while they are running" (NetworkConnect):    *)
(* the interface of a running or paused container is where its             *)
(* configuration says.  A container in BUILDING has its taps already, and  *)
(* NetworkConnect changes only its configuration then.                     *)
ConnectedAsConfigured ==
    ~tagged /\ state \in {"RUNNING", "PAUSED"} =>
        taps = IF nic # Off THEN {nic} ELSE {}

(* "Create a new channel since we closed the other one": a container that  *)
(* has quit can be started again.  With fifos it cannot, for Mkfifo finds  *)
(* those of the first launch.                                              *)
QuitCanRestart == [][Relaunch /\ Faults = {} => state' = "RUNNING"]_vars

(* "This will remove VMs with a state of quit or error from vm info"       *)
(* (vm_cli.go): after launch() has unmounted the overlay, or failed to     *)
(* mount it, `vm flush' of the VM always fails.                            *)
FlushRemoves == [][Flush => ~present']_vars
============================================================================
