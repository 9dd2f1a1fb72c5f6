------------------------------- MODULE KvmVM -------------------------------
(***************************************************************************)
(* The life of one KVM virtual machine: the struct of minimega's kvm.go    *)
(* and vm.go, the qemu processes that launch() starts, the two goroutines  *)
(* it leaves behind for each of them (one waits for the process, the other *)
(* waits to kill it), and the commands `vm launch', `vm start', `vm stop', *)
(* `vm kill', `vm flush' and `vm migrate'.                                 *)
(*                                                                         *)
(* cmdLock lets one command run at a time.  What a command or a goroutine  *)
(* does between taking and releasing vm.lock is one step; a command that   *)
(* gives the lock up in between (Kill in cond.Wait, Namespace.Start        *)
(* between GetState and Start) takes several.                              *)
(*                                                                         *)
(* Every call of launch() belongs to one kill channel: NewBaseVM makes the *)
(* first one and Start makes a new one before it launches again.  The      *)
(* number of that channel, gen, also names the process and its goroutines. *)
(***************************************************************************)
EXTENDS Naturals, FiniteSets

CONSTANTS
    MaxLaunches,  \* bound on the launches of this VM
    NICs,         \* the VM's network interfaces
    Commands,     \* the commands the user gives
    Faults        \* what may fail in the environment

Gens == 1 .. MaxLaunches

States == {"BUILDING", "RUNNING", "PAUSED", "QUIT", "ERROR"}
Killable == {"BUILDING", "RUNNING", "PAUSED"}

AllCommands == {"start", "stop", "kill", "flush", "migrate"}

(* Steps that can fail: the snapshot of a disk, the symlink to the         *)
(* instance path, the taps or the start of qemu, the connection to QMP or  *)
(* the listener for VNC, the QMP commands cont and stop of a live qemu,    *)
(* and the look-up of a bridge in Flush.                                   *)
AllFaults == {"disk", "alias", "exec", "connect", "cont", "stop", "bridge"}

ASSUME LaunchesAssumption == MaxLaunches \in Nat \ {0}
ASSUME CommandsAssumption == Commands \subseteq AllCommands
ASSUME FaultsAssumption == Faults \subseteq AllFaults

VARIABLES
    state,       \* vm.State
    tagged,      \* setErrorf has recorded an error in vm.Tags
    present,     \* the VM is in vms.m
    dir,         \* the instance path exists
    alias,       \* the symlink to the instance path exists
    snap,        \* the disks have their snapshots
    tap,         \* the interfaces whose tap has a name in the VM's configuration
    taps,        \* the interfaces whose tap exists
    registered,  \* the VM is registered with the ron server
    gen,         \* the current kill channel
    closed,      \* the kill channels that are closed
    proc,        \* the qemu process of each launch
    base,        \* the launches whose qemu runs on the disk images themselves
    waiter,      \* the goroutine in cmd.Wait of each launch
    killer,      \* the goroutine that selects on waitChan and vm.kill
    killCh,      \* the channel that goroutine read from vm.kill
    vncShim,     \* the launch that made vm.vncShim, 0 for nil
    shims,       \* the VNC listeners that are open
    pc,          \* where the command in progress is
    start,       \* arguments of the `vm start' in progress
    fatal,       \* mustWrite failed: log.Fatal has ended minimega
    migrated     \* `vm migrate' was given

disk == <<dir, alias, snap>>
network == <<tap, taps>>
goroutines == <<proc, base, waiter, killer, killCh>>
shim == <<vncShim, shims>>
command == <<pc, start>>
vars == <<state, tagged, present, disk, network, registered, gen, closed, goroutines,
          shim, command, fatal, migrated>>

ProcStates == {"none", "alive", "dying", "killed", "clean", "error"}
WaiterStates == {"none", "waiting", "reaped", "done"}
KillerStates == {"none", "spawned", "select", "killing", "signal", "done"}

(* The state is one of VMState, and every launch has at most one process,  *)
(* one goroutine that waits for it and one that kills it (launch).         *)
TypeOK ==
    /\ state \in States
    /\ present \in BOOLEAN /\ dir \in BOOLEAN /\ alias \in BOOLEAN
    /\ tagged \in BOOLEAN /\ snap \in BOOLEAN /\ registered \in BOOLEAN
    /\ fatal \in BOOLEAN /\ migrated \in BOOLEAN
    /\ tap \in SUBSET NICs /\ taps \in SUBSET NICs
    /\ gen \in Gens
    /\ closed \in SUBSET Gens
    /\ proc \in [Gens -> ProcStates]
    /\ base \in SUBSET Gens
    /\ waiter \in [Gens -> WaiterStates]
    /\ killer \in [Gens -> KillerStates]
    /\ killCh \in [Gens -> Gens]
    /\ vncShim \in Gens \cup {0}
    /\ shims \in SUBSET Gens
    /\ pc \in {"launch", "idle", "start", "wait", "woken", "panic"}
    /\ start \in [wild : BOOLEAN, reconnect : BOOLEAN]

(* NewBaseVM: the VM is locked and in vms.m, so that Launch comes first. *)
Init ==
    /\ state = "BUILDING" /\ tagged = FALSE /\ present = TRUE
    /\ dir = FALSE /\ alias = FALSE /\ snap = FALSE
    /\ tap = {} /\ taps = {} /\ registered = FALSE
    /\ gen = 1 /\ closed = {}
    /\ proc = [g \in Gens |-> "none"]
    /\ base = {}
    /\ waiter = [g \in Gens |-> "none"]
    /\ killer = [g \in Gens |-> "none"]
    /\ killCh = [g \in Gens |-> g]
    /\ vncShim = 0 /\ shims = {}
    /\ pc = "launch"
    /\ start = [wild |-> FALSE, reconnect |-> FALSE]
    /\ fatal = FALSE /\ migrated = FALSE

Running(g) == proc[g] \in {"alive", "dying"}
Exited(g) == proc[g] \in {"killed", "clean", "error"}

(* setState and setErrorf *)
SetState(s) == state' = s /\ UNCHANGED tagged
SetErrorf == state' = "ERROR" /\ tagged' = TRUE

(* log.Fatal and a panic end minimega. *)
Up == ~fatal /\ pc # "panic"

----------------------------------------------------------------------------
(* launch() of generation g.  The part guarded by State == VM_BUILDING is  *)
(* done only by the first launch; the rest is common to all.               *)

(* launch() returns before it starts qemu. *)
LaunchFails(first) ==
    /\ \/ /\ first /\ "disk" \in Faults            \* diskSnapshot
          /\ UNCHANGED <<alias, snap, network>>
       \/ /\ first /\ "alias" \in Faults           \* createInstancePathAlias
          /\ snap' = TRUE
          /\ UNCHANGED <<alias, network>>
       \/ /\ "exec" \in Faults                     \* CreateTap ... cmd.Start
          /\ snap' = (first \/ snap) /\ alias' = (first \/ alias)
          /\ \E made \in SUBSET (NICs \ tap) :
                tap' = tap \cup made /\ taps' = taps \cup made
    /\ dir' = (first \/ dir)
    /\ SetErrorf
    /\ UNCHANGED <<goroutines, shim>>

(* cmd.Start has succeeded: qemu uses the snapshots if there are any, and  *)
(* the first goroutine waits for it.                                       *)
StartQemu(g, first, p) ==
    /\ snap' = (first \/ snap) /\ alias' = (first \/ alias) /\ dir' = (first \/ dir)
    /\ tap' = NICs /\ taps' = taps \cup (NICs \ tap)
    /\ proc' = [proc EXCEPT ![g] = p]
    /\ base' = IF first \/ snap THEN base ELSE base \cup {g}
    /\ waiter' = [waiter EXCEPT ![g] = "waiting"]

(* connectQMP or connectVNC fails: the process is killed, or has ended     *)
(* already, and the second goroutine is never started.                     *)
LaunchFailsConnect(g, first) ==
    /\ "connect" \in Faults
    /\ \E p \in {"dying", "error"} : StartQemu(g, first, p)
    /\ SetErrorf
    /\ UNCHANGED <<killer, killCh, shim>>

(* A mutant of LaunchSucceeds that does not store the new VNC listener. *)
LaunchKeepsShim(g, first, p) ==
    /\ StartQemu(g, first, p)
    /\ vncShim' = (IF vncShim = 0 THEN g ELSE vncShim) /\ shims' = shims \cup {g}
    /\ killer' = [killer EXCEPT ![g] = "spawned"]
    /\ UNCHANGED killCh

(* launch() succeeds; the second goroutine has not reached its select yet. *)
LaunchSucceeds(g, first, p) ==
    /\ StartQemu(g, first, p)
    /\ vncShim' = g /\ shims' = shims \cup {g}
    /\ killer' = [killer EXCEPT ![g] = "spawned"]
    /\ UNCHANGED killCh

(* KvmVM.Launch; launch() leaves the state at BUILDING when it succeeds. *)
Launch ==
    /\ pc = "launch"
    /\ \/ LaunchFails(TRUE)
       \/ LaunchFailsConnect(gen, TRUE)
       \/ LaunchSucceeds(gen, TRUE, "alive") /\ UNCHANGED <<state, tagged>>
    /\ pc' = "idle"
    /\ UNCHANGED <<present, registered, gen, closed, start, fatal, migrated>>

----------------------------------------------------------------------------
(* The processes and the goroutines. *)

(* qemu ends: by itself, by someone else's signal, or by minimega's. *)
ProcessExit(g) ==
    /\ \/ proc[g] = "alive" /\ \E s \in {"clean", "error", "killed"} :
                                   proc' = [proc EXCEPT ![g] = s]
       \/ proc[g] = "dying" /\ proc' = [proc EXCEPT ![g] = "killed"]
    /\ UNCHANGED <<state, tagged, present, disk, network, registered, gen, closed, base,
                   waiter, killer, killCh, shim, command, fatal, migrated>>

(* A mutant of Reap that writes the exit status as the state. *)
ReapWritesStatus(g) ==
    /\ Up /\ waiter[g] = "waiting" /\ Exited(g)
    /\ IF proc[g] = "error" THEN SetErrorf ELSE SetState(proc[g])
    /\ fatal' = (fatal \/ (~dir /\ (proc[g] = "error" \/ state # "ERROR")))
    /\ shims' = shims \ {vncShim}
    /\ waiter' = [waiter EXCEPT ![g] = "reaped"]
    /\ UNCHANGED <<present, disk, network, registered, gen, closed, proc, base,
                   killer, killCh, vncShim, command, migrated>>

(* cmd.Wait returns and the goroutine takes the lock: the state becomes    *)
(* ERROR if the process was not killed, QUIT unless it is ERROR already,   *)
(* and the VNC listener of the VM is closed.  setState writes a file in    *)
(* the instance path, and ends minimega if it cannot.                      *)
Reap(g) ==
    /\ Up /\ waiter[g] = "waiting" /\ Exited(g)
    /\ IF proc[g] = "error" THEN SetErrorf
       ELSE SetState(IF state = "ERROR" THEN "ERROR" ELSE "QUIT")
    /\ fatal' = (fatal \/ (~dir /\ (proc[g] = "error" \/ state # "ERROR")))
    /\ shims' = shims \ {vncShim}
    /\ waiter' = [waiter EXCEPT ![g] = "reaped"]
    /\ UNCHANGED <<present, disk, network, registered, gen, closed, proc, base,
                   killer, killCh, vncShim, command, migrated>>

(* The deferred close(waitChan), after the lock is released. *)
CloseWaitChan(g) ==
    /\ Up /\ waiter[g] = "reaped"
    /\ waiter' = [waiter EXCEPT ![g] = "done"]
    /\ UNCHANGED <<state, tagged, present, disk, network, registered, gen, closed, proc,
                   base, killer, killCh, shim, command, fatal, migrated>>

(* The second goroutine evaluates vm.kill, without the lock, as it enters  *)
(* its select.                                                             *)
EnterSelect(g) ==
    /\ Up /\ killer[g] = "spawned"
    /\ killer' = [killer EXCEPT ![g] = "select"]
    /\ killCh' = [killCh EXCEPT ![g] = gen]
    /\ UNCHANGED <<state, tagged, present, disk, network, registered, gen, closed, proc,
                   base, waiter, shim, command, fatal, migrated>>

(* case <-waitChan *)
SelectExited(g) ==
    /\ Up /\ killer[g] = "select" /\ waiter[g] = "done"
    /\ killer' = [killer EXCEPT ![g] = "signal"]
    /\ UNCHANGED <<state, tagged, present, disk, network, registered, gen, closed, proc,
                   base, waiter, killCh, shim, command, fatal, migrated>>

(* case <-vm.kill: the process is killed ... *)
SelectKill(g) ==
    /\ Up /\ killer[g] = "select" /\ killCh[g] \in closed
    /\ killer' = [killer EXCEPT ![g] = "killing"]
    /\ proc' = [proc EXCEPT ![g] = IF @ = "alive" THEN "dying" ELSE @]
    /\ UNCHANGED <<state, tagged, present, disk, network, registered, gen, closed, base,
                   waiter, killCh, shim, command, fatal, migrated>>

(* ... and waited for. *)
KilledExited(g) ==
    /\ Up /\ killer[g] = "killing" /\ waiter[g] = "done"
    /\ killer' = [killer EXCEPT ![g] = "signal"]
    /\ UNCHANGED <<state, tagged, present, disk, network, registered, gen, closed, proc,
                   base, waiter, killCh, shim, command, fatal, migrated>>

(* A mutant of Signal: without the defer only a killed VM wakes Kill up. *)
SignalOnKillOnly(g) ==
    /\ Up /\ killer[g] = "signal"
    /\ killer' = [killer EXCEPT ![g] = "done"]
    /\ pc' = IF pc = "wait" /\ proc[g] = "killed" THEN "woken" ELSE pc
    /\ UNCHANGED <<state, tagged, present, disk, network, registered, gen, closed, proc,
                   base, waiter, killCh, shim, start, fatal, migrated>>

(* The deferred cond.Signal wakes the Kill that waits, if one does. *)
Signal(g) ==
    /\ Up /\ killer[g] = "signal"
    /\ killer' = [killer EXCEPT ![g] = "done"]
    /\ pc' = IF pc = "wait" THEN "woken" ELSE pc
    /\ UNCHANGED <<state, tagged, present, disk, network, registered, gen, closed, proc,
                   base, waiter, killCh, shim, start, fatal, migrated>>

----------------------------------------------------------------------------
(* Commands. *)

Idle == Up /\ pc = "idle" /\ present

(* Namespace.Start looks at the state and decides whether to start the VM  *)
(* and whether it was connected before.                                    *)
StartCheck(wild) ==
    /\ Idle /\ "start" \in Commands /\ gen < MaxLaunches
    /\ state \in {"BUILDING", "PAUSED"} \/ (state \in {"QUIT", "ERROR"} /\ ~wild)
    /\ pc' = "start"
    /\ start' = [wild |-> wild, reconnect |-> state # "BUILDING"]
    /\ UNCHANGED <<state, tagged, present, disk, network, registered, gen, closed,
                   goroutines, shim, fatal, migrated>>

(* q.Start and q.Stop report an error when qemu refuses, and may do so     *)
(* when it is gone.  They may report success as well when it is gone:      *)
(* the reply channel is closed then, and success() holds of a nil reply.   *)
QmpErr(fault) == fault \in Faults \/ proc[gen] # "alive"

(* Connect registers the VM with the ron server the first time only. *)
Connect == registered' = (registered \/ ~start.reconnect)

(* KvmVM.Start of a VM that has not ended. *)
Start ==
    /\ pc = "start" /\ state \in {"BUILDING", "PAUSED"}
    /\ \/ SetState("RUNNING") /\ Connect
       \/ QmpErr("cont") /\ SetErrorf /\ UNCHANGED registered
    /\ pc' = "idle"
    /\ UNCHANGED <<present, disk, network, gen, closed, goroutines, shim,
                   start, fatal, migrated>>

(* A mutant of Relaunch that keeps the closed kill channel. *)
RelaunchKeepsChannel ==
    /\ pc = "start" /\ state \in {"QUIT", "ERROR"}
    /\ gen' = gen + 1
    /\ closed' = closed \cup (IF gen \in closed THEN {gen + 1} ELSE {})
    /\ LaunchSucceeds(gen + 1, FALSE, "alive") /\ SetState("RUNNING") /\ Connect
    /\ pc' = "idle"
    /\ UNCHANGED <<present, start, fatal, migrated>>

(* KvmVM.Start of a VM in QUIT or ERROR: a new kill channel, launch() and  *)
(* then q.Start on the new process, which may have ended in the meantime.  *)
Relaunch ==
    /\ pc = "start" /\ state \in {"QUIT", "ERROR"}
    /\ gen' = gen + 1
    /\ \/ LaunchFails(FALSE) /\ UNCHANGED registered
       \/ LaunchFailsConnect(gen + 1, FALSE) /\ UNCHANGED registered
       \/ /\ LaunchSucceeds(gen + 1, FALSE, "alive")
          /\ \/ SetState("RUNNING") /\ Connect
             \/ "cont" \in Faults /\ SetErrorf /\ UNCHANGED registered
       \/ /\ \E p \in {"clean", "error", "killed"} : LaunchSucceeds(gen + 1, FALSE, p)
          /\ SetErrorf /\ UNCHANGED registered
    /\ pc' = "idle"
    /\ UNCHANGED <<present, closed, start, fatal, migrated>>

(* VMs.Stop and KvmVM.Stop *)
Stop ==
    /\ Idle /\ "stop" \in Commands /\ state = "RUNNING"
    /\ \/ SetState("PAUSED")
       \/ QmpErr("stop") /\ SetErrorf
    /\ UNCHANGED <<present, disk, network, registered, gen, closed, goroutines,
                   shim, command, fatal, migrated>>

(* VMs.Kill and BaseVM.Kill up to cond.Wait; closing the channel a second  *)
(* time panics.                                                            *)
Kill ==
    /\ Idle /\ "kill" \in Commands /\ state \in Killable
    /\ IF gen \in closed THEN pc' = "panic" ELSE pc' = "wait"
    /\ closed' = closed \cup {gen}
    /\ UNCHANGED <<state, tagged, present, disk, network, registered, gen, goroutines,
                   shim, start, fatal, migrated>>

(* Kill has the lock again and looks at the state. *)
KillResume ==
    /\ pc = "woken"
    /\ pc' = IF state \in Killable THEN "wait" ELSE "idle"
    /\ UNCHANGED <<state, tagged, present, disk, network, registered, gen, closed,
                   goroutines, shim, start, fatal, migrated>>

(* VMs.Flush and VMs.FlushAll of a VM in QUIT or ERROR: Disconnect from    *)
(* ron, destroy the taps, remove the symlink and the instance path.        *)
FlushSucceeds == alias /\ taps' = {} /\ alias' = FALSE /\ dir' = FALSE

FlushFails ==
    /\ \/ "bridge" \in Faults /\ taps' \in SUBSET taps   \* getBridge
       \/ ~alias /\ taps' = {}                           \* os.Remove(vmAlias)
    /\ UNCHANGED <<alias, dir>>

(* A mutant of Flush without the check of the state. *)
FlushAnyState ==
    /\ Idle /\ "flush" \in Commands
    /\ FlushSucceeds /\ present' = FALSE
    /\ registered' = FALSE
    /\ UNCHANGED <<state, tagged, snap, tap, gen, closed, goroutines, shim,
                   command, fatal, migrated>>

Flush ==
    /\ Idle /\ "flush" \in Commands /\ state \in {"QUIT", "ERROR"}
    /\ \/ FlushSucceeds /\ present' = FALSE
       \/ FlushFails /\ UNCHANGED present
    /\ registered' = FALSE
    /\ UNCHANGED <<state, tagged, snap, tap, gen, closed, goroutines, shim,
                   command, fatal, migrated>>

FlushAll ==
    /\ Idle /\ "flush" \in Commands /\ state \in {"QUIT", "ERROR"}
    /\ FlushSucceeds \/ FlushFails
    /\ present' = FALSE
    /\ registered' = FALSE
    /\ UNCHANGED <<state, tagged, snap, tap, gen, closed, goroutines, shim,
                   command, fatal, migrated>>

(* KvmVM.Migrate: "migrating the VM will pause it". *)
Migrate ==
    /\ Idle /\ "migrate" \in Commands
    /\ SetState("PAUSED")
    /\ migrated' = TRUE
    /\ UNCHANGED <<present, disk, network, registered, gen, closed, goroutines,
                   shim, command, fatal>>

----------------------------------------------------------------------------
CLI ==
    \/ \E wild \in BOOLEAN : StartCheck(wild)
    \/ Stop \/ Kill \/ Flush \/ FlushAll \/ Migrate

Continue == Launch \/ Start \/ Relaunch \/ KillResume

Waiter(g) == Reap(g) \/ CloseWaitChan(g)

Killer(g) ==
    \/ EnterSelect(g) \/ SelectExited(g) \/ SelectKill(g) \/ KilledExited(g)
    \/ Signal(g)

Next == CLI \/ Continue \/ \E g \in Gens : Waiter(g) \/ Killer(g) \/ ProcessExit(g)

(* Goroutines are scheduled, a command that has begun runs on, and a       *)
(* process that was sent SIGKILL ends.  Nothing obliges a user to give a   *)
(* command or a healthy qemu to end.                                       *)
Fairness ==
    /\ WF_vars(Continue)
    /\ \A g \in Gens : /\ WF_vars(Waiter(g))
                       /\ WF_vars(Killer(g))
                       /\ WF_vars(proc[g] = "dying" /\ ProcessExit(g))

Spec == Init /\ [][Next]_vars /\ Fairness

----------------------------------------------------------------------------
(* What holds whatever fails, until the VM is migrated: Migrate writes     *)
(* PAUSED also in the states that mean that qemu has ended.                *)

(* The KVM VM keeps the promise of the interface VM: its state follows the *)
(* one process it has, whichever launch that is, until an error is         *)
(* recorded or it is migrated, and the end of the process is noticed.      *)
ProcOfVM ==
    IF \E g \in Gens : Running(g) THEN "live"
    ELSE IF \E g \in Gens : proc[g] # "none" THEN "gone" ELSE "none"

Promise == INSTANCE VM WITH faulted <- tagged \/ migrated, proc <- ProcOfVM

ImplementsVM == Promise!Spec

(* BaseVM.Kill never closes a kill channel twice (Go would panic): Start   *)
(* makes a new one before a VM that ended can become killable again.       *)
NoDoubleClose ==
    ~migrated => pc # "panic" /\ (pc = "idle" /\ state \in Killable => gen \notin closed)

(* A VM in one of the states "that can be killed" (vmstate.go) has a       *)
(* process that is still waited for and a goroutine that listens on the    *)
(* current kill channel: Kill finds someone to kill and to wake it up.     *)
KillableHasProcess ==
    ~migrated /\ pc # "launch" /\ state \in Killable =>
        /\ waiter[gen] = "waiting"
        /\ killer[gen] \in {"spawned", "select", "killing"}
        /\ killCh[gen] = gen

(* Both together: whenever Kill is given, it closes a channel that is open *)
(* and that the goroutine of the current qemu listens on.                  *)
KillSound == NoDoubleClose /\ KillableHasProcess

(* "Kill a VM.  Blocks until the VM process has terminated": every Kill    *)
(* that waits returns, also when goroutines of earlier launches signal the *)
(* condition variable before the state has changed.                        *)
KillReturns == pc \in {"wait", "woken"} ~> (pc = "idle" \/ migrated)

(* A VM in QUIT or ERROR, or one that was flushed, leaves no qemu behind:  *)
(* those states cannot be killed, so the process would stay for good.  It  *)
(* holds until setErrorf has recorded an error: a command that puts the VM *)
(* in ERROR does so without ending qemu, and when the VM is then started   *)
(* again, the goroutine that waits for the old qemu writes the state of    *)
(* the new one.                                                            *)
UnkillableIsDead ==
    ~tagged /\ state \notin Killable => \A g \in Gens : ~Running(g)

(* Until then there are never two qemus on the disks of one VM. *)
OneProcess ==
    ~tagged => \A g, h \in Gens : Running(g) /\ Running(h) => g = h

(* Until then the VNC listener of a live qemu is open and no other is: the *)
(* goroutine that waits for a process closes the listener that belongs to  *)
(* it.                                                                     *)
ShimsServed ==
    ~tagged => \A g \in Gens :
        g \in shims <=> waiter[g] = "waiting" /\ killer[g] # "none"

(* A VM without an error has its one process and its one listener. *)
LifeSound == UnkillableIsDead /\ OneProcess /\ ShimsServed

(* Until then no goroutine writes a state into an instance path that Flush *)
(* has removed, which would end minimega (mustWrite).                      *)
NoFatal == ~tagged => ~fatal

----------------------------------------------------------------------------
(* What the repository says and the code does not do. *)

(* "When used with the wildcard, only vms in the building or paused state  *)
(* will be started" (vm_cli.go): a wildcard start never launches a VM that *)
(* has quit.                                                               *)
WildcardStartsPaused == [][Relaunch => ~start.wild]_vars

(* "Kill a VM.  Blocks until the VM process has terminated" (vm.go): when  *)
(* Kill returns, no qemu of the VM is left running.                        *)
KillTerminates ==
    [][pc = "woken" /\ pc' = "idle" => \A g \in Gens : proc[g] # "alive"]_vars

(* "When enabled, disks/filesystems will have temporary snapshots created" *)
(* (vmconfig.go): no qemu runs on the disk images themselves.              *)
SnapshotsUsed == base = {}

(* "This will remove VMs with a state of quit or error from vm info"       *)
(* (vm_cli.go): `vm flush' of a VM in those states removes it.             *)
FlushRemoves == [][Flush => ~present']_vars

(* "tap has already been created, don't need to do again" (launch): an     *)
(* interface that has the name of a tap has the tap when qemu runs.        *)
TapsHeld == \A g \in Gens : Running(g) => tap \subseteq taps

(* "Start VMs matching target and setup interactions with namespace such   *)
(* as connecting them to the correct ron.Server" (namespace.go): a VM that *)
(* was started is registered with ron.                                     *)
StartedIsRegistered == state = "RUNNING" => registered
============================================================================
