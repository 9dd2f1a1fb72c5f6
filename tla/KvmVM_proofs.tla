---------------------------- MODULE KvmVM_proofs ----------------------------
(***************************************************************************)
(* Proofs about KvmVM, for any number of launches and interfaces, any set  *)
(* of commands and any set of faults.                                      *)
(***************************************************************************)
EXTENDS KvmVM, TLAPS

(* A command that has decided to start the VM has one launch left. *)
TypeInv == TypeOK /\ (pc = "start" => gen < MaxLaunches)

(* The inductive invariant behind NoDoubleClose and KillableHasProcess: a  *)
(* VM that can be killed has its current kill channel closed only while a  *)
(* Kill waits, and nothing of a launch exists before its channel does.     *)
Fresh(g) == waiter[g] = "none" /\ killer[g] = "none" /\ killCh[g] = g

Served ==
    pc # "launch" /\ state \in Killable =>
        /\ waiter[gen] = "waiting"
        /\ killer[gen] \in {"spawned", "select", "killing"}
        /\ killCh[gen] = gen

Kills ==
    /\ pc # "panic"
    /\ state \in Killable /\ gen \in closed => pc \in {"wait", "woken"}
    /\ \A g \in closed : g <= gen
    /\ \A g \in Gens : g > gen => Fresh(g)
    /\ pc = "launch" => closed = {} /\ Fresh(gen)
    /\ Served

KillInv == ~migrated => Kills

(* The inductive invariant behind what holds of a VM without an error: the *)
(* only process that is waited for is the current one, which runs only     *)
(* then, owns the VNC listener and has an instance path to report to.      *)
Clean ==
    \A g \in Gens :
        /\ Running(g) => waiter[g] = "waiting"
        /\ waiter[g] = "waiting" =>
              /\ g = gen /\ vncShim = gen
              /\ killer[g] # "none"
              /\ state \in Killable
              /\ present /\ pc # "launch"
        /\ g \in shims <=> waiter[g] = "waiting"

LifeInv ==
    /\ pc = "launch" \/ pc = "start" => present
    /\ pc = "launch" => state = "BUILDING" /\ ~tagged
    /\ present /\ pc # "launch" => dir
    /\ ~tagged => Clean /\ ~fatal

----------------------------------------------------------------------------
(* NewBaseVM gives every field a value of its type. *)
LEMMA TypeInit == Init => TypeInv
<1>1. ASSUME Init
      PROVE  /\ proc \in [Gens -> ProcStates]
             /\ waiter \in [Gens -> WaiterStates]
             /\ killer \in [Gens -> KillerStates]
             /\ killCh \in [Gens -> Gens]
             /\ gen \in Gens
  BY <1>1, LaunchesAssumption DEF Init, ProcStates, WaiterStates, KillerStates, Gens
<1>2. ASSUME Init
      PROVE  start \in [wild : BOOLEAN, reconnect : BOOLEAN]
  BY <1>2 DEF Init
<1>3. QED
  BY <1>1, <1>2 DEF Init, TypeInv, TypeOK, States

(* What launch() writes keeps its type. *)
LaunchTypes ==
    /\ snap \in BOOLEAN /\ alias \in BOOLEAN /\ dir \in BOOLEAN
    /\ tap \in SUBSET NICs /\ taps \in SUBSET NICs
    /\ proc \in [Gens -> ProcStates]
    /\ base \in SUBSET Gens
    /\ waiter \in [Gens -> WaiterStates]
    /\ killer \in [Gens -> KillerStates]
    /\ killCh \in [Gens -> Gens]
    /\ vncShim \in Gens \cup {0} /\ shims \in SUBSET Gens

(* launch() keeps the types on its error paths as well as on success. *)
LEMMA LaunchTypeStep ==
    ASSUME TypeInv, NEW g \in Gens, NEW first \in BOOLEAN,
           \/ LaunchFails(first)
           \/ LaunchFailsConnect(g, first)
           \/ \E p \in ProcStates : LaunchSucceeds(g, first, p)
    PROVE  LaunchTypes'
<1>1. CASE LaunchFails(first)
  BY <1>1 DEF LaunchFails, TypeInv, TypeOK, LaunchTypes, goroutines, shim, network
<1>2. ASSUME NEW p \in ProcStates, StartQemu(g, first, p)
      PROVE  /\ snap' \in BOOLEAN /\ alias' \in BOOLEAN /\ dir' \in BOOLEAN
             /\ tap' \in SUBSET NICs /\ taps' \in SUBSET NICs
             /\ proc' \in [Gens -> ProcStates]
             /\ base' \in SUBSET Gens
             /\ waiter' \in [Gens -> WaiterStates]
  BY <1>2 DEF StartQemu, TypeInv, TypeOK, WaiterStates
<1>3. CASE LaunchFailsConnect(g, first)
  BY <1>2, <1>3 DEF LaunchFailsConnect, TypeInv, TypeOK, LaunchTypes, ProcStates, shim
<1>4. ASSUME NEW p \in ProcStates, LaunchSucceeds(g, first, p)
      PROVE  LaunchTypes'
  BY <1>2, <1>4 DEF LaunchSucceeds, TypeInv, TypeOK, LaunchTypes, KillerStates
<1>5. QED
  BY <1>1, <1>3, <1>4

(* One step per command and goroutine step; gen stays within the bound     *)
(* because StartCheck leaves a launch over for Relaunch.                   *)
LEMMA TypeStep ==
    ASSUME TypeInv, [Next]_vars
    PROVE  TypeInv'
<1>1. ASSUME NEW wild \in BOOLEAN, StartCheck(wild)
        PROVE  TypeInv'
  BY <1>1, LaunchesAssumption DEF TypeInv, TypeOK, States, Killable,
      StartCheck, Idle, Up, disk, network, goroutines, shim, command
<1>2. CASE Stop
  BY ZenonT(40), <1>2, LaunchesAssumption DEF TypeInv, TypeOK, States, Killable, Stop,
      Idle, Up, SetState, SetErrorf, disk, network, goroutines, shim, command
<1>3. CASE Kill
  BY <1>3, LaunchesAssumption DEF TypeInv, TypeOK, States, Killable, Kill,
      Idle, Up, disk, network, goroutines, shim, command
<1>4. CASE Flush
  BY ZenonT(40), <1>4, LaunchesAssumption DEF TypeInv, TypeOK, States, Killable,
      Flush, FlushSucceeds, FlushFails, Idle, Up, disk, network, goroutines,
      shim, command
<1>5. CASE FlushAll
  BY ZenonT(40), <1>5, LaunchesAssumption DEF TypeInv, TypeOK, States, Killable,
      FlushAll, FlushSucceeds, FlushFails, Idle, Up, disk, network,
      goroutines, shim, command
<1>6. CASE Migrate
  BY <1>6, LaunchesAssumption DEF TypeInv, TypeOK, States, Killable,
      Migrate, Idle, Up, SetState, disk, network, goroutines, shim, command
<1>7. CASE Launch
  <2>1. gen \in Gens /\ gen' = gen
    BY <1>7 DEF Launch, TypeInv, TypeOK
  <2>2. LaunchTypes'
    BY <1>7, <2>1, LaunchTypeStep DEF Launch, ProcStates
  <2>3. QED
    BY <1>7, <2>1, <2>2 DEF TypeInv, TypeOK, LaunchTypes, States, Launch, LaunchFails,
        LaunchFailsConnect, SetErrorf
<1>8. CASE Start
  BY ZenonT(40), <1>8, LaunchesAssumption DEF TypeInv, TypeOK, States, Killable,
      Start, SetState, SetErrorf, Connect, disk, network, goroutines, shim,
      command
<1>9. CASE Relaunch
  <2>1. gen + 1 \in Gens /\ gen' = gen + 1
    BY <1>9, LaunchesAssumption DEF Relaunch, TypeInv, TypeOK, Gens
  <2>2. LaunchTypes'
    BY <1>9, <2>1, LaunchTypeStep DEF Relaunch, ProcStates
  <2>3. state' \in States /\ tagged' \in BOOLEAN
    BY <1>9 DEF TypeInv, TypeOK, States, Relaunch, LaunchFails, LaunchFailsConnect,
        SetErrorf, SetState
  <2>4. registered' \in BOOLEAN
    BY <1>9 DEF TypeInv, TypeOK, Relaunch, Connect
  <2>5. QED
    BY <1>9, <2>1, <2>2, <2>3, <2>4 DEF TypeInv, TypeOK, LaunchTypes, Relaunch
<1>10. CASE KillResume
  BY <1>10, LaunchesAssumption DEF TypeInv, TypeOK, States, Killable,
      KillResume, disk, network, goroutines, shim, command
<1>11. ASSUME NEW g \in Gens, Reap(g)
        PROVE  TypeInv'
  <2>1. waiter' \in [Gens -> WaiterStates]
    BY <1>11, LaunchesAssumption DEF TypeInv, TypeOK, WaiterStates, Reap,
        SetErrorf, SetState, Exited, disk, network, goroutines, shim, command
  <2>2. fatal' \in BOOLEAN
    BY <1>11, LaunchesAssumption DEF TypeInv, TypeOK, Gens, Reap,
        SetErrorf, SetState, Exited, disk, network, goroutines, shim, command
  <2>3. state' \in States /\ tagged' \in BOOLEAN
    BY <1>11, LaunchesAssumption DEF TypeInv, TypeOK, States, Reap,
        SetErrorf, SetState, Exited, disk, network, goroutines, shim, command
  <2>4. QED
    BY <1>11, <2>1, <2>2, <2>3 DEF TypeInv, TypeOK, States, Reap,
        SetErrorf, SetState, Exited, disk, network, goroutines, shim, command
<1>12. ASSUME NEW g \in Gens, CloseWaitChan(g)
        PROVE  TypeInv'
  <2>1. waiter' \in [Gens -> WaiterStates]
    BY <1>12, LaunchesAssumption DEF TypeInv, TypeOK, WaiterStates,
        CloseWaitChan, disk, network, goroutines, shim, command
  <2>2. QED
    BY <1>12, <2>1 DEF TypeInv, TypeOK, States, CloseWaitChan, disk,
        network, goroutines, shim, command
<1>13. ASSUME NEW g \in Gens, EnterSelect(g)
        PROVE  TypeInv'
  <2>1. killer' \in [Gens -> KillerStates]
    BY <1>13, LaunchesAssumption DEF TypeInv, TypeOK, KillerStates,
        EnterSelect, disk, network, goroutines, shim, command
  <2>2. killCh' \in [Gens -> Gens]
    BY <1>13, LaunchesAssumption DEF TypeInv, TypeOK, Gens, EnterSelect,
        disk, network, goroutines, shim, command
  <2>3. QED
    BY <1>13, <2>1, <2>2 DEF TypeInv, TypeOK, States, EnterSelect, disk,
        network, goroutines, shim, command
<1>14. ASSUME NEW g \in Gens, SelectExited(g)
        PROVE  TypeInv'
  <2>1. killer' \in [Gens -> KillerStates]
    BY <1>14, LaunchesAssumption DEF TypeInv, TypeOK, KillerStates,
        SelectExited, disk, network, goroutines, shim, command
  <2>2. QED
    BY <1>14, <2>1 DEF TypeInv, TypeOK, States, SelectExited, disk,
        network, goroutines, shim, command
<1>15. ASSUME NEW g \in Gens, SelectKill(g)
        PROVE  TypeInv'
  <2>1. killer' \in [Gens -> KillerStates]
    BY <1>15, LaunchesAssumption DEF TypeInv, TypeOK, KillerStates,
        SelectKill, disk, network, goroutines, shim, command
  <2>2. proc' \in [Gens -> ProcStates]
    BY <1>15, LaunchesAssumption DEF TypeInv, TypeOK, ProcStates,
        SelectKill, disk, network, goroutines, shim, command
  <2>3. QED
    BY <1>15, <2>1, <2>2 DEF TypeInv, TypeOK, States, SelectKill, disk,
        network, goroutines, shim, command
<1>16. ASSUME NEW g \in Gens, KilledExited(g)
        PROVE  TypeInv'
  <2>1. killer' \in [Gens -> KillerStates]
    BY <1>16, LaunchesAssumption DEF TypeInv, TypeOK, KillerStates,
        KilledExited, disk, network, goroutines, shim, command
  <2>2. QED
    BY <1>16, <2>1 DEF TypeInv, TypeOK, States, KilledExited, disk,
        network, goroutines, shim, command
<1>17. ASSUME NEW g \in Gens, Signal(g)
        PROVE  TypeInv'
  <2>1. killer' \in [Gens -> KillerStates]
    BY <1>17, LaunchesAssumption DEF TypeInv, TypeOK, KillerStates, Signal,
        disk, network, goroutines, shim, command
  <2>2. QED
    BY <1>17, <2>1 DEF TypeInv, TypeOK, States, Signal, disk, network,
        goroutines, shim, command
<1>18. ASSUME NEW g \in Gens, ProcessExit(g)
        PROVE  TypeInv'
  <2>1. proc' \in [Gens -> ProcStates]
    BY <1>18, LaunchesAssumption DEF TypeInv, TypeOK, ProcStates,
        ProcessExit, disk, network, goroutines, shim, command
  <2>2. QED
    BY <1>18, <2>1 DEF TypeInv, TypeOK, States, ProcessExit, disk, network,
        goroutines, shim, command
<1>19. CASE UNCHANGED vars
  BY <1>19 DEF TypeInv, TypeOK, States, Killable, vars, disk, network,
      goroutines, shim, command
<1>20. QED
  BY <1>1, <1>2, <1>3, <1>4, <1>5, <1>6, <1>7, <1>8, <1>9, <1>10, <1>11,
      <1>12, <1>13, <1>14, <1>15, <1>16, <1>17, <1>18, <1>19 DEF Next, CLI,
      Continue, Waiter, Killer

(* The VM's fields, channels, goroutines and taps keep their types through *)
(* every command, fault and goroutine step, for any number of launches.    *)
THEOREM TypeCorrect == Spec => []TypeOK
<1>1. TypeInv => TypeOK
  BY DEF TypeInv
<1>2. QED
  BY <1>1, TypeInit, TypeStep, PTL DEF Spec

----------------------------------------------------------------------------
(* Nothing runs when NewBaseVM returns. *)
LEMMA LifeInit == Init => LifeInv
  BY LaunchesAssumption DEF Init, LifeInv, Clean, Running, Gens

(* Only a launch makes a process that is waited for, only Reap ends the    *)
(* wait, and both keep vm.State, the listener and the path in step with it.*)
LEMMA LifeStep ==
    ASSUME TypeInv, LifeInv, [Next]_vars
    PROVE  LifeInv'
<1>1. ASSUME NEW wild \in BOOLEAN, StartCheck(wild)
        PROVE  LifeInv'
  BY <1>1, LaunchesAssumption DEF TypeInv, TypeOK, LifeInv, Clean,
      Running, Gens, Killable, StartCheck, Idle, Up, disk, network,
      goroutines, shim, command
<1>2. CASE Stop
  BY <1>2, LaunchesAssumption DEF TypeInv, TypeOK, LifeInv, Clean,
      Running, Gens, Killable, Stop, Idle, Up, SetState, SetErrorf, disk,
      network, goroutines, shim, command
<1>3. CASE Kill
  BY <1>3, LaunchesAssumption DEF TypeInv, TypeOK, LifeInv, Clean,
      Running, Gens, Killable, Kill, Idle, Up, disk, network, goroutines,
      shim, command
<1>4. CASE Flush
  <2>1. /\ pc' = pc /\ pc = "idle" /\ (present' => present /\ dir' = dir)
        /\ fatal' = fatal /\ tagged' = tagged /\ state' = state /\ state \notin Killable
        /\ gen' = gen /\ proc' = proc /\ waiter' = waiter /\ shims' = shims
    BY <1>4 DEF Flush, FlushSucceeds, FlushFails, Idle, goroutines, shim, command, Killable
  <2>2. ASSUME ~tagged, Clean
        PROVE  Clean'
    BY <2>1, <2>2 DEF Clean, Running
  <2>3. QED
    BY <2>1, <2>2 DEF LifeInv
<1>5. CASE FlushAll
  <2>1. /\ pc' = pc /\ pc = "idle" /\ (present' => present /\ dir' = dir)
        /\ fatal' = fatal /\ tagged' = tagged /\ state' = state /\ state \notin Killable
        /\ gen' = gen /\ proc' = proc /\ waiter' = waiter /\ shims' = shims
    BY <1>5 DEF FlushAll, FlushSucceeds, FlushFails, Idle, goroutines, shim, command, Killable
  <2>2. ASSUME ~tagged, Clean
        PROVE  Clean'
    BY <2>1, <2>2 DEF Clean, Running
  <2>3. QED
    BY <2>1, <2>2 DEF LifeInv
<1>6. CASE Migrate
  BY <1>6, LaunchesAssumption DEF TypeInv, TypeOK, LifeInv, Clean,
      Running, Gens, Killable, Migrate, Idle, Up, SetState, disk, network,
      goroutines, shim, command
<1>7. CASE Launch
  <2>1. present' = present /\ present /\ dir' = TRUE /\ pc' = "idle" /\ fatal' = fatal
    BY <1>7 DEF Launch, LaunchFails, LaunchFailsConnect, LaunchSucceeds, StartQemu, LifeInv
  <2>2. ASSUME ~tagged'
        PROVE  Clean' /\ ~tagged
    <3>1. LaunchSucceeds(gen, TRUE, "alive") /\ state' = state /\ tagged' = tagged
      BY <1>7, <2>2 DEF Launch, LaunchFails, LaunchFailsConnect, SetErrorf
    <3>2. Clean
      BY <2>2, <3>1 DEF LifeInv
    <3>3. gen \in Gens /\ gen' = gen /\ state' \in Killable
      BY <1>7, <3>1 DEF Launch, TypeInv, TypeOK, LifeInv, Killable
    <3>4. \A h \in Gens : waiter[h] # "waiting" /\ ~Running(h) /\ h \notin shims
      BY <1>7, <3>2 DEF Launch, Clean
    <3>5. /\ proc' = [proc EXCEPT ![gen] = "alive"]
          /\ waiter' = [waiter EXCEPT ![gen] = "waiting"]
          /\ killer' = [killer EXCEPT ![gen] = "spawned"]
          /\ vncShim' = gen /\ shims' = shims \cup {gen}
      BY <3>1 DEF LaunchSucceeds, StartQemu
    <3>6. Clean'
      BY <2>1, <3>3, <3>4, <3>5 DEF Clean, Running, TypeInv, TypeOK
    <3>7. QED
      BY <2>2, <3>1, <3>6
  <2>3. QED
    BY <2>1, <2>2 DEF LifeInv
<1>8. CASE Start
  BY <1>8, LaunchesAssumption DEF TypeInv, TypeOK, LifeInv, Clean,
      Running, Gens, Killable, Start, SetState, SetErrorf, Connect, disk,
      network, goroutines, shim, command
<1>9. CASE Relaunch
  <2>1. present' = present /\ present /\ dir' = dir /\ pc = "start" /\ pc' = "idle"
        /\ fatal' = fatal
    BY <1>9 DEF Relaunch, LaunchFails, LaunchFailsConnect, LaunchSucceeds, StartQemu,
        LifeInv, TypeInv, TypeOK
  <2>2. ASSUME ~tagged'
        PROVE  Clean' /\ ~tagged
    <3>1. LaunchSucceeds(gen + 1, FALSE, "alive") /\ state' = "RUNNING" /\ ~tagged
      <4>1. ~SetErrorf
        BY <2>2 DEF SetErrorf
      <4>2. ~LaunchFails(FALSE) /\ ~LaunchFailsConnect(gen + 1, FALSE)
        BY <4>1 DEF LaunchFails, LaunchFailsConnect
      <4>3. LaunchSucceeds(gen + 1, FALSE, "alive") /\ SetState("RUNNING")
        BY <1>9, <4>1, <4>2 DEF Relaunch
      <4>4. QED
        BY <2>2, <4>3 DEF SetState
    <3>2. Clean
      BY <3>1 DEF LifeInv
    <3>3. gen + 1 \in Gens /\ gen' = gen + 1 /\ state \notin Killable /\ state' \in Killable
      BY <1>9, <3>1, LaunchesAssumption DEF Relaunch, TypeInv, TypeOK, Gens, Killable
    <3>4. QED
      BY <1>9, <2>1, <3>1, <3>2, <3>3 DEF LaunchSucceeds, StartQemu, Clean, Running,
          TypeInv, TypeOK
  <2>3. QED
    BY <2>1, <2>2 DEF LifeInv
<1>10. CASE KillResume
  BY <1>10, LaunchesAssumption DEF TypeInv, TypeOK, LifeInv, Clean,
      Running, Gens, Killable, KillResume, disk, network, goroutines, shim,
      command
<1>11. ASSUME NEW g \in Gens, Reap(g)
        PROVE  LifeInv'
  <2>1. present' = present /\ dir' = dir /\ pc' = pc /\ pc # "launch"
    BY <1>11 DEF Reap, disk, command, LifeInv, Clean
  <2>2. ASSUME ~tagged'
        PROVE  Clean' /\ ~fatal'
    <3>1. ~tagged /\ proc[g] # "error" /\ Clean /\ ~fatal
      BY <1>11, <2>2 DEF Reap, SetErrorf, SetState, LifeInv
    <3>2. g = gen /\ vncShim = gen /\ state \in Killable /\ present /\ dir
      BY <1>11, <3>1 DEF Reap, Clean, LifeInv
    <3>3. ~fatal'
      BY <1>11, <3>1, <3>2 DEF Reap
    <3>4. \A h \in Gens : waiter'[h] # "waiting" /\ ~Running(h)' /\ h \notin shims'
      BY <1>11, <3>1, <3>2 DEF Reap, Clean, Running, Exited, TypeInv, TypeOK
    <3>5. QED
      BY <3>3, <3>4 DEF Clean
  <2>3. QED
    BY <2>1, <2>2 DEF LifeInv
<1>12. ASSUME NEW g \in Gens, CloseWaitChan(g)
        PROVE  LifeInv'
  BY <1>12, LaunchesAssumption DEF TypeInv, TypeOK, LifeInv, Clean,
      Running, Gens, Killable, CloseWaitChan, disk, network, goroutines, shim,
      command
<1>13. ASSUME NEW g \in Gens, EnterSelect(g)
        PROVE  LifeInv'
  BY <1>13, LaunchesAssumption DEF TypeInv, TypeOK, LifeInv, Clean,
      Running, Gens, Killable, EnterSelect, disk, network, goroutines, shim,
      command
<1>14. ASSUME NEW g \in Gens, SelectExited(g)
        PROVE  LifeInv'
  BY <1>14, LaunchesAssumption DEF TypeInv, TypeOK, LifeInv, Clean,
      Running, Gens, Killable, SelectExited, disk, network, goroutines, shim,
      command
<1>15. ASSUME NEW g \in Gens, SelectKill(g)
        PROVE  LifeInv'
  BY <1>15, LaunchesAssumption DEF TypeInv, TypeOK, LifeInv, Clean,
      Running, Gens, Killable, SelectKill, disk, network, goroutines, shim,
      command
<1>16. ASSUME NEW g \in Gens, KilledExited(g)
        PROVE  LifeInv'
  BY <1>16, LaunchesAssumption DEF TypeInv, TypeOK, LifeInv, Clean,
      Running, Gens, Killable, KilledExited, disk, network, goroutines, shim,
      command
<1>17. ASSUME NEW g \in Gens, Signal(g)
        PROVE  LifeInv'
  BY <1>17, LaunchesAssumption DEF TypeInv, TypeOK, LifeInv, Clean,
      Running, Gens, Killable, Signal, disk, network, goroutines, shim,
      command
<1>18. ASSUME NEW g \in Gens, ProcessExit(g)
        PROVE  LifeInv'
  BY <1>18, LaunchesAssumption DEF TypeInv, TypeOK, LifeInv, Clean,
      Running, Gens, Killable, ProcessExit, disk, network, goroutines, shim,
      command
<1>19. CASE UNCHANGED vars
  BY <1>19 DEF TypeInv, TypeOK, LifeInv, Clean, Running, Gens, Killable,
      vars, disk, network, goroutines, shim, command
<1>20. QED
  BY <1>1, <1>2, <1>3, <1>4, <1>5, <1>6, <1>7, <1>8, <1>9, <1>10, <1>11,
      <1>12, <1>13, <1>14, <1>15, <1>16, <1>17, <1>18, <1>19 DEF Next, CLI,
      Continue, Waiter, Killer


(* Until setErrorf has recorded an error, a VM that cannot be killed (QUIT *)
(* or ERROR, vmstate.go) has no qemu left: the goroutine in cmd.Wait is    *)
(* the only one that makes a VM without an error unkillable, and it does   *)
(* so when the process has ended.                                          *)
THEOREM UnkillableDead == Spec => []UnkillableIsDead
<1>1. TypeInv /\ LifeInv => UnkillableIsDead
  BY DEF LifeInv, Clean, UnkillableIsDead
<1>2. QED
  BY <1>1, TypeInit, TypeStep, LifeInit, LifeStep, PTL DEF Spec

(* Until then no two qemu processes of one VM run at the same time, though *)
(* Start launches a new one whenever it finds QUIT or ERROR.               *)
THEOREM SingleProcess == Spec => []OneProcess
<1>1. TypeInv /\ LifeInv => OneProcess
  BY DEF LifeInv, Clean, OneProcess
<1>2. QED
  BY <1>1, TypeInit, TypeStep, LifeInit, LifeStep, PTL DEF Spec

(* Until then the goroutine in cmd.Wait closes the VNC listener of its own *)
(* process, and every live process has its listener.                       *)
THEOREM ShimsAreServed == Spec => []ShimsServed
<1>1. TypeInv /\ LifeInv => ShimsServed
  BY DEF LifeInv, Clean, ShimsServed
<1>2. QED
  BY <1>1, TypeInit, TypeStep, LifeInit, LifeStep, PTL DEF Spec

(* All of these together: until an error is recorded, the state tells the  *)
(* truth about the one process of the VM and its listener.                 *)
THEOREM LifeIsSound == Spec => []LifeSound
  BY UnkillableDead, SingleProcess, ShimsAreServed, PTL DEF LifeSound

(* Until then setState never runs after Flush has removed the instance     *)
(* path, where mustWrite would end minimega.                               *)
THEOREM NeverFatal == Spec => []NoFatal
<1>1. TypeInv /\ LifeInv => NoFatal
  BY DEF LifeInv, NoFatal
<1>2. QED
  BY <1>1, TypeInit, TypeStep, LifeInit, LifeStep, PTL DEF Spec

----------------------------------------------------------------------------
(* No channel is closed when NewBaseVM returns. *)
LEMMA KillInit == Init => KillInv
  BY LaunchesAssumption DEF Init, KillInv, Kills, Fresh, Served, Gens

(* Reap makes the VM unkillable before its goroutine can leave the select, *)
(* and Relaunch makes a fresh channel before the VM is killable again.     *)
LEMMA KillStep ==
    ASSUME TypeInv, Kills, [Next]_vars, ~migrated, ~migrated'
    PROVE  Kills'
<1>1. ASSUME NEW wild \in BOOLEAN, StartCheck(wild)
        PROVE  Kills'
  BY <1>1, LaunchesAssumption DEF TypeInv, TypeOK, Kills, Fresh,
      Served, Gens, Killable, StartCheck, Idle, Up, disk, network,
      goroutines, shim, command
<1>2. CASE Stop
  BY <1>2, LaunchesAssumption DEF TypeInv, TypeOK, Kills, Fresh,
      Served, Gens, Killable, Stop, Idle, Up, SetState, SetErrorf,
      disk, network, goroutines, shim, command
<1>3. CASE Kill
  BY <1>3, LaunchesAssumption DEF TypeInv, TypeOK, Kills, Fresh,
      Served, Gens, Killable, Kill, Idle, Up, disk, network,
      goroutines, shim, command
<1>4. CASE Flush
  BY <1>4, LaunchesAssumption DEF TypeInv, TypeOK, Kills, Fresh,
      Served, Gens, Killable, Flush, FlushSucceeds, FlushFails,
      Idle, Up, disk, network, goroutines, shim, command
<1>5. CASE FlushAll
  BY <1>5, LaunchesAssumption DEF TypeInv, TypeOK, Kills, Fresh,
      Served, Gens, Killable, FlushAll, FlushSucceeds, FlushFails,
      Idle, Up, disk, network, goroutines, shim, command
<1>6. CASE Migrate
  BY <1>6 DEF Migrate
<1>7. CASE Launch
  BY <1>7, LaunchesAssumption DEF TypeInv, TypeOK, Kills, Fresh,
      Served, Gens, Killable, Launch, LaunchFails,
      LaunchFailsConnect, LaunchSucceeds, StartQemu, SetErrorf, disk, network,
      goroutines, shim, command
<1>8. CASE Start
  BY <1>8, LaunchesAssumption DEF TypeInv, TypeOK, Kills, Fresh,
      Served, Gens, Killable, Start, SetState, SetErrorf, Connect,
      disk, network, goroutines, shim, command
<1>9. CASE Relaunch
  BY SMTT(40), <1>9, LaunchesAssumption DEF TypeInv, TypeOK, Kills, Fresh,
      Served, Gens, Killable, Relaunch, SetState, Connect,
      LaunchFails, LaunchFailsConnect, LaunchSucceeds, StartQemu, SetErrorf,
      disk, network, goroutines, shim, command
<1>10. CASE KillResume
  BY <1>10, LaunchesAssumption DEF TypeInv, TypeOK, Kills, Fresh,
      Served, Gens, Killable, KillResume, disk, network,
      goroutines, shim, command
<1>11. ASSUME NEW g \in Gens, Reap(g)
        PROVE  Kills'
  <2>1. /\ \A h \in Gens : waiter'[h] = IF h = g THEN "reaped" ELSE waiter[h]
        /\ gen \in Gens /\ waiter[g] = "waiting"
    BY <1>11 DEF Reap, TypeInv, TypeOK
  <2>2. /\ gen' = gen /\ closed' = closed /\ killer' = killer /\ killCh' = killCh /\ pc' = pc
        /\ state' \notin Killable
    BY <1>11 DEF Reap, command, SetErrorf, SetState, Killable
  <2>3. QED
    BY <2>1, <2>2, LaunchesAssumption DEF Kills, Fresh, Served, Gens, Killable
<1>12. ASSUME NEW g \in Gens, CloseWaitChan(g)
        PROVE  Kills'
  <2>1. /\ \A h \in Gens : waiter'[h] = IF h = g THEN "done" ELSE waiter[h]
        /\ gen \in Gens /\ waiter[g] = "reaped"
    BY <1>12 DEF CloseWaitChan, TypeInv, TypeOK
  <2>2. /\ gen' = gen /\ closed' = closed /\ killer' = killer /\ killCh' = killCh /\ pc' = pc
        /\ state' = state
    BY <1>12 DEF CloseWaitChan, command
  <2>3. QED
    BY <2>1, <2>2, LaunchesAssumption DEF Kills, Fresh, Served, Gens, Killable
<1>13. ASSUME NEW g \in Gens, EnterSelect(g)
        PROVE  Kills'
  BY SMTT(40), <1>13, LaunchesAssumption DEF TypeInv, TypeOK, Kills, Fresh,
      Served, Gens, Killable, EnterSelect, disk, network,
      goroutines, shim, command
<1>14. ASSUME NEW g \in Gens, SelectExited(g)
        PROVE  Kills'
  BY SMTT(40), <1>14, LaunchesAssumption DEF TypeInv, TypeOK, Kills, Fresh,
      Served, Gens, Killable, SelectExited, disk, network,
      goroutines, shim, command
<1>15. ASSUME NEW g \in Gens, SelectKill(g)
        PROVE  Kills'
  BY SMTT(40), <1>15, LaunchesAssumption DEF TypeInv, TypeOK, Kills, Fresh,
      Served, Gens, Killable, SelectKill, disk, network,
      goroutines, shim, command
<1>16. ASSUME NEW g \in Gens, KilledExited(g)
        PROVE  Kills'
  BY SMTT(40), <1>16, LaunchesAssumption DEF TypeInv, TypeOK, Kills, Fresh,
      Served, Gens, Killable, KilledExited, disk, network,
      goroutines, shim, command
<1>17. ASSUME NEW g \in Gens, Signal(g)
        PROVE  Kills'
  BY SMTT(40), <1>17, LaunchesAssumption DEF TypeInv, TypeOK, Kills, Fresh,
      Served, Gens, Killable, Signal, disk, network, goroutines,
      shim, command
<1>18. ASSUME NEW g \in Gens, ProcessExit(g)
        PROVE  Kills'
  BY <1>18, LaunchesAssumption DEF TypeInv, TypeOK, Kills, Fresh,
      Served, Gens, Killable, ProcessExit, disk, network,
      goroutines, shim, command
<1>19. CASE UNCHANGED vars
  BY <1>19 DEF TypeInv, TypeOK, Kills, Fresh, Served, Gens,
      Killable, vars, disk, network, goroutines, shim, command
<1>20. QED
  BY <1>1, <1>2, <1>3, <1>4, <1>5, <1>6, <1>7, <1>8, <1>9, <1>10, <1>11,
      <1>12, <1>13, <1>14, <1>15, <1>16, <1>17, <1>18, <1>19 DEF Next, CLI,
      Continue, Waiter, Killer


(* A migration is not undone. *)
LEMMA MigratedStays ==
    ASSUME TypeInv, [Next]_vars
    PROVE  migrated => migrated'
<1>1. CASE CLI
  <2>1. migrated' = migrated \/ migrated' = TRUE
    BY <1>1 DEF CLI, StartCheck, Stop, Kill, Flush, FlushAll, Migrate
  <2>2. QED
    BY <2>1
<1>2. CASE Continue
  <2>1. migrated' = migrated
    BY <1>2 DEF Continue, Launch, Start, Relaunch, KillResume
  <2>2. QED
    BY <2>1
<1>3. ASSUME NEW g \in Gens, Waiter(g) \/ Killer(g) \/ ProcessExit(g)
      PROVE  migrated' = migrated
  BY <1>3 DEF Waiter, Killer, Reap, CloseWaitChan, EnterSelect, SelectExited, SelectKill,
      KilledExited, Signal, ProcessExit
<1>4. CASE UNCHANGED vars
  BY <1>4 DEF vars
<1>5. QED
  BY <1>1, <1>2, <1>3, <1>4 DEF Next

LEMMA KillInvStep ==
    ASSUME TypeInv, KillInv, [Next]_vars
    PROVE  KillInv'
<1>1. SUFFICES ASSUME ~migrated'
               PROVE  Kills'
  BY DEF KillInv
<1>2. ~migrated /\ Kills
  BY <1>1, MigratedStays DEF KillInv
<1>3. QED
  BY <1>1, <1>2, KillStep

(* Whatever fails, until the VM is migrated: Kill never closes a closed    *)
(* channel.                                                                *)
THEOREM KillClosesOnce == Spec => []NoDoubleClose
<1>1. TypeInv /\ KillInv => NoDoubleClose
  BY DEF KillInv, Kills, NoDoubleClose
<1>2. QED
  BY <1>1, TypeInit, TypeStep, KillInit, KillInvStep, PTL DEF Spec

(* Whatever fails, until the VM is migrated: a VM that can be killed has a *)
(* process that is waited for and a goroutine that listens on the current  *)
(* kill channel.                                                           *)
THEOREM KillFindsProcess == Spec => []KillableHasProcess
<1>1. TypeInv /\ KillInv => KillableHasProcess
  BY DEF KillInv, Kills, Served, KillableHasProcess
<1>2. QED
  BY <1>1, TypeInit, TypeStep, KillInit, KillInvStep, PTL DEF Spec

(* Whatever fails, until the VM is migrated: Kill finds a channel that is  *)
(* open and somebody who listens on it.                                    *)
THEOREM KillIsSound == Spec => []KillSound
  BY KillClosesOnce, KillFindsProcess, PTL DEF KillSound

----------------------------------------------------------------------------
(* What the refinement needs besides the above: a VM without an error has  *)
(* a process, alive or not, from its first launch on, and is not in ERROR. *)
RefInv ==
    /\ pc = "launch" => \A g \in Gens : proc[g] = "none"
    /\ ~tagged /\ pc # "launch" => proc[gen] # "none"
    /\ ~tagged => state # "ERROR"

(* NewBaseVM starts no process. *)
LEMMA RefInit == Init => RefInv
  BY DEF Init, RefInv

(* Only setErrorf writes ERROR, and every launch that does not call it     *)
(* starts a process.                                                       *)
LEMMA RefStep ==
    ASSUME TypeInv, RefInv, [Next]_vars
    PROVE  RefInv'
<1>1. ASSUME NEW wild \in BOOLEAN, StartCheck(wild)
      PROVE  RefInv'
  BY <1>1 DEF TypeInv, TypeOK, RefInv, StartCheck, Idle, goroutines, command
<1>2. CASE Stop
  BY <1>2 DEF TypeInv, TypeOK, RefInv, Stop, Idle, SetState, SetErrorf, goroutines, command
<1>3. CASE Kill
  BY <1>3 DEF TypeInv, TypeOK, RefInv, Kill, Idle, goroutines, command
<1>4. CASE Flush
  BY <1>4 DEF TypeInv, TypeOK, RefInv, Flush, Idle, goroutines, command
<1>5. CASE FlushAll
  BY <1>5 DEF TypeInv, TypeOK, RefInv, FlushAll, Idle, goroutines, command
<1>6. CASE Migrate
  BY <1>6 DEF TypeInv, TypeOK, RefInv, Migrate, SetState, goroutines, command
<1>7. CASE Launch
  <2>1. gen \in Gens /\ gen' = gen /\ pc' = "idle"
    BY <1>7 DEF Launch, TypeInv, TypeOK
  <2>2. ASSUME ~tagged'
        PROVE  proc' = [proc EXCEPT ![gen] = "alive"] /\ state' = state /\ ~tagged
    BY <1>7, <2>2 DEF Launch, LaunchFails, LaunchFailsConnect, SetErrorf, LaunchSucceeds,
        StartQemu
  <2>3. QED
    BY <2>1, <2>2 DEF TypeInv, TypeOK, RefInv
<1>8. CASE Start
  BY <1>8 DEF TypeInv, TypeOK, RefInv, Start, SetState, SetErrorf, goroutines, command
<1>9. CASE Relaunch
  <2>1. gen + 1 \in Gens /\ gen' = gen + 1 /\ pc' = "idle"
    BY <1>9, LaunchesAssumption DEF Relaunch, TypeInv, TypeOK, Gens
  <2>2. ASSUME ~tagged'
        PROVE  proc' = [proc EXCEPT ![gen + 1] = "alive"] /\ state' = "RUNNING" /\ ~tagged
    BY <1>9, <2>2 DEF Relaunch, LaunchFails, LaunchFailsConnect, SetErrorf, SetState,
        LaunchSucceeds, StartQemu
  <2>3. QED
    BY <2>1, <2>2 DEF TypeInv, TypeOK, RefInv
<1>10. CASE KillResume
  BY <1>10 DEF TypeInv, TypeOK, RefInv, KillResume, goroutines, command
<1>11. ASSUME NEW g \in Gens, Reap(g)
      PROVE  RefInv'
  BY <1>11 DEF TypeInv, TypeOK, RefInv, Reap, SetState, SetErrorf, goroutines, command
<1>12. ASSUME NEW g \in Gens, CloseWaitChan(g)
      PROVE  RefInv'
  BY <1>12 DEF TypeInv, TypeOK, RefInv, CloseWaitChan, goroutines, command
<1>13. ASSUME NEW g \in Gens, EnterSelect(g)
      PROVE  RefInv'
  BY <1>13 DEF TypeInv, TypeOK, RefInv, EnterSelect, goroutines, command
<1>14. ASSUME NEW g \in Gens, SelectExited(g)
      PROVE  RefInv'
  BY <1>14 DEF TypeInv, TypeOK, RefInv, SelectExited, goroutines, command
<1>15. ASSUME NEW g \in Gens, SelectKill(g)
      PROVE  RefInv'
  BY <1>15 DEF TypeInv, TypeOK, RefInv, SelectKill, goroutines, command
<1>16. ASSUME NEW g \in Gens, KilledExited(g)
      PROVE  RefInv'
  BY <1>16 DEF TypeInv, TypeOK, RefInv, KilledExited, goroutines, command
<1>17. ASSUME NEW g \in Gens, Signal(g)
      PROVE  RefInv'
  BY <1>17 DEF TypeInv, TypeOK, RefInv, Signal, goroutines, command
<1>18. ASSUME NEW g \in Gens, ProcessExit(g)
      PROVE  RefInv'
  BY <1>18 DEF TypeInv, TypeOK, RefInv, ProcessExit, goroutines, command
<1>19. CASE UNCHANGED vars
  BY <1>19 DEF TypeInv, TypeOK, RefInv, vars, goroutines, command
<1>20. QED
  BY <1>1, <1>2, <1>3, <1>4, <1>5, <1>6, <1>7, <1>8, <1>9, <1>10, <1>11, <1>12, <1>13, <1>14, <1>15, <1>16, <1>17, <1>18, <1>19
      DEF Next, CLI, Continue, Waiter, Killer

(* A step that leaves what the interface shows alone is a stutter. *)
LEMMA RefFrame ==
    ASSUME state' = state, tagged' = tagged, migrated' = migrated, present' = present,
           proc' = proc
    PROVE  UNCHANGED Promise!vars
<1>1. ProcOfVM' = ProcOfVM
  BY DEF ProcOfVM, Running
<1>2. QED
  BY <1>1 DEF Promise!vars

(* An error that is recorded ends the promise, and none is taken back.     *)
LEMMA RefFaulted ==
    ASSUME TypeInv', tagged' \/ migrated', present' => present
    PROVE  Promise!Faulted
<1>1. ProcOfVM' \in {"none", "live", "gone"}
  BY DEF ProcOfVM
<1>2. state' \in Promise!States /\ present' \in BOOLEAN /\ (tagged' \/ migrated') = TRUE
  BY DEF TypeInv, TypeOK, States, Promise!States
<1>3. QED
  BY <1>1, <1>2 DEF Promise!Faulted

(* Errors stay in vm.Tags, and a VM that was removed stays removed. *)
LEMMA RefMonotone ==
    ASSUME TypeInv, [Next]_vars
    PROVE  (tagged => tagged') /\ (present' => present)
<1> DEFINE Keeps == (tagged => tagged') /\ (present' => present)
<1>1. CASE CLI
  <2>1. present' = present \/ present' = FALSE
    BY <1>1 DEF CLI, StartCheck, Stop, Kill, Flush, FlushAll, Migrate
  <2>2. tagged' = tagged \/ tagged' = TRUE
    BY <1>1 DEF CLI, StartCheck, Stop, Kill, Flush, FlushAll, Migrate, SetState, SetErrorf
  <2>3. QED
    BY <2>1, <2>2
<1>2. CASE Continue
  <2>1. present' = present
    BY <1>2 DEF Continue, Launch, Start, Relaunch, KillResume
  <2>2. tagged' = tagged \/ tagged' = TRUE
    BY <1>2 DEF Continue, Launch, LaunchFails, LaunchFailsConnect, Start, Relaunch,
        KillResume, SetState, SetErrorf
  <2>3. QED
    BY <2>1, <2>2
<1>3. ASSUME NEW g \in Gens, Waiter(g) \/ Killer(g) \/ ProcessExit(g)
      PROVE  Keeps
  <2>1. present' = present
    BY <1>3 DEF Waiter, Killer, Reap, CloseWaitChan, EnterSelect, SelectExited, SelectKill,
        KilledExited, Signal, ProcessExit
  <2>2. tagged' = tagged \/ tagged' = TRUE
    BY <1>3 DEF Waiter, Killer, Reap, CloseWaitChan, EnterSelect, SelectExited, SelectKill,
        KilledExited, Signal, ProcessExit, SetState, SetErrorf
  <2>3. QED
    BY <2>1, <2>2
<1>4. CASE UNCHANGED vars
  BY <1>4 DEF vars
<1>5. QED
  BY <1>1, <1>2, <1>3, <1>4 DEF Next

(* A step of the VM that records no error is a step of the abstract VM, or *)
(* changes nothing that the interface shows.                               *)
LEMMA RefNext ==
    ASSUME TypeInv, TypeInv', LifeInv, RefInv, [Next]_vars, ~tagged, ~tagged',
           ~migrated, ~migrated'
    PROVE  [Promise!Next]_(Promise!vars)
<1> USE DEF Promise!Next
<1>b. tagged = FALSE /\ tagged' = tagged /\ migrated = FALSE /\ migrated' = migrated
  BY DEF TypeInv, TypeOK
<1>c. Clean /\ gen \in Gens
  BY DEF LifeInv, TypeInv, TypeOK
<1>s. ASSUME state' = state, present' = present, proc' = proc
      PROVE  UNCHANGED Promise!vars
  BY <1>s, <1>b, RefFrame
<1>1. ASSUME NEW wild \in BOOLEAN, StartCheck(wild)
      PROVE  UNCHANGED Promise!vars
  BY <1>1, <1>s DEF StartCheck, goroutines
<1>2. CASE Stop
  <2>1. ProcOfVM' = ProcOfVM
    BY <1>b, <1>2 DEF Stop, goroutines, ProcOfVM, Running
  <2>2. Promise!Pause
    BY <1>2, <2>1 DEF Stop, Idle, SetState, SetErrorf, Promise!Pause
  <2>3. QED
    BY <2>2
<1>3. CASE Kill
  BY <1>3, <1>s DEF Kill, goroutines
<1>4. CASE Flush \/ FlushAll
  <2>1. ProcOfVM' = ProcOfVM /\ state' = state /\ state = "QUIT"
    BY <1>4 DEF Flush, FlushAll, goroutines, ProcOfVM, Running, RefInv
  <2>2. ProcOfVM = "gone"
    BY <1>4, <2>1, <1>c DEF Flush, FlushAll, Idle, ProcOfVM, RefInv, Clean, Killable
  <2>3. present' = FALSE \/ present' = present
    BY <1>4 DEF Flush, FlushAll
  <2>4. Promise!Remove \/ UNCHANGED Promise!vars
    BY <1>b, <2>1, <2>2, <2>3 DEF Promise!Remove, Promise!vars
  <2>5. QED
    BY <2>4
<1>5. CASE Migrate
  BY <1>5 DEF Migrate
<1>6. CASE Launch
  <2>1. /\ proc' = [proc EXCEPT ![gen] = "alive"] /\ state' = state /\ present' = present
        /\ state = "BUILDING" /\ present
    BY <1>6 DEF Launch, LaunchFails, LaunchFailsConnect, SetErrorf, LaunchSucceeds,
        StartQemu, LifeInv
  <2>2. ProcOfVM = "none"
    BY <1>6 DEF Launch, RefInv, ProcOfVM, Running
  <2>3. ProcOfVM' = "live"
    BY <2>1, <1>c DEF ProcOfVM, Running, TypeInv, TypeOK
  <2>4. Promise!Boot
    BY <1>b, <2>1, <2>2, <2>3 DEF Promise!Boot
  <2>5. QED
    BY <2>4
<1>7. CASE Start
  <2>1. ProcOfVM' = ProcOfVM /\ present' = present /\ present /\ state' = "RUNNING"
    BY <1>7 DEF Start, SetState, SetErrorf, goroutines, ProcOfVM, Running, LifeInv
  <2>2. ProcOfVM # "none"
    BY <1>7, <1>c DEF Start, RefInv, ProcOfVM
  <2>3. Promise!Run
    BY <1>b, <1>7, <2>1, <2>2 DEF Start, Promise!Run
  <2>4. QED
    BY <2>3
<1>8. CASE Relaunch
  <2>1. /\ proc' = [proc EXCEPT ![gen + 1] = "alive"] /\ state' = "RUNNING"
        /\ present' = present /\ present
    BY <1>8 DEF Relaunch, LaunchFails, LaunchFailsConnect, SetErrorf, SetState,
        LaunchSucceeds, StartQemu, LifeInv
  <2>2. state = "QUIT" /\ gen + 1 \in Gens
    BY <1>8, LaunchesAssumption DEF Relaunch, RefInv, TypeInv, TypeOK, Gens
  <2>3. ProcOfVM = "gone"
    BY <1>8, <2>2, <1>c DEF Relaunch, ProcOfVM, RefInv, Clean, Killable
  <2>4. ProcOfVM' = "live"
    BY <2>1, <2>2 DEF ProcOfVM, Running, TypeInv, TypeOK
  <2>5. Promise!Reboot
    BY <1>b, <2>1, <2>2, <2>3, <2>4 DEF Promise!Reboot
  <2>6. QED
    BY <2>5
<1>9. CASE KillResume
  BY <1>9, <1>s DEF KillResume, goroutines
<1>10. ASSUME NEW g \in Gens, Reap(g)
       PROVE  Promise!Quit
  <2>1. g = gen /\ state \in Killable /\ ~Running(g) /\ proc[g] # "none"
    BY <1>10, <1>c DEF Reap, Exited, Running, Clean
  <2>2. ProcOfVM = "gone"
    BY <1>10, <2>1, <1>c DEF Reap, ProcOfVM, Clean
  <2>3. ProcOfVM' = ProcOfVM /\ present' = present
    BY <1>10 DEF Reap, ProcOfVM, Running
  <2>4. state' = "QUIT"
    BY <1>10, <2>1 DEF Reap, SetState, SetErrorf, Killable
  <2>5. QED
    BY <1>b, <2>1, <2>2, <2>3, <2>4 DEF Promise!Quit, Promise!Killable, Killable
<1>11. ASSUME NEW g \in Gens,
              CloseWaitChan(g) \/ EnterSelect(g) \/ SelectExited(g) \/ KilledExited(g) \/ Signal(g)
       PROVE  UNCHANGED Promise!vars
  BY <1>11, <1>s DEF CloseWaitChan, EnterSelect, SelectExited, KilledExited, Signal
<1>12. ASSUME NEW g \in Gens, SelectKill(g)
       PROVE  UNCHANGED Promise!vars
  <2>1. \A h \in Gens : /\ (Running(h)' <=> Running(h))
                         /\ (proc'[h] = "none" <=> proc[h] = "none")
    BY <1>12 DEF SelectKill, Running, TypeInv, TypeOK
  <2>2. ProcOfVM' = ProcOfVM
    BY <2>1 DEF ProcOfVM
  <2>3. QED
    BY <1>b, <1>12, <2>2 DEF SelectKill, Promise!vars
<1>13. ASSUME NEW g \in Gens, ProcessExit(g)
       PROVE  Promise!Exit
  <2>1. Running(g) /\ g = gen /\ ProcOfVM = "live"
    BY <1>13, <1>c DEF ProcessExit, Running, Clean, ProcOfVM
  <2>2. \A h \in Gens : ~Running(h)'
    BY <1>13, <2>1, <1>c DEF ProcessExit, Running, Clean, TypeInv, TypeOK
  <2>3. proc'[g] # "none"
    BY <1>13 DEF ProcessExit, TypeInv, TypeOK
  <2>4. ProcOfVM' = "gone"
    BY <2>2, <2>3 DEF ProcOfVM
  <2>5. QED
    BY <1>b, <1>13, <2>1, <2>4 DEF ProcessExit, Promise!Exit
<1>14. CASE UNCHANGED vars
  BY <1>14, <1>s DEF vars, goroutines
<1>15. QED
  BY <1>1, <1>2, <1>3, <1>4, <1>5, <1>6, <1>7, <1>8, <1>9, <1>10, <1>11, <1>12, <1>13,
      <1>14 DEF Next, CLI, Continue, Waiter, Killer

(* A KVM VM implements the safety part of the interface VM: whatever       *)
(* commands, faults and goroutine steps do, its state and its processes    *)
(* look like one process that is launched, paused, ends, is noticed to     *)
(* have ended and is launched again, until an error is recorded or the VM  *)
(* is migrated.                                                            *)
THEOREM ImplementsSafety == Spec => Promise!Safety
<1>1. Init => Promise!Init
  <2>1. Init => ProcOfVM = "none"
    BY DEF Init, ProcOfVM, Running
  <2>2. QED
    BY <2>1 DEF Init, Promise!Init
<1>2. TypeInv /\ TypeInv' /\ LifeInv /\ RefInv /\ [Next]_vars => [Promise!Next]_(Promise!vars)
  <2>1. ASSUME TypeInv, TypeInv', LifeInv, RefInv, [Next]_vars, tagged' \/ migrated'
        PROVE  Promise!Next
    BY <2>1, RefMonotone, RefFaulted DEF Promise!Next
  <2>2. ASSUME TypeInv, TypeInv', LifeInv, RefInv, [Next]_vars, ~(tagged' \/ migrated')
        PROVE  [Promise!Next]_(Promise!vars)
    BY <2>2, RefMonotone, MigratedStays, RefNext
  <2>3. QED
    BY <2>1, <2>2
<1>3. QED
  BY <1>1, <1>2, TypeInit, TypeStep, LifeInit, LifeStep, RefInit, RefStep, PTL
      DEF Spec, Promise!Safety
=============================================================================
