------------------------- MODULE ContainerVM_proofs -------------------------
(***************************************************************************)
(* Proofs about ContainerVM, for any number of launches and bridges, any   *)
(* set of commands and any set of faults.                                  *)
(***************************************************************************)
EXTENDS ContainerVM, TLAPS

(* A command that has decided to start the VM has one launch left. *)
TypeInv == TypeOK /\ (pc = "start" => gen < MaxLaunches)

(* The inductive invariant behind KillIsHeard: a container that can be     *)
(* killed has its current kill channel closed only while a Kill waits, and *)
(* nothing of a launch exists before its channel does.                     *)
Fresh(g) == proc[g] = "none" /\ waiter[g] = "none" /\ killer[g] = "none" /\ killCh[g] = g

Listening == {"spawned", "select", "exited", "kill", "killing"}

KillInv ==
    /\ pc # "panic"
    /\ state \in Killable /\ gen \in closed => pc \in {"wait", "woken"}
    /\ \A g \in closed : g <= gen
    /\ \A g \in Gens : g > gen => Fresh(g)
    /\ pc = "launch" => closed = {} /\ Fresh(gen)
    /\ pc # "launch" /\ state \in Killable => killCh[gen] = gen /\ killer[gen] \in Listening

(* The inductive invariant behind what holds of a container without an     *)
(* error: a process that runs is waited for, the goroutine that is to kill *)
(* or clean up is that of the current launch and has not left before the   *)
(* State says so, and the freezer agrees with the State but while the      *)
(* container is being killed.                                              *)
Clean ==
    /\ state # "ERROR"
    /\ pc # "launch" => proc[gen] # "none"
    /\ \A g \in Gens :
          /\ Running(g) => waiter[g] = "waiting"
          /\ waiter[g] \in {"waiting", "sending"} <=> killer[g] \in Listening \ {"exited"}
          /\ waiter[g] \in {"sending", "done"} => Exited(g)
          /\ killer[g] = "exited" => Exited(g)
          /\ killer[g] \in Listening => g = gen /\ state \in Killable /\ pc # "launch"
          /\ killer[g] = "killing" => cgroup = "thawed" /\ proc[g] # "alive"
    /\ state \in Killable /\ pc # "launch" /\ killer[gen] # "killing" =>
          cgroup = IF state = "RUNNING" THEN "thawed" ELSE "frozen"

LifeInv ==
    /\ pc = "launch" \/ pc = "start" => present
    /\ pc = "launch" =>
          /\ state = "BUILDING" /\ ~tagged
          /\ taps = {} /\ nic = Default
          /\ \A g \in Gens : Fresh(g)
    /\ ~tagged => Clean
    /\ TapsFollow
----------------------------------------------------------------------------
(* NewContainer gives every field a value of its type. *)
LEMMA TypeInit == Init => TypeInv
<1>1. ASSUME Init
      PROVE  /\ proc \in [Gens -> ProcStates]
             /\ waiter \in [Gens -> WaiterStates]
             /\ killer \in [Gens -> KillerStates]
             /\ killCh \in [Gens -> Gens]
             /\ gen \in Gens
  BY <1>1, LaunchesAssumption DEF Init, ProcStates, WaiterStates, KillerStates, Gens
<1>2. QED
  BY <1>1, BridgesAssumption DEF Init, TypeInv, TypeOK, States

(* What launch() writes keeps its type. *)
LaunchTypes ==
    /\ dir \in BOOLEAN /\ alias \in BOOLEAN /\ overlay \in BOOLEAN /\ fifos \in BOOLEAN
    /\ cgroup \in {"none", "frozen", "thawed"}
    /\ netns \in BOOLEAN /\ skewed \in BOOLEAN
    /\ nic \in Bridges \cup {Off} /\ taps \in SUBSET Bridges
    /\ proc \in [Gens -> ProcStates]
    /\ waiter \in [Gens -> WaiterStates]
    /\ killer \in [Gens -> KillerStates]
    /\ killCh \in [Gens -> Gens]

(* launch() keeps the types on its error paths as well as on success. *)
LEMMA LaunchTypeStep ==
    ASSUME TypeInv, NEW g \in Gens, NEW first \in BOOLEAN,
           \/ LaunchFails(first)
           \/ LaunchFailsNetwork(g, first)
           \/ \E p \in {"alive", "error"} : LaunchSucceeds(g, first, p) \/ LaunchThawed(g, first, p)
    PROVE  LaunchTypes'
<1>1. CASE LaunchFails(first)
  BY <1>1 DEF LaunchFails, TypeInv, TypeOK, LaunchTypes, disk, network, goroutines
<1>2. ASSUME NEW p \in ProcStates, StartProcess(g, first, p)
      PROVE  /\ dir' \in BOOLEAN /\ alias' \in BOOLEAN /\ overlay' \in BOOLEAN
             /\ fifos' \in BOOLEAN
             /\ proc' \in [Gens -> ProcStates]
  BY <1>2 DEF StartProcess, TypeInv, TypeOK
<1>3. ASSUME AttachNetwork
      PROVE  /\ netns' \in BOOLEAN /\ skewed' \in BOOLEAN
             /\ nic' \in Bridges \cup {Off} /\ taps' \in SUBSET Bridges
  BY <1>3 DEF AttachNetwork, TypeInv, TypeOK
<1>4. ASSUME SpawnGoroutines(g)
      PROVE  /\ waiter' \in [Gens -> WaiterStates]
             /\ killer' \in [Gens -> KillerStates]
             /\ killCh' \in [Gens -> Gens]
  BY <1>4 DEF SpawnGoroutines, TypeInv, TypeOK, WaiterStates, KillerStates
<1>5. CASE LaunchFailsNetwork(g, first)
  <2>1. PICK p \in {"dying", "error"} : StartProcess(g, first, p)
    BY <1>5 DEF LaunchFailsNetwork
  <2>2. p \in ProcStates
    BY <2>1 DEF ProcStates
  <2>3. /\ netns' \in BOOLEAN /\ skewed' \in BOOLEAN
        /\ nic' \in Bridges \cup {Off} /\ taps' \in SUBSET Bridges
        /\ cgroup' \in {"none", "frozen", "thawed"}
    BY <1>5 DEF LaunchFailsNetwork, TypeInv, TypeOK
  <2>4. QED
    BY <1>2, <1>5, <2>1, <2>2, <2>3 DEF LaunchFailsNetwork, TypeInv, TypeOK, LaunchTypes
<1>6. ASSUME NEW p \in {"alive", "error"}, LaunchSucceeds(g, first, p) \/ LaunchThawed(g, first, p)
      PROVE  LaunchTypes'
  <2>1. p \in ProcStates
    BY DEF ProcStates
  <2>2. StartProcess(g, first, p) /\ AttachNetwork /\ SpawnGoroutines(g)
    BY <1>6 DEF LaunchSucceeds, LaunchThawed
  <2>3. cgroup' \in {"none", "frozen", "thawed"}
    BY <1>6 DEF LaunchSucceeds, LaunchThawed
  <2>4. QED
    BY <1>2, <1>3, <1>4, <2>1, <2>2, <2>3 DEF LaunchTypes
<1>7. QED
  BY <1>1, <1>5, <1>6

(* One step per command and goroutine step; gen stays within the bound     *)
(* because StartCheck leaves a launch over for Relaunch.                   *)
LEMMA TypeStep ==
    ASSUME TypeInv, [Next]_vars
    PROVE  TypeInv'
<1>1. ASSUME NEW wild \in BOOLEAN, StartCheck(wild)
      PROVE  TypeInv'
  BY <1>1, LaunchesAssumption DEF TypeInv, TypeOK, States, StartCheck, Idle,
      Up, disk, network, goroutines, command
<1>2. CASE Stop
  <2>1. state' \in States /\ tagged' \in BOOLEAN /\ fatal' \in BOOLEAN
    BY <1>2 DEF TypeInv, TypeOK, States, disk, Stop, Idle, Up, SetState,
        SetErrorf
  <2>2. cgroup' \in {"none", "frozen", "thawed"}
    BY <1>2 DEF TypeInv, TypeOK, Stop, Idle, Up, SetState, SetErrorf
  <2>3. QED
    BY <1>2, <2>1, <2>2 DEF TypeInv, TypeOK, States, Stop, Idle, Up, SetState,
        SetErrorf, disk, network, goroutines, command
<1>3. CASE Kill
  BY <1>3, LaunchesAssumption DEF TypeInv, TypeOK, States, Kill, Idle, Up,
      disk, network, goroutines, command
<1>4. CASE Flush
  <2>1. dir' \in BOOLEAN /\ alias' \in BOOLEAN /\ overlay' \in BOOLEAN /\ fifos' \in BOOLEAN
    BY <1>4 DEF TypeInv, TypeOK, disk, Flush, FlushSucceeds, FlushFails, Idle,
        Up
  <2>2. present' \in BOOLEAN /\ registered' \in BOOLEAN
    BY <1>4 DEF TypeInv, TypeOK, Flush, FlushSucceeds, FlushFails, Idle, Up
  <2>3. QED
    BY <1>4, <2>1, <2>2 DEF TypeInv, TypeOK, States, Flush, FlushSucceeds,
        FlushFails, Idle, Up, disk, network, goroutines, command
<1>5. CASE FlushAll
  <2>1. dir' \in BOOLEAN /\ alias' \in BOOLEAN /\ overlay' \in BOOLEAN /\ fifos' \in BOOLEAN
    BY <1>5 DEF TypeInv, TypeOK, disk, FlushAll, FlushSucceeds, FlushFails,
        Idle, Up
  <2>2. present' \in BOOLEAN /\ registered' \in BOOLEAN
    BY <1>5 DEF TypeInv, TypeOK, FlushAll, FlushSucceeds, FlushFails, Idle, Up
  <2>3. QED
    BY <1>5, <2>1, <2>2 DEF TypeInv, TypeOK, States, FlushAll, FlushSucceeds,
        FlushFails, Idle, Up, disk, network, goroutines, command
<1>6. ASSUME NEW to \in Bridges, NetworkConnect(to)
      PROVE  TypeInv'
  <2>1. nic' \in Bridges \cup {Off} /\ taps' \in SUBSET Bridges /\ skewed' \in BOOLEAN
    BY <1>6 DEF TypeInv, TypeOK, NetworkConnect, MoveTap, Idle, Up
  <2>2. QED
    BY <1>6, <2>1 DEF TypeInv, TypeOK, States, NetworkConnect, MoveTap, Idle,
        Up, disk, network, goroutines, command
<1>7. CASE NetworkDisconnect
  <2>1. nic' \in Bridges \cup {Off} /\ taps' \in SUBSET Bridges /\ skewed' \in BOOLEAN
    BY <1>7 DEF TypeInv, TypeOK, NetworkDisconnect, Idle, Up
  <2>2. QED
    BY <1>7, <2>1 DEF TypeInv, TypeOK, States, NetworkDisconnect, Idle, Up,
        disk, network, goroutines, command
<1>8. CASE Launch
  <2>1. gen \in Gens /\ gen' = gen
    BY <1>8 DEF Launch, TypeInv, TypeOK
  <2>2. LaunchTypes'
    BY <1>8, <2>1, LaunchTypeStep DEF Launch
  <2>3. state' \in States /\ tagged' \in BOOLEAN
    BY <1>8 DEF TypeInv, TypeOK, States, Launch, LaunchFails, LaunchFailsNetwork, SetErrorf
  <2>4. fatal' \in BOOLEAN
    BY <1>8 DEF TypeInv, TypeOK, Launch, LaunchFails, LaunchFailsNetwork, SetErrorf
  <2>5. QED
    BY <1>8, <2>1, <2>2, <2>3, <2>4 DEF TypeInv, TypeOK, LaunchTypes, Launch
<1>9. CASE Start
  <2>1. state' \in States /\ tagged' \in BOOLEAN /\ fatal' \in BOOLEAN
    BY <1>9 DEF TypeInv, TypeOK, States, disk, Start, ThawAndRun, SetState,
        SetErrorf, Connect, Up, Unlocked
  <2>2. cgroup' \in {"none", "frozen", "thawed"}
    BY <1>9 DEF TypeInv, TypeOK, Start, ThawAndRun, SetState, SetErrorf,
        Connect, Up, Unlocked
  <2>3. present' \in BOOLEAN /\ registered' \in BOOLEAN
    BY <1>9 DEF TypeInv, TypeOK, Start, ThawAndRun, SetState, SetErrorf,
        Connect, Up, Unlocked
  <2>4. QED
    BY <1>9, <2>1, <2>2, <2>3 DEF TypeInv, TypeOK, States, Start, ThawAndRun,
        SetState, SetErrorf, Connect, Up, Unlocked, disk, network,
        goroutines, command
<1>10. CASE Relaunch
  <2>1. gen + 1 \in Gens /\ gen' = gen + 1
    BY <1>10, LaunchesAssumption DEF Relaunch, TypeInv, TypeOK, Gens
  <2>2. LaunchTypes'
    BY <1>10, <2>1, LaunchTypeStep DEF Relaunch, RelaunchThawed, LaunchThawed
  <2>3. state' \in States /\ tagged' \in BOOLEAN
    BY <1>10 DEF TypeInv, TypeOK, States, Relaunch, LaunchFails, LaunchFailsNetwork, SetErrorf,
        SetState
  <2>4. registered' \in BOOLEAN
    BY <1>10 DEF TypeInv, TypeOK, Relaunch, Connect
  <2>5. fatal' \in BOOLEAN
    BY <1>10 DEF TypeInv, TypeOK, Relaunch, LaunchFails, LaunchFailsNetwork, SetErrorf, SetState
  <2>6. QED
    BY <1>10, <2>1, <2>2, <2>3, <2>4, <2>5 DEF TypeInv, TypeOK, LaunchTypes, Relaunch
<1>11. CASE KillResume
  BY <1>11, LaunchesAssumption DEF TypeInv, TypeOK, States, KillResume, disk,
      network, goroutines, command
<1>12. ASSUME NEW g \in Gens, Wait(g)
      PROVE  TypeInv'
  <2>1. waiter' \in [Gens -> WaiterStates]
    BY <1>12 DEF TypeInv, TypeOK, WaiterStates, Wait, Exited
  <2>2. QED
    BY <1>12, <2>1 DEF TypeInv, TypeOK, States, Wait, Exited, disk, network,
        goroutines, command
<1>13. ASSUME NEW g \in Gens, EnterSelect(g)
      PROVE  TypeInv'
  <2>1. killer' \in [Gens -> KillerStates]
    BY <1>13 DEF TypeInv, TypeOK, KillerStates, EnterSelect
  <2>2. killCh' \in [Gens -> Gens]
    BY <1>13 DEF TypeInv, TypeOK, EnterSelect
  <2>3. QED
    BY <1>13, <2>1, <2>2 DEF TypeInv, TypeOK, States, EnterSelect, disk,
        network, goroutines, command
<1>14. ASSUME NEW g \in Gens, SelectExited(g)
      PROVE  TypeInv'
  <2>1. waiter' \in [Gens -> WaiterStates]
    BY <1>14 DEF TypeInv, TypeOK, WaiterStates, SelectExited
  <2>2. killer' \in [Gens -> KillerStates]
    BY <1>14 DEF TypeInv, TypeOK, KillerStates, SelectExited
  <2>3. QED
    BY <1>14, <2>1, <2>2 DEF TypeInv, TypeOK, States, SelectExited, disk,
        network, goroutines, command
<1>15. ASSUME NEW g \in Gens, SelectKill(g)
      PROVE  TypeInv'
  <2>1. killer' \in [Gens -> KillerStates]
    BY <1>15 DEF TypeInv, TypeOK, KillerStates, SelectKill
  <2>2. QED
    BY <1>15, <2>1 DEF TypeInv, TypeOK, States, SelectKill, disk, network,
        goroutines, command
<1>16. ASSUME NEW g \in Gens, ExitedLocked(g)
      PROVE  TypeInv'
  <2>1. killer' \in [Gens -> KillerStates]
    BY <1>16 DEF TypeInv, TypeOK, KillerStates, ExitedLocked, CleanUp,
        SetState, SetErrorf
  <2>2. state' \in States /\ tagged' \in BOOLEAN /\ fatal' \in BOOLEAN
    BY <1>16 DEF TypeInv, TypeOK, States, disk, ExitedLocked, CleanUp,
        SetState, SetErrorf
  <2>3. taps' \in SUBSET Bridges /\ cgroup' \in {"none", "frozen", "thawed"}
    BY <1>16 DEF TypeInv, TypeOK, ExitedLocked, CleanUp, SetState, SetErrorf
  <2>4. netns' \in BOOLEAN
    BY <1>16 DEF TypeInv, TypeOK, ExitedLocked, CleanUp, SetState, SetErrorf
  <2>5. QED
    BY <1>16, <2>1, <2>2, <2>3, <2>4 DEF TypeInv, TypeOK, States, ExitedLocked,
        CleanUp, SetState, SetErrorf, disk, network, goroutines, command
<1>17. ASSUME NEW g \in Gens, KillLocked(g)
      PROVE  TypeInv'
  <2>1. killer' \in [Gens -> KillerStates]
    BY <1>17 DEF TypeInv, TypeOK, KillerStates, KillLocked, SetErrorf
  <2>2. proc' \in [Gens -> ProcStates]
    BY <1>17 DEF TypeInv, TypeOK, ProcStates, KillLocked, SetErrorf
  <2>3. state' \in States /\ tagged' \in BOOLEAN /\ fatal' \in BOOLEAN
    BY <1>17 DEF TypeInv, TypeOK, States, disk, KillLocked, SetErrorf
  <2>4. QED
    BY <1>17, <2>1, <2>2, <2>3 DEF TypeInv, TypeOK, States, KillLocked,
        SetErrorf, disk, network, goroutines, command
<1>18. ASSUME NEW g \in Gens, Killed(g)
      PROVE  TypeInv'
  <2>1. killer' \in [Gens -> KillerStates]
    BY <1>18 DEF TypeInv, TypeOK, KillerStates, Killed, CleanUp, SetState,
        SetErrorf
  <2>2. waiter' \in [Gens -> WaiterStates]
    BY <1>18 DEF TypeInv, TypeOK, WaiterStates, Killed, CleanUp, SetState,
        SetErrorf
  <2>3. state' \in States /\ tagged' \in BOOLEAN /\ fatal' \in BOOLEAN
    BY <1>18 DEF TypeInv, TypeOK, States, disk, Killed, CleanUp, SetState,
        SetErrorf
  <2>4. taps' \in SUBSET Bridges /\ cgroup' \in {"none", "frozen", "thawed"}
    BY <1>18 DEF TypeInv, TypeOK, Killed, CleanUp, SetState, SetErrorf
  <2>5. netns' \in BOOLEAN
    BY <1>18 DEF TypeInv, TypeOK, Killed, CleanUp, SetState, SetErrorf
  <2>6. QED
    BY <1>18, <2>1, <2>2, <2>3, <2>4, <2>5 DEF TypeInv, TypeOK, States, Killed,
        CleanUp, SetState, SetErrorf, disk, network, goroutines, command
<1>19. ASSUME NEW g \in Gens, Signal(g)
      PROVE  TypeInv'
  <2>1. killer' \in [Gens -> KillerStates]
    BY <1>19 DEF TypeInv, TypeOK, KillerStates, Signal
  <2>2. QED
    BY <1>19, <2>1 DEF TypeInv, TypeOK, States, Signal, disk, network,
        goroutines, command
<1>20. ASSUME NEW g \in Gens, ProcessExit(g)
      PROVE  TypeInv'
  <2>1. proc' \in [Gens -> ProcStates]
    BY <1>20 DEF TypeInv, TypeOK, ProcStates, ProcessExit
  <2>2. QED
    BY <1>20, <2>1 DEF TypeInv, TypeOK, States, ProcessExit, disk, network,
        goroutines, command
<1>21. CASE UNCHANGED vars
  BY <1>21 DEF TypeInv, TypeOK, States, vars, disk, network, goroutines,
      command
<1>22. QED
  BY <1>1, <1>2, <1>3, <1>4, <1>5, <1>6, <1>7, <1>8, <1>9, <1>10, <1>11,
      <1>12, <1>13, <1>14, <1>15, <1>16, <1>17, <1>18, <1>19, <1>20, <1>21
      DEF Next, CLI, Continue, Killer

(* A container's fields, channels, goroutines, taps and cgroup keep their  *)
(* types through every command, fault and goroutine step.                  *)
THEOREM TypeCorrect == Spec => []TypeOK
<1>1. TypeInv => TypeOK
  BY DEF TypeInv
<1>2. QED
  BY <1>1, TypeInit, TypeStep, PTL DEF Spec

----------------------------------------------------------------------------
(* No kill channel is closed when NewContainer returns. *)
LEMMA KillInit == Init => KillInv
  BY LaunchesAssumption DEF Init, KillInv, Fresh, Gens, Killable

(* launch() of g starts a process and goroutines of g only, and the        *)
(* goroutine that kills is there if it succeeds.                           *)
LEMMA LaunchKillStep ==
    ASSUME TypeInv, NEW g \in Gens, NEW first \in BOOLEAN,
           \/ LaunchFails(first)
           \/ LaunchFailsNetwork(g, first)
           \/ \E p \in {"alive", "error"} : LaunchSucceeds(g, first, p) \/ LaunchThawed(g, first, p)
    PROVE  /\ killCh' = killCh
           /\ \A h \in Gens \ {g} :
                 proc'[h] = proc[h] /\ waiter'[h] = waiter[h] /\ killer'[h] = killer[h]
           /\ killer'[g] = "spawned" \/ (state' = "ERROR" /\ tagged' = TRUE)
  BY DEF LaunchFails, LaunchFailsNetwork, LaunchSucceeds, LaunchThawed, StartProcess,
      SpawnGoroutines, AttachNetwork, SetErrorf, TypeInv, TypeOK, goroutines

(* A launch brings a new channel and a goroutine that listens on it; Kill  *)
(* closes the channel of a container that can be killed and waits; the     *)
(* goroutine leaves only when the container cannot be killed any more.     *)
LEMMA KillStep ==
    ASSUME TypeInv, KillInv, [Next]_vars
    PROVE  KillInv'
<1>1. ASSUME NEW wild \in BOOLEAN, StartCheck(wild)
      PROVE  KillInv'
  BY <1>1, LaunchesAssumption DEF TypeInv, TypeOK, KillInv, Fresh, Killable,
      Listening, StartCheck, Idle, Up, disk, network, goroutines, command
<1>2. CASE Stop
  BY <1>2, LaunchesAssumption DEF TypeInv, TypeOK, KillInv, Fresh, Killable,
      Listening, Stop, Idle, Up, SetState, SetErrorf, disk, network,
      goroutines, command
<1>3. CASE Kill
  <2>1. gen \in Nat /\ gen <= gen
    BY LaunchesAssumption DEF TypeInv, TypeOK, Gens
  <2>2. QED
    BY <1>3, <2>1 DEF TypeInv, TypeOK, KillInv, Fresh, Killable, Listening, Kill, Idle, goroutines
<1>4. CASE Flush
  BY <1>4, LaunchesAssumption DEF TypeInv, TypeOK, KillInv, Fresh, Killable,
      Listening, Flush, FlushSucceeds, FlushFails, Idle, Up, disk, network,
      goroutines, command
<1>5. CASE FlushAll
  BY <1>5, LaunchesAssumption DEF TypeInv, TypeOK, KillInv, Fresh, Killable,
      Listening, FlushAll, FlushSucceeds, FlushFails, Idle, Up, disk,
      network, goroutines, command
<1>6. ASSUME NEW to \in Bridges, NetworkConnect(to)
      PROVE  KillInv'
  BY <1>6, LaunchesAssumption DEF TypeInv, TypeOK, KillInv, Fresh, Killable,
      Listening, NetworkConnect, MoveTap, Idle, Up, disk, network,
      goroutines, command
<1>7. CASE NetworkDisconnect
  BY <1>7, LaunchesAssumption DEF TypeInv, TypeOK, KillInv, Fresh, Killable,
      Listening, NetworkDisconnect, Idle, Up, disk, network, goroutines,
      command
<1>8. CASE Launch
  <2>1. gen \in Gens /\ gen' = gen /\ pc' = "idle" /\ closed' = closed
    BY <1>8 DEF Launch, TypeInv, TypeOK
  <2>2. /\ killCh' = killCh
        /\ \A h \in Gens \ {gen} :
              proc'[h] = proc[h] /\ waiter'[h] = waiter[h] /\ killer'[h] = killer[h]
        /\ killer'[gen] = "spawned" \/ (state' = "ERROR" /\ tagged' = TRUE)
    BY <1>8, <2>1, LaunchKillStep DEF Launch
  <2>3. QED
    BY <1>8, <2>1, <2>2, LaunchesAssumption DEF Launch, TypeInv, TypeOK, KillInv, Fresh, Killable,
        Listening, Gens
<1>9. CASE Start
  BY <1>9, LaunchesAssumption DEF TypeInv, TypeOK, KillInv, Fresh, Killable,
      Listening, Start, ThawAndRun, SetState, SetErrorf, Connect, Up,
      Unlocked, disk, network, goroutines, command
<1>10. CASE Relaunch
  <2>1. gen + 1 \in Gens /\ gen' = gen + 1 /\ pc' = "idle" /\ closed' = closed
    BY <1>10, LaunchesAssumption DEF Relaunch, TypeInv, TypeOK, Gens
  <2>2. /\ killCh' = killCh
        /\ \A h \in Gens \ {gen + 1} :
              proc'[h] = proc[h] /\ waiter'[h] = waiter[h] /\ killer'[h] = killer[h]
        /\ killer'[gen + 1] = "spawned" \/ (state' = "ERROR" /\ tagged' = TRUE)
    BY <1>10, <2>1, LaunchKillStep DEF Relaunch, RelaunchThawed, LaunchThawed
  <2>3. gen \in Nat /\ \A g \in Gens : g \in Nat
    BY LaunchesAssumption DEF TypeInv, TypeOK, Gens
  <2>4. gen + 1 \notin closed /\ Fresh(gen + 1)
    BY <2>1, <2>3 DEF KillInv
  <2>5. \A g \in Gens : g > gen + 1 => Fresh(g)'
    BY <2>1, <2>2, <2>3 DEF KillInv, Fresh
  <2>6. \A g \in closed : g <= gen + 1
    BY <2>3 DEF KillInv, TypeInv, TypeOK
  <2>7. QED
    BY <2>1, <2>2, <2>4, <2>5, <2>6 DEF KillInv, Fresh, Killable, Listening
<1>11. CASE KillResume
  BY <1>11, LaunchesAssumption DEF TypeInv, TypeOK, KillInv, Fresh, Killable,
      Listening, KillResume, disk, network, goroutines, command
<1>12. ASSUME NEW g \in Gens, Wait(g)
      PROVE  KillInv'
  <2>1. \A h \in Gens : Fresh(h) => h # g
    BY <1>12 DEF Fresh, Running, Wait, Exited
  <2>2. \A h \in Gens : Fresh(h) => Fresh(h)'
    BY <1>12, <2>1 DEF Fresh, TypeInv, TypeOK, Wait, Exited
  <2>3. QED
    BY <1>12, <2>1, <2>2 DEF TypeInv, TypeOK, KillInv, Killable, Listening,
        Wait, Exited, disk, network, goroutines, command
<1>13. ASSUME NEW g \in Gens, EnterSelect(g)
      PROVE  KillInv'
  <2>1. \A h \in Gens : Fresh(h) => h # g
    BY <1>13 DEF Fresh, Running, EnterSelect
  <2>2. \A h \in Gens : Fresh(h) => Fresh(h)'
    BY <1>13, <2>1 DEF Fresh, TypeInv, TypeOK, EnterSelect
  <2>3. QED
    BY <1>13, <2>1, <2>2 DEF TypeInv, TypeOK, KillInv, Killable, Listening,
        EnterSelect, disk, network, goroutines, command
<1>14. ASSUME NEW g \in Gens, SelectExited(g)
      PROVE  KillInv'
  <2>1. \A h \in Gens : Fresh(h) => h # g
    BY <1>14 DEF Fresh, Running, SelectExited
  <2>2. \A h \in Gens : Fresh(h) => Fresh(h)'
    BY <1>14, <2>1 DEF Fresh, TypeInv, TypeOK, SelectExited
  <2>3. QED
    BY <1>14, <2>1, <2>2 DEF TypeInv, TypeOK, KillInv, Killable, Listening,
        SelectExited, disk, network, goroutines, command
<1>15. ASSUME NEW g \in Gens, SelectKill(g)
      PROVE  KillInv'
  <2>1. \A h \in Gens : Fresh(h) => h # g
    BY <1>15 DEF Fresh, Running, SelectKill
  <2>2. \A h \in Gens : Fresh(h) => Fresh(h)'
    BY <1>15, <2>1 DEF Fresh, TypeInv, TypeOK, SelectKill
  <2>3. QED
    BY <1>15, <2>1, <2>2 DEF TypeInv, TypeOK, KillInv, Killable, Listening,
        SelectKill, disk, network, goroutines, command
<1>16. ASSUME NEW g \in Gens, ExitedLocked(g)
      PROVE  KillInv'
  <2>1. \A h \in Gens : Fresh(h) => h # g
    BY <1>16 DEF Fresh, Running, ExitedLocked, CleanUp, SetState, SetErrorf
  <2>2. \A h \in Gens : Fresh(h) => Fresh(h)'
    BY <1>16, <2>1 DEF Fresh, TypeInv, TypeOK, ExitedLocked, CleanUp, SetState,
        SetErrorf
  <2>3. QED
    BY <1>16, <2>1, <2>2 DEF TypeInv, TypeOK, KillInv, Killable, Listening,
        ExitedLocked, CleanUp, SetState, SetErrorf, disk, network,
        goroutines, command
<1>17. ASSUME NEW g \in Gens, KillLocked(g)
      PROVE  KillInv'
  <2>1. \A h \in Gens : Fresh(h) => h # g
    BY <1>17 DEF Fresh, Running, KillLocked, SetErrorf
  <2>2. \A h \in Gens : Fresh(h) => Fresh(h)'
    BY <1>17, <2>1 DEF Fresh, TypeInv, TypeOK, KillLocked, SetErrorf
  <2>3. QED
    BY <1>17, <2>1, <2>2 DEF TypeInv, TypeOK, KillInv, Killable, Listening,
        KillLocked, SetErrorf, disk, network, goroutines, command
<1>18. ASSUME NEW g \in Gens, Killed(g)
      PROVE  KillInv'
  <2>1. \A h \in Gens : Fresh(h) => h # g
    BY <1>18 DEF Fresh, Running, Killed, CleanUp, SetState, SetErrorf
  <2>2. \A h \in Gens : Fresh(h) => Fresh(h)'
    BY <1>18, <2>1 DEF Fresh, TypeInv, TypeOK, Killed, CleanUp, SetState,
        SetErrorf
  <2>3. QED
    BY <1>18, <2>1, <2>2 DEF TypeInv, TypeOK, KillInv, Killable, Listening,
        Killed, CleanUp, SetState, SetErrorf, disk, network, goroutines,
        command
<1>19. ASSUME NEW g \in Gens, Signal(g)
      PROVE  KillInv'
  <2>1. \A h \in Gens : Fresh(h) => h # g
    BY <1>19 DEF Fresh, Running, Signal
  <2>2. \A h \in Gens : Fresh(h) => Fresh(h)'
    BY <1>19, <2>1 DEF Fresh, TypeInv, TypeOK, Signal
  <2>3. QED
    BY <1>19, <2>1, <2>2 DEF TypeInv, TypeOK, KillInv, Killable, Listening,
        Signal, disk, network, goroutines, command
<1>20. ASSUME NEW g \in Gens, ProcessExit(g)
      PROVE  KillInv'
  <2>1. \A h \in Gens : Fresh(h) => h # g
    BY <1>20 DEF Fresh, Running, ProcessExit
  <2>2. \A h \in Gens : Fresh(h) => Fresh(h)'
    BY <1>20, <2>1 DEF Fresh, TypeInv, TypeOK, ProcessExit
  <2>3. QED
    BY <1>20, <2>1, <2>2 DEF TypeInv, TypeOK, KillInv, Killable, Listening,
        ProcessExit, disk, network, goroutines, command
<1>21. CASE UNCHANGED vars
  BY <1>21 DEF TypeInv, TypeOK, KillInv, Fresh, Killable, Listening, vars,
      disk, network, goroutines, command
<1>22. QED
  BY <1>1, <1>2, <1>3, <1>4, <1>5, <1>6, <1>7, <1>8, <1>9, <1>10, <1>11,
      <1>12, <1>13, <1>14, <1>15, <1>16, <1>17, <1>18, <1>19, <1>20, <1>21
      DEF Next, CLI, Continue, Killer

(* Whatever fails: Kill finds a channel that is open, and somebody who     *)
(* listens on it and has not left for good.                                *)
THEOREM KillIsSound == Spec => []KillSound
<1>1. TypeInv /\ KillInv => KillSound
  BY DEF TypeInv, KillInv, KillSound, KillIsHeard, Listening
<1>2. QED
  BY <1>1, TypeInit, TypeStep, KillInit, KillStep, PTL DEF Spec

----------------------------------------------------------------------------
(* Nothing runs and there is no tap when NewContainer returns. *)
LEMMA LifeInit == Init => LifeInv
  BY LaunchesAssumption DEF Init, LifeInv, Clean, TapsFollow, Fresh, Running, Exited, Gens,
      Listening, Killable

(* A process is made and waited for by launch(), which freezes it, and by  *)
(* nothing else; the goroutine that ends the wait writes QUIT in the same  *)
(* step, and nobody thaws or freezes the container while it is killed.     *)
LEMMA LifeStep ==
    ASSUME TypeInv, KillInv, LifeInv, [Next]_vars
    PROVE  LifeInv'
<1>1. ASSUME NEW wild \in BOOLEAN, StartCheck(wild)
      PROVE  LifeInv'
  BY <1>1 DEF TypeInv, TypeOK, LifeInv, Clean, TapsFollow, Fresh, Running,
      Exited, Listening, Killable, StartCheck, Idle, Up, disk, network,
      goroutines, command
<1>2. CASE Stop
  <2>1. \A g \in Gens : killer[g] # "killing"
    BY <1>2 DEF Stop, Idle, Unlocked
  <2>2. pc' = "idle" /\ state = "RUNNING" /\ present
    BY <1>2 DEF Stop, Idle, command
  <2>3. ASSUME ~tagged'
        PROVE  state' = "PAUSED" /\ cgroup' = "frozen" /\ ~tagged
    BY <1>2, <2>3 DEF Stop, SetState, SetErrorf
  <2>4. ~tagged' => Clean'
    BY <1>2, <2>1, <2>2, <2>3 DEF Stop, goroutines, TypeInv, TypeOK, LifeInv, Clean, Running,
        Exited, Listening, Killable
  <2>5. TapsFollow'
    BY <1>2, <2>2, <2>3 DEF Stop, network, LifeInv, TapsFollow, Killable
  <2>6. QED
    BY <2>2, <2>4, <2>5 DEF LifeInv
<1>3. CASE Kill
  BY <1>3 DEF TypeInv, TypeOK, LifeInv, Clean, TapsFollow, Fresh, Running,
      Exited, Listening, Killable, Kill, Idle, Up, disk, network, goroutines,
      command
<1>4. CASE Flush
  BY <1>4 DEF TypeInv, TypeOK, LifeInv, Clean, TapsFollow, Fresh, Running,
      Exited, Listening, Killable, Flush, FlushSucceeds, FlushFails, Idle,
      Up, disk, network, goroutines, command
<1>5. CASE FlushAll
  BY <1>5 DEF TypeInv, TypeOK, LifeInv, Clean, TapsFollow, Fresh, Running,
      Exited, Listening, Killable, FlushAll, FlushSucceeds, FlushFails, Idle,
      Up, disk, network, goroutines, command
<1>6. ASSUME NEW to \in Bridges, NetworkConnect(to)
      PROVE  LifeInv'
  <2>1. pc' = "idle" /\ state' = state /\ tagged' = tagged /\ pc = "idle"
    BY <1>6 DEF NetworkConnect, Idle, command
  <2>2. ~tagged' => Clean'
    BY <1>6, <2>1 DEF NetworkConnect, goroutines, LifeInv, Clean, Running, Exited
  <2>3. ASSUME state \in {"RUNNING", "PAUSED"}
        PROVE  TapsFollow'
    <3>1. MoveTap(to)
      BY <1>6, <2>3 DEF NetworkConnect
    <3>2. ASSUME ~skewed', ~tagged
          PROVE  nic' = to /\ taps' = (taps \ {nic}) \cup {to} /\ ~skewed
      BY <3>1, <3>2 DEF MoveTap
    <3>3. to # Off
      BY <1>6, BridgesAssumption
    <3>4. QED
      BY <2>1, <2>3, <3>2, <3>3 DEF LifeInv, TapsFollow, Killable
  <2>4. ASSUME state \notin {"RUNNING", "PAUSED"}
        PROVE  TapsFollow'
    <3>1. nic' = to /\ taps' = taps /\ (~skewed' => ~skewed /\ (state = "BUILDING" => to = nic))
      BY <1>6, <2>4 DEF NetworkConnect
    <3>2. QED
      BY <2>1, <2>4, <3>1 DEF LifeInv, TapsFollow, Killable
  <2>5. QED
    BY <2>1, <2>2, <2>3, <2>4 DEF LifeInv, TapsFollow
<1>7. CASE NetworkDisconnect
  <2>1. pc' = "idle" /\ state' = state /\ tagged' = tagged /\ pc = "idle"
    BY <1>7 DEF NetworkDisconnect, Idle, command
  <2>2. ~tagged' => Clean'
    BY <1>7, <2>1 DEF NetworkDisconnect, goroutines, LifeInv, Clean, Running, Exited
  <2>3. TapsFollow'
    <3>1. nic # Off /\ nic' = Off
      BY <1>7 DEF NetworkDisconnect
    <3>2. CASE state \in {"RUNNING", "PAUSED"}
      <4>1. taps' = taps \ {nic} /\ skewed' = skewed
        BY <1>7, <3>2 DEF NetworkDisconnect
      <4>2. QED
        BY <2>1, <3>1, <3>2, <4>1 DEF LifeInv, TapsFollow, Killable
    <3>3. CASE state \notin {"RUNNING", "PAUSED"}
      <4>1. taps' = taps /\ (~skewed' => ~skewed /\ state # "BUILDING")
        BY <1>7, <3>3 DEF NetworkDisconnect
      <4>2. QED
        BY <2>1, <3>1, <3>3, <4>1 DEF LifeInv, TapsFollow, Killable
    <3>4. QED
      BY <3>2, <3>3
  <2>4. QED
    BY <2>1, <2>2, <2>3 DEF LifeInv
<1>8. CASE Launch
  <2>1. gen \in Gens /\ gen' = gen /\ pc' = "idle" /\ nic = Default /\ taps = {}
    BY <1>8 DEF Launch, TypeInv, TypeOK, LifeInv
  <2>2. CASE tagged' = TRUE
    BY <2>1, <2>2 DEF LifeInv, TapsFollow
  <2>3. ASSUME NEW p \in {"alive", "error"}, LaunchSucceeds(gen, TRUE, p),
               UNCHANGED <<state, tagged>>
        PROVE  LifeInv'
    <3>1. /\ proc' = [proc EXCEPT ![gen] = p] /\ waiter' = [waiter EXCEPT ![gen] = "waiting"]
          /\ killer' = [killer EXCEPT ![gen] = "spawned"] /\ cgroup' = "frozen"
      BY <2>3 DEF LaunchSucceeds, StartProcess, SpawnGoroutines
    <3>2. state' = "BUILDING" /\ \A g \in Gens : Fresh(g)
      BY <1>8, <2>3 DEF Launch, LifeInv
    <3>3. Clean'
      BY <2>1, <3>1, <3>2 DEF TypeInv, TypeOK, Clean, Fresh, Running, Exited, Listening, Killable
    <3>4. TapsFollow'
      BY <2>1, <2>3, <3>2 DEF LaunchSucceeds, AttachNetwork, TapsFollow, Killable
    <3>5. QED
      BY <2>1, <3>3, <3>4 DEF LifeInv
  <2>4. QED
    BY <1>8, <2>2, <2>3 DEF Launch, LaunchFails, LaunchFailsNetwork, SetErrorf
<1>9. CASE Start
  BY <1>9 DEF TypeInv, TypeOK, LifeInv, Clean, TapsFollow, Fresh, Running,
      Exited, Listening, Killable, Start, ThawAndRun, SetState, SetErrorf,
      Connect, Up, Unlocked, disk, network, goroutines, command
<1>10. CASE Relaunch
  <2>1. gen + 1 \in Gens /\ gen' = gen + 1 /\ pc' = "idle" /\ gen \in Gens /\ present' = present
    BY <1>10, LaunchesAssumption DEF Relaunch, TypeInv, TypeOK, Gens
  <2>2. CASE tagged' = TRUE
    BY <2>1, <2>2 DEF LifeInv, TapsFollow
  <2>3. ASSUME NEW p \in {"alive", "error"}, RelaunchThawed(p), SetState("RUNNING"), ~tagged
        PROVE  LifeInv'
    <3>1. /\ proc' = [proc EXCEPT ![gen + 1] = p]
          /\ waiter' = [waiter EXCEPT ![gen + 1] = "waiting"]
          /\ killer' = [killer EXCEPT ![gen + 1] = "spawned"] /\ cgroup' = "thawed"
      BY <2>3 DEF RelaunchThawed, StartProcess, SpawnGoroutines
    <3>2. state' = "RUNNING" /\ state = "QUIT"
      BY <1>10, <2>3 DEF Relaunch, SetState, LifeInv, Clean
    <3>3. \A g \in Gens : killer[g] \notin Listening /\ ~Running(g)
      BY <2>3, <3>2 DEF LifeInv, Clean, Killable, Listening
    <3>4. Clean'
      BY <2>1, <2>3, <3>1, <3>2, <3>3 DEF TypeInv, TypeOK, LifeInv, Clean, Running, Exited,
          Listening, Killable
    <3>5. TapsFollow'
      BY <1>10, <2>1, <2>3, <3>2 DEF Relaunch, RelaunchThawed, AttachNetwork, LifeInv, TapsFollow,
          Killable
    <3>6. QED
      BY <2>1, <3>4, <3>5 DEF LifeInv
  <2>4. tagged => tagged' = TRUE
    BY <1>10 DEF Relaunch, LaunchFails, LaunchFailsNetwork, SetErrorf, SetState, TypeInv, TypeOK
  <2>5. QED
    BY <1>10, <2>2, <2>3, <2>4 DEF Relaunch, LaunchFails, LaunchFailsNetwork, SetErrorf
<1>11. CASE KillResume
  BY <1>11 DEF TypeInv, TypeOK, LifeInv, Clean, TapsFollow, Fresh, Running,
      Exited, Listening, Killable, KillResume, disk, network, goroutines,
      command
<1>12. ASSUME NEW g \in Gens, Wait(g)
      PROVE  LifeInv'
  BY <1>12 DEF TypeInv, TypeOK, LifeInv, Clean, TapsFollow, Fresh, Running,
      Exited, Listening, Killable, Wait, Exited, disk, network, goroutines,
      command
<1>13. ASSUME NEW g \in Gens, EnterSelect(g)
      PROVE  LifeInv'
  BY <1>13 DEF TypeInv, TypeOK, LifeInv, Clean, TapsFollow, Fresh, Running,
      Exited, Listening, Killable, EnterSelect, disk, network, goroutines,
      command
<1>14. ASSUME NEW g \in Gens, SelectExited(g)
      PROVE  LifeInv'
  BY <1>14 DEF TypeInv, TypeOK, LifeInv, Clean, TapsFollow, Fresh, Running,
      Exited, Listening, Killable, SelectExited, disk, network, goroutines,
      command
<1>15. ASSUME NEW g \in Gens, SelectKill(g)
      PROVE  LifeInv'
  BY <1>15 DEF TypeInv, TypeOK, LifeInv, Clean, TapsFollow, Fresh, Running,
      Exited, Listening, Killable, SelectKill, disk, network, goroutines,
      command
<1>16. ASSUME NEW g \in Gens, ExitedLocked(g)
      PROVE  LifeInv'
  BY <1>16 DEF TypeInv, TypeOK, LifeInv, Clean, TapsFollow, Fresh, Running,
      Exited, Listening, Killable, ExitedLocked, CleanUp, SetState,
      SetErrorf, disk, network, goroutines, command
<1>17. ASSUME NEW g \in Gens, KillLocked(g)
      PROVE  LifeInv'
  BY <1>17 DEF TypeInv, TypeOK, LifeInv, Clean, TapsFollow, Fresh, Running,
      Exited, Listening, Killable, KillLocked, SetErrorf, disk, network,
      goroutines, command
<1>18. ASSUME NEW g \in Gens, Killed(g)
      PROVE  LifeInv'
  BY <1>18 DEF TypeInv, TypeOK, LifeInv, Clean, TapsFollow, Fresh, Running,
      Exited, Listening, Killable, Killed, CleanUp, SetState, SetErrorf,
      disk, network, goroutines, command
<1>19. ASSUME NEW g \in Gens, Signal(g)
      PROVE  LifeInv'
  BY <1>19 DEF TypeInv, TypeOK, LifeInv, Clean, TapsFollow, Fresh, Running,
      Exited, Listening, Killable, Signal, disk, network, goroutines, command
<1>20. ASSUME NEW g \in Gens, ProcessExit(g)
      PROVE  LifeInv'
  BY <1>20 DEF TypeInv, TypeOK, LifeInv, Clean, TapsFollow, Fresh, Running,
      Exited, Listening, Killable, ProcessExit, disk, network, goroutines,
      command
<1>21. CASE UNCHANGED vars
  BY <1>21 DEF TypeInv, TypeOK, LifeInv, Clean, TapsFollow, Fresh, Running,
      Exited, Listening, Killable, vars, disk, network, goroutines, command
<1>22. QED
  BY <1>1, <1>2, <1>3, <1>4, <1>5, <1>6, <1>7, <1>8, <1>9, <1>10, <1>11,
      <1>12, <1>13, <1>14, <1>15, <1>16, <1>17, <1>18, <1>19, <1>20, <1>21
      DEF Next, CLI, Continue, Killer

(* A container without an error runs only while its State says so, and is  *)
(* frozen before Start and after Stop, whatever the interleaving.          *)
THEOREM FreezerFollowsState == Spec => []FrozenUnlessRunning
<1>1. TypeInv /\ LifeInv => FrozenUnlessRunning
  BY DEF TypeInv, TypeOK, LifeInv, Clean, FrozenUnlessRunning, Running, Listening
<1>2. QED
  BY <1>1, TypeInit, TypeStep, KillInit, KillStep, LifeInit, LifeStep, PTL DEF Spec

(* The tap of a container without an error is on the bridge of its         *)
(* configuration while it lives and on none when it has ended.             *)
THEOREM TapsAreFollowed == Spec => []TapsFollow
<1>1. LifeInv => TapsFollow
  BY DEF LifeInv
<1>2. QED
  BY <1>1, TypeInit, TypeStep, KillInit, KillStep, LifeInit, LifeStep, PTL DEF Spec

----------------------------------------------------------------------------
(* A step that leaves what the interface shows alone is a stutter. *)
LEMMA RefFrame ==
    ASSUME state' = state, tagged' = tagged, present' = present,
           \A g \in Gens : /\ (Running(g)' <=> Running(g))
                           /\ (proc'[g] = "none" <=> proc[g] = "none")
    PROVE  UNCHANGED Promise!vars
<1>1. ProcOfVM' = ProcOfVM
  BY DEF ProcOfVM
<1>2. QED
  BY <1>1 DEF Promise!vars

(* An error that is recorded ends the promise. *)
LEMMA RefFaulted ==
    ASSUME TypeInv', tagged', present' => present
    PROVE  Promise!Faulted
<1>1. ProcOfVM' \in {"none", "live", "gone"}
  BY DEF ProcOfVM
<1>2. state' \in Promise!States /\ present' \in BOOLEAN /\ tagged' = TRUE
  BY DEF TypeInv, TypeOK, States, Promise!States
<1>3. QED
  BY <1>1, <1>2 DEF Promise!Faulted

(* Errors stay in vm.Tags, and a VM that was removed stays removed. *)
LEMMA RefMonotone ==
    ASSUME TypeInv, [Next]_vars
    PROVE  (tagged => tagged') /\ (present' => present)
<1> DEFINE Keeps == (tagged => tagged') /\ (present' => present)
<1>1. CASE CLI
  <2>1. present' = present \/ present' = FALSE
    BY <1>1 DEF CLI, StartCheck, Stop, Kill, Flush, FlushAll, NetworkConnect, NetworkDisconnect
  <2>2. tagged' = tagged \/ tagged' = TRUE
    BY <1>1 DEF CLI, StartCheck, Stop, Kill, Flush, FlushAll, NetworkConnect,
        NetworkDisconnect, SetState, SetErrorf
  <2>3. QED
    BY <2>1, <2>2
<1>2. CASE Continue
  <2>1. present' = present
    BY <1>2 DEF Continue, Launch, Start, Relaunch, KillResume
  <2>2. tagged' = tagged \/ tagged' = TRUE
    BY <1>2 DEF Continue, Launch, LaunchFails, LaunchFailsNetwork, Start, ThawAndRun, Relaunch,
        KillResume, SetState, SetErrorf
  <2>3. QED
    BY <2>1, <2>2
<1>3. ASSUME NEW g \in Gens, Wait(g) \/ Killer(g) \/ ProcessExit(g)
      PROVE  Keeps
  <2>1. present' = present
    BY <1>3 DEF Wait, Killer, EnterSelect, SelectExited, SelectKill, ExitedLocked, KillLocked,
        Killed, Signal, ProcessExit
  <2>2. tagged' = tagged \/ tagged' = TRUE
    BY <1>3 DEF Wait, Killer, EnterSelect, SelectExited, SelectKill, ExitedLocked, KillLocked,
        Killed, Signal, ProcessExit, SetState, SetErrorf
  <2>3. QED
    BY <2>1, <2>2
<1>4. CASE UNCHANGED vars
  BY <1>4 DEF vars
<1>5. QED
  BY <1>1, <1>2, <1>3, <1>4 DEF Next

(* A step of the container that records no error is a step of the abstract *)
(* VM, or changes nothing that the interface shows.                        *)
LEMMA RefNext ==
    ASSUME TypeInv, TypeInv', LifeInv, [Next]_vars, ~tagged, ~tagged'
    PROVE  [Promise!Next]_(Promise!vars)
<1> USE DEF Promise!Next
<1>b. tagged = FALSE /\ tagged' = tagged
  BY DEF TypeInv, TypeOK
<1>c. Clean /\ gen \in Gens
  BY DEF LifeInv, TypeInv, TypeOK
<1>s. ASSUME state' = state, present' = present, proc' = proc
      PROVE  UNCHANGED Promise!vars
  BY <1>s, <1>b, RefFrame DEF Running
<1>1. ASSUME NEW wild \in BOOLEAN, StartCheck(wild)
      PROVE  UNCHANGED Promise!vars
  BY <1>1, <1>s DEF StartCheck, goroutines
<1>2. CASE Stop
  <2>1. ProcOfVM' = ProcOfVM
    BY <1>2 DEF Stop, goroutines, ProcOfVM, Running
  <2>2. Promise!Pause
    BY <1>b, <1>2, <2>1 DEF Stop, Idle, SetState, SetErrorf, Promise!Pause
  <2>3. QED
    BY <2>2
<1>3. CASE Kill \/ NetworkDisconnect
  BY <1>3, <1>s DEF Kill, NetworkDisconnect, goroutines
<1>4. ASSUME NEW to \in Bridges, NetworkConnect(to)
      PROVE  UNCHANGED Promise!vars
  BY <1>4, <1>s DEF NetworkConnect, goroutines
<1>5. CASE Flush \/ FlushAll
  <2>1. ProcOfVM' = ProcOfVM /\ state' = state /\ state = "QUIT"
    BY <1>5, <1>c DEF Flush, FlushAll, goroutines, ProcOfVM, Running, Clean
  <2>2. ProcOfVM = "gone"
    BY <1>5, <2>1, <1>c DEF Flush, FlushAll, Idle, ProcOfVM, Clean, Killable, Listening
  <2>3. present' = FALSE \/ present' = present
    BY <1>5 DEF Flush, FlushAll
  <2>4. Promise!Remove \/ UNCHANGED Promise!vars
    BY <1>b, <2>1, <2>2, <2>3 DEF Promise!Remove, Promise!vars
  <2>5. QED
    BY <2>4
<1>6. CASE Launch
  <2>1. PICK p \in {"alive", "error"} : proc' = [proc EXCEPT ![gen] = p]
    BY <1>6 DEF Launch, LaunchFails, LaunchFailsNetwork, SetErrorf, LaunchSucceeds, StartProcess
  <2>2. state' = state /\ present' = present /\ state = "BUILDING" /\ present
    BY <1>6 DEF Launch, LaunchFails, LaunchFailsNetwork, SetErrorf, LifeInv
  <2>3. ProcOfVM = "none"
    BY <1>6 DEF Launch, LifeInv, Fresh, ProcOfVM, Running
  <2>4. ProcOfVM' \in {"live", "gone"}
    BY <2>1, <1>c DEF ProcOfVM, Running, TypeInv, TypeOK
  <2>5. Promise!Boot
    BY <1>b, <2>2, <2>3, <2>4 DEF Promise!Boot
  <2>6. QED
    BY <2>5
<1>7. CASE Start
  <2>1. ProcOfVM' = ProcOfVM /\ present' = present /\ present /\ state' = "RUNNING"
    BY <1>7 DEF Start, ThawAndRun, SetState, SetErrorf, goroutines, ProcOfVM, Running, LifeInv
  <2>2. ProcOfVM # "none"
    BY <1>7, <1>c DEF Start, Clean, ProcOfVM
  <2>3. Promise!Run
    BY <1>b, <1>7, <2>1, <2>2 DEF Start, Promise!Run
  <2>4. QED
    BY <2>3
<1>8. CASE Relaunch
  <2>1. PICK p \in {"alive", "error"} : proc' = [proc EXCEPT ![gen + 1] = p]
    BY <1>8 DEF Relaunch, LaunchFails, LaunchFailsNetwork, SetErrorf, RelaunchThawed,
        StartProcess
  <2>2. state' = "RUNNING" /\ present' = present /\ present
    BY <1>8 DEF Relaunch, LaunchFails, LaunchFailsNetwork, SetErrorf, SetState, LifeInv
  <2>3. state = "QUIT" /\ gen + 1 \in Gens
    BY <1>8, <1>c, LaunchesAssumption DEF Relaunch, Clean, TypeInv, TypeOK, Gens
  <2>4. ProcOfVM = "gone"
    BY <1>8, <2>3, <1>c DEF Relaunch, ProcOfVM, Clean, Killable, Listening
  <2>5. ProcOfVM' \in {"live", "gone"}
    BY <2>1, <2>3 DEF ProcOfVM, Running, TypeInv, TypeOK
  <2>6. Promise!Reboot
    BY <1>b, <2>2, <2>3, <2>4, <2>5 DEF Promise!Reboot
  <2>7. QED
    BY <2>6
<1>9. CASE KillResume
  BY <1>9, <1>s DEF KillResume, goroutines
<1>10. ASSUME NEW g \in Gens, ExitedLocked(g) \/ Killed(g)
       PROVE  Promise!Quit
  <2>1. g = gen /\ state \in Killable /\ Exited(g)
    BY <1>10, <1>c DEF ExitedLocked, Killed, Clean, Listening
  <2>2. \A h \in Gens : ~Running(h)
    BY <2>1, <1>10, <1>c DEF ExitedLocked, Killed, Clean, Listening, Running, Exited
  <2>3. ProcOfVM = "gone"
    BY <2>1, <2>2, <1>c DEF ProcOfVM, Exited
  <2>4. ProcOfVM' = ProcOfVM /\ present' = present
    BY <1>10 DEF ExitedLocked, Killed, ProcOfVM, Running
  <2>5. state' = "QUIT"
    BY <1>10, <2>1 DEF ExitedLocked, Killed, SetState, SetErrorf, Killable
  <2>6. QED
    BY <1>b, <2>1, <2>3, <2>4, <2>5 DEF Promise!Quit, Promise!Killable, Killable
<1>11. ASSUME NEW g \in Gens,
              Wait(g) \/ EnterSelect(g) \/ SelectExited(g) \/ SelectKill(g) \/ Signal(g)
       PROVE  UNCHANGED Promise!vars
  BY <1>11, <1>s DEF Wait, EnterSelect, SelectExited, SelectKill, Signal
<1>12. ASSUME NEW g \in Gens, KillLocked(g)
       PROVE  UNCHANGED Promise!vars
  <2>1. \A h \in Gens : /\ (Running(h)' <=> Running(h))
                         /\ (proc'[h] = "none" <=> proc[h] = "none")
    BY <1>12 DEF KillLocked, Running, TypeInv, TypeOK
  <2>2. state' = state /\ present' = present
    BY <1>12 DEF KillLocked, SetErrorf
  <2>3. QED
    BY <1>b, <2>1, <2>2, RefFrame
<1>13. ASSUME NEW g \in Gens, ProcessExit(g)
       PROVE  Promise!Exit
  <2>1. Running(g) /\ g = gen /\ ProcOfVM = "live"
    BY <1>13, <1>c DEF ProcessExit, Running, Clean, ProcOfVM, Listening
  <2>2. proc'[g] \in {"clean", "error"} /\ \A h \in Gens \ {g} : proc'[h] = proc[h]
    BY <1>13 DEF ProcessExit, TypeInv, TypeOK
  <2>3. \A h \in Gens : ~Running(h)'
    BY <2>1, <2>2, <1>c DEF Running, Clean, Listening
  <2>4. ProcOfVM' = "gone"
    BY <2>2, <2>3 DEF ProcOfVM
  <2>5. QED
    BY <1>b, <1>13, <2>1, <2>4 DEF ProcessExit, Promise!Exit
<1>14. CASE UNCHANGED vars
  BY <1>14, <1>s DEF vars, goroutines
<1>15. QED
  BY <1>1, <1>2, <1>3, <1>4, <1>5, <1>6, <1>7, <1>8, <1>9, <1>10, <1>11, <1>12, <1>13,
      <1>14 DEF Next, CLI, Continue, Killer

(* A container implements the safety part of the interface VM: whatever    *)
(* commands, faults and goroutine steps do, its state and its processes    *)
(* look like one process that is launched, paused, ends, is noticed to     *)
(* have ended and is launched again, until an error is recorded.           *)
THEOREM ImplementsSafety == Spec => Promise!Safety
<1>1. Init => Promise!Init
  <2>1. Init => ProcOfVM = "none"
    BY DEF Init, ProcOfVM, Running
  <2>2. QED
    BY <2>1 DEF Init, Promise!Init
<1>2. TypeInv /\ TypeInv' /\ LifeInv /\ [Next]_vars => [Promise!Next]_(Promise!vars)
  <2>1. ASSUME TypeInv, TypeInv', LifeInv, [Next]_vars, tagged'
        PROVE  Promise!Next
    BY <2>1, RefMonotone, RefFaulted DEF Promise!Next
  <2>2. ASSUME TypeInv, TypeInv', LifeInv, [Next]_vars, ~tagged'
        PROVE  [Promise!Next]_(Promise!vars)
    BY <2>2, RefMonotone, RefNext
  <2>3. QED
    BY <2>1, <2>2
<1>3. QED
  BY <1>1, <1>2, TypeInit, TypeStep, KillInit, KillStep, LifeInit, LifeStep, PTL
      DEF Spec, Promise!Safety
=============================================================================
