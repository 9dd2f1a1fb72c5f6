--------------------------------- MODULE VM ---------------------------------
(***************************************************************************)
(* What a virtual machine promises to the code that holds it as a value of *)
(* the interface VM (vm.go), whichever its type: one process at a time,    *)
(* and a State that tells the truth about it, at the latest when the exit  *)
(* of the process has been noticed.                                        *)
(*                                                                         *)
(* The promise ends when setErrorf records an error: a command that fails  *)
(* puts the VM in ERROR and leaves its process alone, and ERROR can be     *)
(* started again but not killed.  From then on only Faulted is allowed.    *)
(*                                                                         *)
(* KvmVM and ContainerVM are shown to implement this specification.        *)
(***************************************************************************)

VARIABLES
    state,    \* vm.State
    faulted,  \* vm.Tags has an error
    proc,     \* the process: "none" before the first launch, "live" or "gone"
    present   \* the VM is in vms.m

vars == <<state, faulted, proc, present>>

States == {"BUILDING", "RUNNING", "PAUSED", "QUIT", "ERROR"}
Killable == {"BUILDING", "RUNNING", "PAUSED"}

(* NewBaseVM *)
Init == state = "BUILDING" /\ faulted = FALSE /\ proc = "none" /\ present = TRUE

(* Launch; the process may end before launch() returns. *)
Boot ==
    /\ ~faulted /\ present /\ state = "BUILDING" /\ proc = "none"
    /\ proc' \in {"live", "gone"}
    /\ UNCHANGED <<state, faulted, present>>

(* Start of a VM that has not ended, as far as minimega knows *)
Run ==
    /\ ~faulted /\ present /\ state \in {"BUILDING", "PAUSED"} /\ proc # "none"
    /\ state' = "RUNNING"
    /\ UNCHANGED <<faulted, proc, present>>

(* Stop *)
Pause ==
    /\ ~faulted /\ present /\ state = "RUNNING"
    /\ state' = "PAUSED"
    /\ UNCHANGED <<faulted, proc, present>>

(* The process ends: killed, by itself or by somebody else. *)
Exit ==
    /\ ~faulted /\ proc = "live"
    /\ proc' = "gone"
    /\ UNCHANGED <<state, faulted, present>>

(* The exit is noticed, which ends a Kill as well. *)
Quit ==
    /\ ~faulted /\ state \in Killable /\ proc = "gone"
    /\ state' = "QUIT"
    /\ UNCHANGED <<faulted, proc, present>>

(* Start of a VM that has ended: the old process is gone. *)
Reboot ==
    /\ ~faulted /\ present /\ state = "QUIT" /\ proc = "gone"
    /\ state' = "RUNNING" /\ proc' \in {"live", "gone"}
    /\ UNCHANGED <<faulted, present>>

(* Flush: only of a VM that has ended, so that no process stays behind. *)
Remove ==
    /\ ~faulted /\ state = "QUIT" /\ proc = "gone"
    /\ present' = FALSE
    /\ UNCHANGED <<state, faulted, proc>>

(* An error is recorded, or has been. *)
Faulted ==
    /\ faulted' = TRUE
    /\ state' \in States /\ proc' \in {"none", "live", "gone"}
    /\ present' \in BOOLEAN /\ (present' => present)

Next == Boot \/ Run \/ Pause \/ Exit \/ Quit \/ Reboot \/ Remove \/ Faulted

(* The goroutine that launch() leaves with the process notices its exit. *)
Fairness == WF_vars(Quit)

Safety == Init /\ [][Next]_vars
Spec == Safety /\ Fairness
============================================================================
