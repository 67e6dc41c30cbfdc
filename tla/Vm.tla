----------------------------------- MODULE Vm -----------------------------------
(***************************************************************************)
(* form-vmm/vmm/src/vm.rs: a VM that has been booted or restored, composed *)
(* of its vCPU threads and the workers of one virtio device.  The VMM      *)
(* thread runs one operation at a time; the guest activates and resets the *)
(* device from a vCPU thread.                                              *)
(*                                                                         *)
(* The debugger (BreakPoint), hotplug and a VM that was created but could  *)
(* not be booted are left out.                                             *)
(***************************************************************************)
EXTENDS VcpuThreads, VirtioWorkers

\* Bounds what is asked of a VM once a pause or a resume has failed halfway.
CONSTANT RequestsAfterFailure

VARIABLES
    state,          \* VmState
    restored,       \* the VM comes from a snapshot
    resumed,        \* it has been resumed, or tried to
    failed          \* a pause or a resume has returned an error halfway

vm == <<state, restored, resumed, failed>>
vars == <<flags, threads, vmm, device, vm>>

VmStates == {"Created", "Running", "Paused", "Shutdown"}

valid_transition(from, to) ==
    \/ from = "Created" /\ to # "Created"
    \/ from = "Running" /\ to \in {"Paused", "Shutdown"}
    \/ from = "Shutdown" /\ to = "Running"
    \/ from = "Paused" /\ to \in {"Running", "Shutdown"}

\* Vm::new; a snapshot brings back the workers of an active device.
Init ==
    /\ VcpuInit
    /\ restored \in BOOLEAN
    /\ state = IF restored THEN "Paused" ELSE "Created"
    /\ dev_paused = restored
    /\ activated \in {FALSE, restored}
    /\ worker_at \in [Queues -> {"none", "start"}]
    /\ activated <=> \E w \in Queues : worker_at[w] = "start"
    /\ pause_evt = 0
    /\ kill_evt = FALSE
    /\ worker_unparked = {}
    /\ resumed = FALSE
    /\ failed = FALSE

Started == \A v \in Vcpus : vcpu_at[v] # "new"

\* A request is for a VM that is there; vm_shutdown takes it away.
Begin(operation, place) ==
    /\ Started
    /\ state # "Shutdown"
    /\ failed => operation \in RequestsAfterFailure
    /\ op = "none"
    /\ at = "idle"
    /\ op' = operation
    /\ at' = place
    /\ k' = 0

Return == op' = "none" /\ at' = "idle" /\ k' = 0

\* start_boot_vcpus(false); the threads leave their barrier together.
boot ==
    /\ op = "none"
    /\ state = "Created"
    /\ valid_transition(state, "Running")
    /\ vcpus_pause_signalled' = FALSE
    /\ vcpu_at' = [v \in Vcpus |-> "top"]
    /\ state' = "Running"
    /\ UNCHANGED <<vcpus_kick_signalled, vcpus_kill_signalled, vcpu_run_interrupted, paused,
                   unparked, nmis, vmm, device, restored, resumed, failed>>

\* start_restored_vcpus: the threads are started paused.
restore ==
    /\ op = "none"
    /\ restored
    /\ ~Started
    /\ vcpus_pause_signalled' = TRUE
    /\ vcpu_at' = [v \in Vcpus |-> "top"]
    /\ UNCHANGED <<vcpus_kick_signalled, vcpus_kill_signalled, vcpu_run_interrupted, paused,
                   unparked, nmis, vmm, device, vm>>

-----------------------------------------------------------------------------
(* pause                                                                    *)

pause ==
    /\ valid_transition(state, "Paused")
    /\ Begin("pause", "activate")
    /\ UNCHANGED <<flags, threads, device, vm>>

Pending == {v \in Vcpus : vcpu_at[v] = "activation"}

\* Every activator starts its workers and meets its vCPU at the barrier.
\* The driver has enabled one queue or more.
activate_virtio_devices ==
    /\ Pending # {}
    /\ \E queues \in (SUBSET Queues) \ {{}} : activate(queues)
    /\ vcpu_at' = [v \in Vcpus |-> IF v \in Pending THEN "exit" ELSE vcpu_at[v]]
    /\ UNCHANGED <<flags, vcpu_run_interrupted, paused, unparked, nmis, vm>>

pause_activates ==
    /\ VmmMoves("activate", "pause")
    /\ \/ activate_virtio_devices
       \/ Pending = {} /\ UNCHANGED <<flags, threads, device, vm>>

\* notify_guest_clock_paused fails: the error is returned as it is.
pause_fails ==
    /\ at = "lock"
    /\ ~Locked(k)
    /\ failed' = TRUE
    /\ Return
    /\ UNCHANGED <<flags, threads, device, state, restored, resumed>>

pause_devices ==
    /\ at = "devices"
    /\ \A v \in Vcpus : vcpu_at[v] # "device_reset"
    /\ device_pause
    /\ IF activated
       THEN at' = "sync" /\ UNCHANGED <<op, k, state>>
       ELSE Return /\ state' = "Paused"
    /\ UNCHANGED <<flags, threads, restored, resumed, failed>>

pause_acknowledged ==
    /\ at = "sync"
    /\ paused_sync
    /\ Return
    /\ state' = "Paused"
    /\ UNCHANGED <<flags, threads, restored, resumed, failed>>

-----------------------------------------------------------------------------
(* resume, nmi and shutdown                                                 *)

resume ==
    /\ valid_transition(state, "Running")
    /\ Begin("resume", "resume")
    /\ resumed' = TRUE
    /\ UNCHANGED <<flags, threads, device, state, restored, failed>>

\* set_clock fails: the vCPUs run, the state stays Paused.
set_clock_fails ==
    /\ at = "clock"
    /\ failed' = TRUE
    /\ Return
    /\ UNCHANGED <<flags, threads, device, state, restored, resumed>>

resume_devices ==
    /\ at = "clock"
    /\ \A v \in Vcpus : vcpu_at[v] # "device_reset"
    /\ device_resume
    /\ Return
    /\ state' = "Running"
    /\ UNCHANGED <<flags, threads, restored, resumed, failed>>

vm_nmi ==
    /\ Begin("nmi", "kick")
    /\ UNCHANGED <<flags, threads, device, vm>>

nmi_returns ==
    /\ at = "unkick"
    /\ vcpus_kick_signalled' = FALSE
    /\ Return
    /\ UNCHANGED <<vcpus_pause_signalled, vcpus_kill_signalled, threads, device, vm>>

\* The devices are resumed so that their threads can end.
shutdown ==
    /\ valid_transition(state, "Shutdown")
    /\ \A v \in Vcpus : vcpu_at[v] # "device_reset"
    /\ Begin("shutdown", "kill")
    /\ device_resume
    /\ UNCHANGED <<flags, threads, vm>>

drop_vm ==
    /\ at = "drop"
    /\ at' = "join_workers"
    /\ state' = "Shutdown"
    /\ drop_device
    /\ UNCHANGED <<flags, threads, op, k, restored, resumed, failed>>

wait_for_epoll_threads ==
    /\ at = "join_workers"
    /\ WorkersDone
    /\ Return
    /\ UNCHANGED <<flags, threads, device, vm>>

VmmStep ==
    \/ CpuManagerStep /\ UNCHANGED <<device, vm>>
    \/ pause_activates
    \/ pause_fails
    \/ pause_devices
    \/ pause_acknowledged
    \/ set_clock_fails
    \/ resume_devices
    \/ nmi_returns
    \/ drop_vm
    \/ wait_for_epoll_threads

-----------------------------------------------------------------------------
(* The guest and the device                                                 *)

\* DRIVER_OK: the activator is queued and the vCPU waits at its barrier.
DriverOk(v) ==
    /\ ~activated
    /\ Pending = {}
    /\ VcpuMoves(v, "guest", "activation")
    /\ UNCHANGED <<flags, vcpu_run_interrupted, paused, unparked, nmis, vmm, device, vm>>

\* The control loop sees activate_evt.
ActivateEvent ==
    /\ op = "none"
    /\ activate_virtio_devices
    /\ UNCHANGED vmm

\* The driver writes 0 to the device status.
DriverReset(v) ==
    /\ activated
    /\ \A u \in Vcpus : vcpu_at[u] # "device_reset"
    /\ at # "sync"
    /\ VcpuMoves(v, "guest", "device_reset")
    /\ reset_device
    /\ UNCHANGED <<flags, vcpu_run_interrupted, paused, unparked, nmis, vmm, vm>>

DriverResetDone(v) ==
    /\ VcpuMoves(v, "device_reset", "exit")
    /\ reset_done
    /\ UNCHANGED <<flags, vcpu_run_interrupted, paused, unparked, nmis, vmm, vm>>

VcpuThread(v) == VcpuStep(v) /\ UNCHANGED <<device, vm>>

VcpuWakes(v) == Wake(v) /\ UNCHANGED <<device, vm>>

Guest(v) ==
    \/ (VcpuExit(v) \/ VcpuEnds(v)) /\ UNCHANGED <<device, vm>>
    \/ DriverOk(v)
    \/ DriverReset(v)

Worker(w) == WorkerStep(w) /\ UNCHANGED <<flags, threads, vmm, vm>>

WorkerUnparks(w) == WorkerWakes(w) /\ UNCHANGED <<flags, threads, vmm, vm>>

Requests ==
    \/ boot
    \/ restore
    \/ pause
    \/ resume
    \/ vm_nmi
    \/ shutdown

Next ==
    \/ Requests
    \/ ActivateEvent
    \/ VmmStep
    \/ \E v \in Vcpus : VcpuThread(v) \/ VcpuWakes(v) \/ Guest(v) \/ DriverResetDone(v)
    \/ \E w \in Queues :
           \/ Worker(w)
           \/ WorkerUnparks(w)
           \/ QueueEvent(w) /\ UNCHANGED <<flags, threads, vmm, vm>>

Spec == Init /\ [][Next]_vars

\* Threads run and the VMM thread goes on with what it has begun.  The guest
\* owes nothing: a vCPU may stay in KVM_RUN for ever.
Fairness ==
    /\ WF_vars(VmmStep \/ ActivateEvent)
    /\ \A v \in Vcpus :
           WF_vars(VcpuThread(v) \/ (v \in unparked /\ VcpuWakes(v)) \/ DriverResetDone(v))
    /\ \A w \in Queues :
           WF_vars(Worker(w) \/ (w \in worker_unparked /\ WorkerUnparks(w)))

FairSpec == Spec /\ Fairness

-----------------------------------------------------------------------------
(* Properties                                                               *)

TypeOK ==
    /\ vcpus_pause_signalled \in BOOLEAN
    /\ vcpus_kick_signalled \in BOOLEAN
    /\ vcpus_kill_signalled \in BOOLEAN
    /\ vcpu_run_interrupted \in [Vcpus -> BOOLEAN]
    /\ paused \in [Vcpus -> BOOLEAN]
    /\ unparked \subseteq Vcpus
    /\ vcpu_at \in [Vcpus -> VcpuPlaces]
    /\ nmis \subseteq Vcpus
    /\ op \in {"none", "pause", "resume", "nmi", "shutdown"}
    /\ at \in VmmPlaces
    /\ k \in Vcpus
    /\ dev_paused \in BOOLEAN
    /\ pause_evt \in Nat
    /\ kill_evt \in BOOLEAN
    /\ worker_at \in [Queues -> WorkerPlaces]
    /\ worker_unparked \subseteq Queues
    /\ activated \in BOOLEAN
    /\ state \in VmStates
    /\ restored \in BOOLEAN
    /\ resumed \in BOOLEAN
    /\ failed \in BOOLEAN

\* In the parking loop.
Stopped(v) == vcpu_at[v] \in Waiting

\* On the way to the parking loop for the first time, or ended there.
Arriving(v) == vcpu_at[v] \in {"new", "top", "complete_io", "interrupt", "ack", "ended"}

Quiet == state = "Paused" /\ op = "none" /\ ~failed

\* A VM that is Paused, with no operation running, has every vCPU thread in
\* its parking loop; a VM that has been restored and not resumed may have one
\* that still has to arrive there.  Snapshots and migrations rely on it
\* (CpuManager::pause, start_restored_vcpus).  A VM that was restored and then
\* resumed is left out: a vCPU that was slow to park stores its paused flag
\* late, and the next pause takes it for its own.
ParkedWhilePaused ==
    Quiet /\ ~(restored /\ resumed) =>
        \A v \in Vcpus : Stopped(v) \/ (restored /\ Arriving(v))

\* While such a VM is Paused no worker is outside its parking loops, so that
\* none touches guest memory (run_with_timeout, VirtioCommon::pause).
WorkersIdleWhilePaused ==
    Quiet /\ ~(restored /\ resumed) =>
        \A w \in Queues : worker_at[w] \in Parking \cup {"none", "ended"}

\* When nmi() returns on a running VM that was never paused, every vCPU has
\* had an NMI, is about to get one, or has ended.  Only the first NMI is sure
\* of it: vcpu_run_interrupted stays set after that.
FirstNmiReachesAll ==
    [][nmi_returns /\ state = "Running" /\ ~resumed /\ ~failed =>
           \A v \in Vcpus : v \in nmis \/ vcpu_at[v] \in {"nmi", "ended"}]_vars

\* vcpu_run_interrupted stays set after an NMI.
Kicked == nmis # {} \/ \E v \in Vcpus : vcpu_at[v] = "nmi"

\* What a pause may have to wait for without end: a vCPU that ended, waits
\* for an activation, for the CpuManager or for workers; a queue without a
\* worker; a worker that has not entered its epoll loop, and parks there.
Obstructed ==
    \/ \E v \in Vcpus : vcpu_at[v] \in Handling \cup {"ended"}
    \/ activated /\ \E w \in Queues : worker_at[w] \in {"none", "ended", "start", "start_park"}

\* The first pause of a running VM returns, unless it is obstructed.
FirstPauseReturns ==
    op = "pause" /\ ~resumed /\ ~Kicked /\ ~failed ~> op = "none" \/ []Obstructed

\* A shutdown of a VM that had no NMI ends with all of its threads, unless
\* a vCPU is inside an access that waits for another thread or has ended
\* without setting vcpu_run_interrupted.
ShutdownReturns ==
    op = "shutdown" /\ ~Kicked
        ~> \/ op = "none"
           \/ \E v \in Vcpus : vcpu_at[v] \in Handling
           \/ \E v \in Vcpus : vcpu_at[v] = "ended" /\ ~vcpu_run_interrupted[v]
================================================================================
