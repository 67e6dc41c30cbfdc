-------------------------------- MODULE VmProofs --------------------------------
(***************************************************************************)
(* A paused VM runs nothing, for every number of vCPUs and of queues.      *)
(***************************************************************************)
EXTENDS Vm, TLAPS

\* Which operation the VMM thread can be in at each place.
OpAt ==
    /\ (op = "none") <=> (at = "idle")
    /\ at \in {"activate", "pause", "lock", "await", "devices", "sync"} => op = "pause"
    /\ at \in {"resume", "unpause", "unpark", "clock"} => op = "resume"
    /\ at \in {"kick", "unkick"} => op = "nmi"
    /\ at \in {"kill", "release", "join", "drop", "join_workers"} => op = "shutdown"
    /\ at \in {"signal", "interrupted"} => op \in {"pause", "nmi", "shutdown"}
    /\ op = "resume" => resumed
    /\ at = "join_workers" => state = "Shutdown"
    /\ op \in {"pause", "resume", "nmi"} => state # "Shutdown"

\* The operations that leave the vCPUs and the devices as they are.
Steady == op \in {"none", "nmi"}

\* When vcpus_pause_signalled is set, in a VM that was booted.
PauseWanted ==
    \/ state = "Paused" /\ Steady
    \/ op = "pause" /\ at \notin {"activate", "pause"}
    \/ op = "resume" /\ at \in {"resume", "unpause"}
    \/ op = "shutdown" /\ at \in {"kill", "release"} /\ state = "Paused"

\* A vCPU thread that has set its paused and is waiting.  The flag is set
\* only while the VMM thread wants a pause, and is cleared only by a resume:
\* no thread of a booted VM acknowledges a pause late.
BootInv ==
    ~restored /\ ~failed =>
        /\ op = "pause" => state = "Running"
        /\ op = "resume" => state = "Paused"
        /\ state = "Created" => op = "none" /\ \A v \in Vcpus : vcpu_at[v] = "new"
        /\ vcpus_pause_signalled <=> PauseWanted
        /\ \A v \in Vcpus :
               /\ vcpus_pause_signalled /\ paused[v] => vcpu_at[v] \in Waiting
               /\ vcpu_at[v] \in {"complete_io", "interrupt", "ack"} => vcpus_pause_signalled
               /\ ~vcpus_pause_signalled /\ paused[v] =>
                      \/ op = "resume" /\ at = "unpark" /\ v >= k
                      \/ op = "shutdown"
                      \/ state = "Shutdown"
               /\ vcpus_pause_signalled /\ state = "Paused" => paused[v]
               /\ op = "pause" /\ at = "await" /\ v < k => paused[v]
               /\ op = "pause" /\ at \in {"devices", "sync"} => paused[v]

\* A VM that has been restored and not resumed.
RestoreInv ==
    restored /\ ~resumed =>
        /\ state \in {"Paused", "Shutdown"}
        /\ Steady \/ op = "shutdown"
        /\ Steady /\ state = "Paused" =>
               \A v \in Vcpus :
                   /\ Stopped(v) \/ Arriving(v)
                   /\ vcpus_pause_signalled \/ vcpu_at[v] = "new"

\* The workers of a paused device stay in their parking loops.
WorkersInv ==
    /\ ~activated => \A w \in Queues : worker_at[w] = "none"
    /\ at = "sync" => dev_paused
    /\ state = "Paused" /\ Steady /\ ~failed /\ ~(restored /\ resumed) =>
           dev_paused /\ \A w \in Queues : worker_at[w] \in Parking \cup {"none", "ended"}

IInv == TypeOK /\ OpAt /\ BootInv /\ RestoreInv /\ WorkersInv

-----------------------------------------------------------------------------
(* The vCPU threads and the guest.                                          *)

\* A thread moves: one that waits in a paused VM goes on waiting, and none
\* sets out to acknowledge a pause that is not wanted (loop of start_vcpu).
LEMMA VcpuMoveInv ==
    ASSUME IInv, NEW v \in Vcpus, NEW to \in VcpuPlaces,
           vcpu_at' = [vcpu_at EXCEPT ![v] = to],
           UNCHANGED <<flags, paused, vmm, device, vm>>,
           vcpu_run_interrupted' \in [Vcpus -> BOOLEAN],
           unparked' \subseteq Vcpus,
           nmis' \subseteq Vcpus,
           vcpu_at[v] # "new",
           to # "new",
           vcpu_at[v] \in Waiting /\ vcpus_pause_signalled => to \in Waiting,
           \/ to \notin {"complete_io", "interrupt", "ack"}
           \/ vcpus_pause_signalled
           \/ vcpu_at[v] \in {"complete_io", "interrupt", "ack"},
           Arriving(v) /\ vcpus_pause_signalled =>
               to \in Waiting \cup {"top", "complete_io", "interrupt", "ack", "ended"}
    PROVE  IInv'
<1>1. TypeOK'
  <2>1. vcpu_at' \in [Vcpus -> VcpuPlaces] BY DEF IInv, TypeOK
  <2> QED BY <2>1 DEF IInv, TypeOK, flags, vmm, device, vm
<1> USE DEF IInv, Waiting, flags, vmm, device, vm, Steady
<1>2. OpAt' BY DEF OpAt
<1>3. BootInv' BY DEF TypeOK, BootInv, PauseWanted
<1>4. RestoreInv' BY DEF TypeOK, RestoreInv, Stopped, Arriving
<1>5. WorkersInv' BY DEF WorkersInv
<1> QED BY <1>1, <1>2, <1>3, <1>4, <1>5

\* The loop of start_vcpu.  AckPause finds the pause still wanted.
LEMMA VcpuThreadInv ==
    ASSUME IInv, NEW v \in Vcpus, VcpuThread(v)
    PROVE  IInv'
<1> USE DEF VcpuThread, VcpuMoves, VcpuPlaces, Waiting, Handling, Arriving, TypeOK,
            flags, vmm, device, vm
<1>1. TypeOK BY Zenon DEF IInv
<1>2. CASE CheckPause(v)
  BY <1>1, <1>2, VcpuMoveInv, Zenon DEF CheckPause
<1>3. CASE CompleteIo(v)
  BY <1>1, <1>3, VcpuMoveInv, Zenon DEF CompleteIo
<1>4. CASE MarkInterrupted(v)
  BY <1>1, <1>4, VcpuMoveInv, ZenonT(40) DEF MarkInterrupted
<1>5. CASE CheckResumed(v)
  BY <1>1, <1>5, VcpuMoveInv, ZenonT(40) DEF CheckResumed
<1>6. CASE ClearInterrupted(v)
  BY <1>1, <1>6, VcpuMoveInv, ZenonT(40) DEF ClearInterrupted
<1>7. CASE CheckKick(v)
  BY <1>1, <1>7, VcpuMoveInv, Zenon DEF CheckKick
<1>8. CASE InjectNmi(v)
  BY <1>1, <1>8, VcpuMoveInv, Zenon DEF InjectNmi
<1>9. CASE EnterGuest(v)
  BY <1>1, <1>9, VcpuMoveInv, ZenonT(40) DEF EnterGuest
<1>10. CASE ReadCpuManager(v)
  BY <1>1, <1>10, VcpuMoveInv, ZenonT(40) DEF ReadCpuManager
<1>11. CASE CheckKill(v, "kill", "enter")
  BY <1>1, <1>11, VcpuMoveInv, ZenonT(40) DEF CheckKill
<1>12. CASE CheckKill(v, "exit", "top")
  BY <1>1, <1>12, VcpuMoveInv, Zenon DEF CheckKill
<1>13. CASE AckPause(v)
  <2> USE <1>13 DEF AckPause, IInv, Steady
  <2>1. TypeOK' OBVIOUS
  <2>2. OpAt' BY DEF OpAt
  <2>3. BootInv' BY DEF BootInv, PauseWanted
  <2>4. RestoreInv' BY DEF RestoreInv, Stopped
  <2>5. WorkersInv' BY DEF WorkersInv
  <2> QED BY <2>1, <2>2, <2>3, <2>4, <2>5
<1> QED
  BY <1>2, <1>3, <1>4, <1>5, <1>6, <1>7, <1>8,
     <1>9, <1>10, <1>11, <1>12, <1>13 DEF VcpuStep

\* What the guest does, and park() returning.
LEMMA GuestInv ==
    ASSUME IInv, NEW v \in Vcpus, VcpuWakes(v) \/ Guest(v) \/ DriverResetDone(v)
    PROVE  IInv'
<1> USE DEF VcpuMoves, VcpuPlaces, Waiting, Handling, Arriving, TypeOK, flags, vmm, device, vm
<1>1. TypeOK BY Zenon DEF IInv
<1>2. CASE VcpuWakes(v)
  BY <1>1, <1>2, VcpuMoveInv, Zenon DEF VcpuWakes, Wake
<1>3. CASE VcpuExit(v) /\ UNCHANGED <<device, vm>>
  BY <1>1, <1>3, VcpuMoveInv, Zenon DEF VcpuExit
<1>4. CASE VcpuEnds(v) /\ UNCHANGED <<device, vm>>
  BY <1>1, <1>4, VcpuMoveInv, ZenonT(40) DEF VcpuEnds
<1>5. CASE DriverOk(v)
  BY <1>1, <1>5, VcpuMoveInv, Zenon DEF DriverOk
<1>6. CASE DriverReset(v)
  <2> USE <1>6 DEF DriverReset, reset_device, IInv, Steady
  <2>1. TypeOK' BY Zenon DEF ParkedWorkers
  <2>2. OpAt' BY DEF OpAt
  <2>3. BootInv' BY DEF BootInv, PauseWanted
  <2>4. RestoreInv' BY DEF RestoreInv, Stopped
  <2>5. WorkersInv' BY DEF WorkersInv, BootInv, PauseWanted, RestoreInv, Stopped
  <2> QED BY <2>1, <2>2, <2>3, <2>4, <2>5
<1>7. CASE DriverResetDone(v)
  <2> USE <1>7 DEF DriverResetDone, reset_done, IInv, Steady
  <2>1. TypeOK' BY ZenonT(60) DEF WorkerPlaces
  <2>2. OpAt' BY DEF OpAt
  <2>3. BootInv' BY DEF BootInv, PauseWanted
  <2>4. RestoreInv' BY DEF RestoreInv, Stopped
  <2>5. WorkersInv' BY DEF WorkersInv
  <2> QED BY <2>1, <2>2, <2>3, <2>4, <2>5
<1> QED BY <1>2, <1>3, <1>4, <1>5, <1>6, <1>7 DEF Guest

-----------------------------------------------------------------------------
(* The workers and the activation of the device.                            *)

\* A worker moves: with the device paused it stays in its parking loop
\* (run_with_timeout).
LEMMA WorkerInv ==
    ASSUME IInv, NEW w \in Queues,
           \/ Worker(w)
           \/ WorkerUnparks(w)
           \/ QueueEvent(w) /\ UNCHANGED <<flags, threads, vmm, vm>>
    PROVE  IInv'
<1> USE DEF IInv
<1>1. UNCHANGED <<flags, threads, vmm, vm>>
  BY DEF Worker, WorkerUnparks
<1>2. /\ pause_evt' \in Nat
      /\ UNCHANGED <<dev_paused, kill_evt, activated>>
      /\ worker_unparked' \subseteq Queues
      /\ \E to \in WorkerPlaces :
             /\ worker_at' = [worker_at EXCEPT ![w] = to]
             /\ worker_at[w] # "none"
             /\ dev_paused /\ worker_at[w] \in Parking => to \in Parking
             /\ worker_at[w] # "ended"
  BY DEF Worker, WorkerStep, CheckStart, KillEvent, PauseEvent, handle_event, WorkerChecks,
         DrainPauseEvent, WorkerUnparks, WorkerWakes, QueueEvent, WorkerMoves, TypeOK,
         WorkerPlaces, Parking
<1> USE <1>1 DEF flags, threads, vmm, vm, Steady
<1>3. TypeOK' BY <1>2 DEF TypeOK
<1>4. OpAt' BY DEF OpAt
<1>5. BootInv' BY DEF BootInv, PauseWanted
<1>6. RestoreInv' BY DEF RestoreInv, Stopped, Arriving
<1>7. WorkersInv' BY <1>2 DEF TypeOK, WorkersInv
<1> QED BY <1>3, <1>4, <1>5, <1>6, <1>7

\* No vCPU of a paused VM waits for an activation.
LEMMA ActivateInv ==
    ASSUME IInv, activate_virtio_devices, k' \in Vcpus, at' \in VmmPlaces,
           \/ UNCHANGED <<op, at>> /\ op = "none"
           \/ at = "activate" /\ at' = "pause" /\ UNCHANGED op
    PROVE  IInv'
<1> USE DEF IInv, activate_virtio_devices, flags, vm, Steady
<1>1. /\ dev_paused' = dev_paused
      /\ activated' = TRUE
      /\ pause_evt' \in Nat
      /\ kill_evt' \in BOOLEAN
      /\ worker_unparked' \subseteq Queues
      /\ worker_at' \in [Queues -> WorkerPlaces]
  <2>1. PICK queues \in SUBSET Queues : activate(queues) OBVIOUS
  <2>2. "start" \in WorkerPlaces /\ "none" \in WorkerPlaces BY DEF WorkerPlaces, Parking
  <2>3. worker_at' \in [Queues -> WorkerPlaces] BY <2>1, <2>2 DEF activate
  <2> QED BY <2>1, <2>3, Zenon DEF activate
<1>2. ASSUME NEW v \in Vcpus
      PROVE  /\ vcpu_at'[v] \in VcpuPlaces
             /\ vcpu_at'[v] = vcpu_at[v] \/ (vcpu_at[v] = "activation" /\ vcpu_at'[v] = "exit")
  BY DEF Pending, TypeOK, VcpuPlaces
<1>3. \E v \in Vcpus : vcpu_at[v] = "activation" BY DEF Pending
<1>4. TypeOK' BY <1>1, <1>2 DEF TypeOK, Pending
<1>5. OpAt' BY DEF OpAt
<1>6. BootInv' BY <1>2, <1>3 DEF BootInv, PauseWanted, Waiting
<1>7. RestoreInv' BY <1>2, <1>3 DEF RestoreInv, Stopped, Arriving, Waiting
<1>8. WorkersInv'
  BY <1>1, <1>3, Zenon DEF TypeOK, WorkersInv, BootInv, PauseWanted, RestoreInv, Stopped, Arriving, Waiting
<1> QED BY <1>4, <1>5, <1>6, <1>7, <1>8

-----------------------------------------------------------------------------
(* The VMM thread.                                                          *)

\* pause waits for the paused of every vCPU; resume and shutdown are the
\* only ones to clear vcpus_pause_signalled.
LEMMA CpuManagerInv ==
    ASSUME IInv, CpuManagerStep, UNCHANGED <<device, vm>>
    PROVE  IInv'
<1>1. /\ 0 \in Vcpus
      /\ \A v \in Vcpus : v \in Int /\ v >= 0
  BY VcpusAssumption DEF Vcpus
<1>0. \A v \in Vcpus :
          /\ k + 1 \notin Vcpus => v <= k
          /\ v < k + 1 => v < k \/ v = k
          /\ v >= k => v = k \/ v >= k + 1
  BY VcpusAssumption DEF IInv, TypeOK, Vcpus
<1> USE DEF IInv, VmmMoves, VmmLoops, Waiting, flags, threads, device, vm, Steady
<1>2. CASE cpu_pause
  <2> USE <1>2 DEF cpu_pause
  <2>1. TypeOK' BY <1>1 DEF TypeOK, VmmPlaces
  <2>2. OpAt' BY <1>1 DEF OpAt
  <2>3. BootInv' BY <1>1 DEF TypeOK, OpAt, BootInv, PauseWanted
  <2>4. RestoreInv' BY <1>1 DEF TypeOK, OpAt, RestoreInv, Stopped, Arriving
  <2>5. WorkersInv' BY <1>1 DEF WorkersInv
  <2> QED BY <2>1, <2>2, <2>3, <2>4, <2>5
<1>3. CASE signal_thread
  <2> USE <1>3 DEF signal_thread
  <2>1. TypeOK' BY <1>1 DEF TypeOK, VmmPlaces, VcpuPlaces
  <2>2. OpAt' BY <1>1 DEF OpAt
  <2>3. BootInv' BY <1>1 DEF TypeOK, OpAt, BootInv, PauseWanted
  <2>4. RestoreInv' BY <1>1 DEF TypeOK, OpAt, RestoreInv, Stopped, Arriving
  <2>5. WorkersInv' BY <1>1 DEF WorkersInv
  <2> QED BY <2>1, <2>2, <2>3, <2>4, <2>5
<1>4. CASE check_interrupted
  <2> USE <1>4 DEF check_interrupted, AfterSignals
  <2>1. TypeOK' BY <1>1 DEF TypeOK, VmmPlaces
  <2>2. OpAt' BY <1>1 DEF OpAt
  <2>3. BootInv' BY <1>1 DEF TypeOK, OpAt, BootInv, PauseWanted
  <2>4. RestoreInv' BY <1>1 DEF TypeOK, OpAt, RestoreInv, Stopped, Arriving
  <2>5. WorkersInv' BY <1>1 DEF WorkersInv
  <2> QED BY <2>1, <2>2, <2>3, <2>4, <2>5
<1>5. CASE lock_vcpus
  <2> USE <1>5 DEF lock_vcpus
  <2>1. TypeOK' BY <1>1 DEF TypeOK, VmmPlaces
  <2>2. OpAt' BY <1>1, Zenon DEF OpAt
  <2>3. BootInv' BY <1>1 DEF TypeOK, OpAt, BootInv, PauseWanted
  <2>4. RestoreInv' BY <1>1 DEF TypeOK, OpAt, RestoreInv, Stopped, Arriving
  <2>5. WorkersInv' BY <1>1 DEF WorkersInv
  <2> QED BY <2>1, <2>2, <2>3, <2>4, <2>5
<1>6. CASE await_paused
  <2> USE <1>6 DEF await_paused
  <2>1. TypeOK' BY <1>1 DEF TypeOK, VmmPlaces
  <2>2. OpAt' BY <1>1, Zenon DEF OpAt
  <2>3. BootInv' BY <1>0, <1>1 DEF TypeOK, OpAt, BootInv, PauseWanted
  <2>4. RestoreInv' BY <1>1 DEF TypeOK, OpAt, RestoreInv, Stopped, Arriving
  <2>5. WorkersInv' BY <1>1 DEF WorkersInv
  <2> QED BY <2>1, <2>2, <2>3, <2>4, <2>5
<1>7. CASE resume_vcpus
  <2> USE <1>7 DEF resume_vcpus
  <2>1. TypeOK' BY <1>1 DEF TypeOK, VmmPlaces
  <2>2. OpAt' BY <1>1, Zenon DEF OpAt
  <2>3. BootInv' BY <1>1 DEF TypeOK, OpAt, BootInv, PauseWanted
  <2>4. RestoreInv' BY <1>1 DEF TypeOK, OpAt, RestoreInv, Stopped, Arriving
  <2>5. WorkersInv' BY <1>1 DEF WorkersInv
  <2> QED BY <2>1, <2>2, <2>3, <2>4, <2>5
<1>8. CASE cpu_resume
  <2> USE <1>8 DEF cpu_resume
  <2>a. k' \in Vcpus /\ at' \in VmmPlaces /\ UNCHANGED op BY <1>1 DEF VmmPlaces
  <2>1. TypeOK' BY <2>a, ZenonT(60) DEF TypeOK
  <2>2. OpAt' BY <1>1 DEF OpAt
  <2>3. BootInv' BY <1>1 DEF TypeOK, OpAt, BootInv, PauseWanted
  <2>4. RestoreInv' BY <1>1 DEF TypeOK, OpAt, RestoreInv, Stopped, Arriving
  <2>5. WorkersInv' BY <1>1 DEF WorkersInv
  <2> QED BY <2>1, <2>2, <2>3, <2>4, <2>5
<1>9. CASE unpark_vcpus
  <2> USE <1>9 DEF unpark_vcpus, Parked
  <2>1. TypeOK' BY <1>1 DEF TypeOK, VmmPlaces
  <2>2. OpAt' BY <1>1, Zenon DEF OpAt
  <2>3. BootInv' BY <1>0, <1>1 DEF TypeOK, OpAt, BootInv, PauseWanted
  <2>4. RestoreInv' BY <1>1 DEF TypeOK, OpAt, RestoreInv, Stopped, Arriving
  <2>5. WorkersInv' BY <1>1 DEF WorkersInv
  <2> QED BY <2>1, <2>2, <2>3, <2>4, <2>5
<1>10. CASE cpu_shutdown
  <2> USE <1>10 DEF cpu_shutdown
  <2>1. TypeOK' BY <1>1 DEF TypeOK, VmmPlaces
  <2>2. OpAt' BY <1>1, Zenon DEF OpAt
  <2>3. BootInv' BY <1>1 DEF TypeOK, OpAt, BootInv, PauseWanted
  <2>4. RestoreInv' BY <1>1 DEF TypeOK, OpAt, RestoreInv, Stopped, Arriving
  <2>5. WorkersInv' BY <1>1 DEF WorkersInv
  <2> QED BY <2>1, <2>2, <2>3, <2>4, <2>5
<1>11. CASE release_vcpus
  <2> USE <1>11 DEF release_vcpus, Parked
  <2>1. TypeOK' BY ZenonT(60), <1>1 DEF TypeOK, VmmPlaces
  <2>2. OpAt' BY <1>1 DEF OpAt
  <2>3. BootInv' BY <1>1 DEF TypeOK, OpAt, BootInv, PauseWanted
  <2>4. RestoreInv' BY <1>1 DEF TypeOK, OpAt, RestoreInv, Stopped, Arriving
  <2>5. WorkersInv' BY <1>1 DEF WorkersInv
  <2> QED BY <2>1, <2>2, <2>3, <2>4, <2>5
<1>12. CASE join_vcpus
  <2> USE <1>12 DEF join_vcpus
  <2>1. TypeOK' BY <1>1 DEF TypeOK, VmmPlaces
  <2>2. OpAt' BY <1>1 DEF OpAt
  <2>3. BootInv' BY <1>1, Zenon DEF TypeOK, OpAt, BootInv, PauseWanted
  <2>4. RestoreInv' BY <1>1 DEF TypeOK, OpAt, RestoreInv, Stopped, Arriving
  <2>5. WorkersInv' BY <1>1 DEF WorkersInv
  <2> QED BY <2>1, <2>2, <2>3, <2>4, <2>5
<1>13. CASE nmi
  <2> USE <1>13 DEF nmi
  <2>1. TypeOK' BY <1>1 DEF TypeOK, VmmPlaces
  <2>2. OpAt' BY <1>1, Zenon DEF OpAt
  <2>3. BootInv' BY <1>1, Zenon DEF TypeOK, OpAt, BootInv, PauseWanted
  <2>4. RestoreInv' BY <1>1 DEF TypeOK, OpAt, RestoreInv, Stopped, Arriving
  <2>5. WorkersInv' BY <1>1, ZenonT(40) DEF WorkersInv
  <2> QED BY <2>1, <2>2, <2>3, <2>4, <2>5
<1> QED
  BY <1>2, <1>3, <1>4, <1>5, <1>6, <1>7, <1>8,
     <1>9, <1>10, <1>11, <1>12, <1>13 DEF CpuManagerStep

\* The steps of pause, resume, nmi and shutdown in Vm.  A pause that returns
\* finds every vCPU in its parking loop and every worker at the barrier.
LEMMA VmmStepInv ==
    ASSUME IInv, VmmStep
    PROVE  IInv'
<1>1. 0 \in Vcpus BY VcpusAssumption DEF Vcpus
<1>2. CASE CpuManagerStep /\ UNCHANGED <<device, vm>>
  BY <1>2, CpuManagerInv
<1>3. CASE pause_activates /\ activate_virtio_devices
  BY <1>1, <1>3, ActivateInv DEF pause_activates, VmmMoves, VmmPlaces
<1> USE DEF IInv, VmmMoves, Return, Waiting, flags, threads, vmm, device, vm, Steady
<1>4. CASE pause_activates /\ Pending = {} /\ UNCHANGED <<flags, threads, device, vm>>
  <2> USE <1>4 DEF pause_activates
  <2>1. TypeOK' BY <1>1 DEF TypeOK, VmmPlaces, VmStates
  <2>2. OpAt' BY <1>1, Zenon DEF OpAt
  <2>3. BootInv' BY <1>1, Zenon DEF OpAt, BootInv, PauseWanted
  <2>4. RestoreInv' BY <1>1 DEF OpAt, RestoreInv, Stopped, Arriving
  <2>5. WorkersInv' BY <1>1 DEF OpAt, WorkersInv
  <2> QED BY <2>1, <2>2, <2>3, <2>4, <2>5, Zenon
<1>5. CASE pause_fails
  <2> USE <1>5 DEF pause_fails
  <2>1. TypeOK' BY <1>1 DEF TypeOK, VmmPlaces, VmStates
  <2>2. OpAt' BY <1>1, Zenon DEF OpAt
  <2>3. BootInv' BY <1>1 DEF OpAt, BootInv, PauseWanted
  <2>4. RestoreInv' BY <1>1, Zenon DEF OpAt, RestoreInv, Stopped, Arriving
  <2>5. WorkersInv' BY <1>1 DEF OpAt, WorkersInv
  <2> QED BY <2>1, <2>2, <2>3, <2>4, <2>5, Zenon
<1>6. CASE pause_devices
  <2> USE <1>6 DEF pause_devices, device_pause
  <2>1. TypeOK' BY <1>1 DEF TypeOK, VmmPlaces, VmStates
  <2>2. OpAt' BY <1>1, Zenon DEF OpAt
  <2>3. BootInv' BY <1>1 DEF OpAt, BootInv, PauseWanted
  <2>4. RestoreInv' BY <1>1, Zenon DEF OpAt, RestoreInv, Stopped, Arriving
  <2>5. WorkersInv' BY <1>1 DEF TypeOK, OpAt, WorkersInv
  <2> QED BY <2>1, <2>2, <2>3, <2>4, <2>5, Zenon
<1>7. CASE pause_acknowledged
  <2> USE <1>7 DEF pause_acknowledged, paused_sync
  <2>1. TypeOK' BY <1>1 DEF TypeOK, VmmPlaces, VmStates, WorkerPlaces, Parking
  <2>2. OpAt' BY <1>1, Zenon DEF OpAt
  <2>3. BootInv' BY <1>1 DEF OpAt, BootInv, PauseWanted
  <2>4. RestoreInv' BY <1>1 DEF OpAt, RestoreInv, Stopped, Arriving
  <2>5. WorkersInv'
    <3>1. \A w \in Queues : worker_at'[w] = "check" OBVIOUS
    <3>2. activated \/ Queues = {} BY DEF WorkersInv
    <3>3. dev_paused' = dev_paused /\ activated' = activated OBVIOUS
    <3>4. dev_paused BY DEF WorkersInv
    <3> QED BY <3>1, <3>2, <3>3, <3>4 DEF WorkersInv, Parking
  <2> QED BY <2>1, <2>2, <2>3, <2>4, <2>5, Zenon
<1>8. CASE set_clock_fails
  <2> USE <1>8 DEF set_clock_fails
  <2>1. TypeOK' BY <1>1 DEF TypeOK, VmmPlaces, VmStates
  <2>2. OpAt' BY <1>1, Zenon DEF OpAt
  <2>3. BootInv' BY <1>1, Zenon DEF OpAt, BootInv, PauseWanted
  <2>4. RestoreInv' BY <1>1, Zenon DEF OpAt, RestoreInv, Stopped, Arriving
  <2>5. WorkersInv' BY <1>1 DEF OpAt, WorkersInv
  <2> QED BY <2>1, <2>2, <2>3, <2>4, <2>5, Zenon
<1>9. CASE resume_devices
  <2> USE <1>9 DEF resume_devices, device_resume, ParkedWorkers
  <2>1. TypeOK' BY ZenonT(60), <1>1 DEF TypeOK, VmmPlaces, VmStates
  <2>2. OpAt' BY <1>1 DEF OpAt
  <2>3. BootInv' BY <1>1, Zenon DEF OpAt, BootInv, PauseWanted
  <2>4. RestoreInv' BY <1>1, Zenon DEF OpAt, RestoreInv, Stopped, Arriving
  <2>5. WorkersInv' BY <1>1 DEF OpAt, WorkersInv
  <2> QED BY <2>1, <2>2, <2>3, <2>4, <2>5
<1>10. CASE nmi_returns
  <2> USE <1>10 DEF nmi_returns
  <2>1. TypeOK' BY ZenonT(60), <1>1 DEF TypeOK, VmmPlaces, VmStates
  <2>2. OpAt' BY <1>1 DEF OpAt
  <2>3. BootInv' BY <1>1 DEF OpAt, BootInv, PauseWanted
  <2>4. RestoreInv' BY <1>1 DEF OpAt, RestoreInv, Stopped, Arriving
  <2>5. WorkersInv' BY <1>1 DEF OpAt, WorkersInv
  <2> QED BY <2>1, <2>2, <2>3, <2>4, <2>5
<1>11. CASE drop_vm
  <2> USE <1>11 DEF drop_vm, drop_device, ParkedWorkers
  <2>1. TypeOK' BY ZenonT(60), <1>1 DEF TypeOK, VmmPlaces, VmStates
  <2>2. OpAt' BY <1>1 DEF OpAt
  <2>3. BootInv' BY <1>1, Zenon DEF OpAt, BootInv, PauseWanted
  <2>4. RestoreInv' BY <1>1, Zenon DEF OpAt, RestoreInv, Stopped, Arriving
  <2>5. WorkersInv' BY <1>1 DEF OpAt, WorkersInv
  <2> QED BY <2>1, <2>2, <2>3, <2>4, <2>5
<1>12. CASE wait_for_epoll_threads
  <2> USE <1>12 DEF wait_for_epoll_threads
  <2>1. TypeOK' BY <1>1 DEF TypeOK, VmmPlaces, VmStates
  <2>2. OpAt' BY <1>1, Zenon DEF OpAt
  <2>3. BootInv' BY <1>1, Zenon DEF OpAt, BootInv, PauseWanted
  <2>4. RestoreInv' BY <1>1 DEF OpAt, RestoreInv, Stopped, Arriving
  <2>5. WorkersInv' BY <1>1 DEF OpAt, WorkersInv
  <2> QED BY <2>1, <2>2, <2>3, <2>4, <2>5, Zenon
<1> QED
  BY <1>2, <1>3, <1>4, <1>5, <1>6, <1>7, <1>8, <1>9, <1>10, <1>11, <1>12 DEF VmmStep, pause_activates

\* The requests.  Only a running VM can be paused, so that no vCPU has its
\* paused set when a pause begins (Vm::boot, restore, pause, resume, shutdown).
LEMMA RequestsInv ==
    ASSUME IInv, Requests
    PROVE  IInv'
<1>1. 0 \in Vcpus BY VcpusAssumption DEF Vcpus
<1> USE DEF IInv, Begin, Started, valid_transition, Waiting, flags, threads, vmm, device, vm, Steady
<1>2. CASE boot
  <2> USE <1>2 DEF boot
  <2>1. TypeOK'
    <3>1. "top" \in VcpuPlaces BY DEF VcpuPlaces
    <3>2. vcpu_at' \in [Vcpus -> VcpuPlaces] BY <3>1
    <3>3. vcpus_pause_signalled' \in BOOLEAN BY Zenon
    <3> QED BY <3>2, <3>3, Zenon DEF TypeOK, VmStates
  <2>2. OpAt' BY <1>1, Zenon DEF OpAt
  <2>3. BootInv' BY <1>1, Zenon DEF OpAt, BootInv, PauseWanted
  <2>4. RestoreInv' BY <1>1, Zenon DEF OpAt, RestoreInv, Stopped, Arriving
  <2>5. WorkersInv' BY <1>1 DEF OpAt, WorkersInv
  <2> QED BY <2>1, <2>2, <2>3, <2>4, <2>5
<1>3. CASE restore
  <2> USE <1>3 DEF restore
  <2>1. TypeOK' BY <1>1 DEF TypeOK, VmmPlaces, VmStates, VcpuPlaces
  <2>2. OpAt' BY <1>1, Zenon DEF OpAt
  <2>3. BootInv' BY <1>1, Zenon DEF OpAt, BootInv, PauseWanted
  <2>4. RestoreInv' BY <1>1, Zenon DEF OpAt, RestoreInv, Stopped, Arriving
  <2>5. WorkersInv' BY <1>1, Zenon DEF OpAt, WorkersInv
  <2> QED BY <2>1, <2>2, <2>3, <2>4, <2>5, Zenon
<1>4. CASE pause
  <2> USE <1>4 DEF pause
  <2>1. TypeOK' BY <1>1 DEF TypeOK, VmmPlaces, VmStates
  <2>2. OpAt' BY <1>1, Zenon DEF OpAt
  <2>3. BootInv' BY <1>1, Zenon DEF OpAt, BootInv, PauseWanted
  <2>4. RestoreInv' BY <1>1, Zenon DEF OpAt, RestoreInv, Stopped, Arriving
  <2>5. WorkersInv' BY <1>1 DEF OpAt, WorkersInv
  <2> QED BY <2>1, <2>2, <2>3, <2>4, <2>5, Zenon
<1>5. CASE resume
  <2> USE <1>5 DEF resume
  <2>1. TypeOK' BY <1>1, ZenonT(40) DEF TypeOK, VmmPlaces, VmStates
  <2>2. OpAt' BY <1>1, Zenon DEF OpAt
  <2>3. BootInv' BY <1>1, Zenon DEF OpAt, BootInv, PauseWanted
  <2>4. RestoreInv' BY <1>1, Zenon DEF OpAt, RestoreInv, Stopped, Arriving
  <2>5. WorkersInv' BY <1>1, Zenon DEF OpAt, WorkersInv
  <2> QED BY <2>1, <2>2, <2>3, <2>4, <2>5, Zenon
<1>6. CASE vm_nmi
  <2> USE <1>6 DEF vm_nmi
  <2>1. TypeOK' BY <1>1 DEF TypeOK, VmmPlaces, VmStates
  <2>2. OpAt' BY <1>1, Zenon DEF OpAt
  <2>3. BootInv' BY <1>1, Zenon DEF OpAt, BootInv, PauseWanted
  <2>4. RestoreInv' BY <1>1, Zenon DEF OpAt, RestoreInv, Stopped, Arriving
  <2>5. WorkersInv' BY <1>1 DEF OpAt, WorkersInv
  <2> QED BY <2>1, <2>2, <2>3, <2>4, <2>5, Zenon
<1>7. CASE shutdown
  <2> USE <1>7 DEF shutdown, device_resume, ParkedWorkers
  <2>1. TypeOK' BY ZenonT(60), <1>1 DEF TypeOK, VmmPlaces, VmStates
  <2>2. OpAt' BY <1>1 DEF OpAt
  <2>3. BootInv' BY <1>1 DEF OpAt, BootInv, PauseWanted
  <2>4. RestoreInv' BY <1>1, Zenon DEF OpAt, RestoreInv, Stopped, Arriving
  <2>5. WorkersInv' BY <1>1 DEF OpAt, WorkersInv
  <2> QED BY <2>1, <2>2, <2>3, <2>4, <2>5
<1> QED
  BY <1>2, <1>3, <1>4, <1>5, <1>6, <1>7 DEF Requests

-----------------------------------------------------------------------------
(* The theorems.                                                            *)

\* The invariant holds at the start.
LEMMA InitInv == Init => IInv
<1> SUFFICES ASSUME Init PROVE IInv OBVIOUS
<1> USE DEF Init, VcpuInit
<1>1. 0 \in Vcpus BY VcpusAssumption DEF Vcpus
<1>2. TypeOK
  BY <1>1, Zenon DEF TypeOK, VcpuPlaces, VmmPlaces, WorkerPlaces, Parking, VmStates
<1>3. OpAt BY Zenon DEF OpAt
<1>4. BootInv BY DEF BootInv, PauseWanted, Steady
<1>5. RestoreInv BY DEF RestoreInv, Steady, Arriving
<1>6. WorkersInv BY DEF WorkersInv, Steady, Parking
<1> QED BY <1>2, <1>3, <1>4, <1>5, <1>6 DEF IInv

\* Every step preserves it.
LEMMA NextInv == IInv /\ [Next]_vars => IInv'
<1> SUFFICES ASSUME IInv, [Next]_vars PROVE IInv' OBVIOUS
<1>1. CASE Requests BY <1>1, RequestsInv, Zenon
<1>2. CASE ActivateEvent
  BY <1>2, ActivateInv DEF ActivateEvent, vmm, IInv, TypeOK
<1>3. CASE VmmStep BY <1>3, VmmStepInv
<1>4. CASE \E v \in Vcpus : VcpuThread(v) \/ VcpuWakes(v) \/ Guest(v) \/ DriverResetDone(v)
  BY <1>4, VcpuThreadInv, GuestInv
<1>5. CASE \E w \in Queues :
               \/ Worker(w)
               \/ WorkerUnparks(w)
               \/ QueueEvent(w) /\ UNCHANGED <<flags, threads, vmm, vm>>
  BY <1>5, WorkerInv, Zenon
<1>6. CASE UNCHANGED vars
  <2> USE <1>6 DEF vars, flags, threads, vmm, device, vm, IInv, Steady
  <2>1. TypeOK' BY SMTT(30) DEF TypeOK
  <2>2. OpAt' BY Zenon DEF OpAt
  <2>3. BootInv' BY Zenon DEF BootInv, PauseWanted
  <2>4. RestoreInv' BY Zenon DEF RestoreInv, Stopped, Arriving
  <2>5. WorkersInv' BY DEF WorkersInv
  <2> QED BY <2>1, <2>2, <2>3, <2>4, <2>5, Zenon
<1> QED BY <1>1, <1>2, <1>3, <1>4, <1>5, <1>6 DEF Next

\* The state of a VM, its threads and its device stays well-formed.
THEOREM TypeCorrect == Spec => []TypeOK
<1>1. IInv => TypeOK BY DEF IInv
<1> QED BY InitInv, NextInv, <1>1, PTL DEF Spec

\* CpuManager::pause and start_restored_vcpus: no vCPU of a paused VM is
\* outside its parking loop, whatever their number.
THEOREM PausedVmIsParked == Spec => []ParkedWhilePaused
<1>1. IInv => ParkedWhilePaused
  BY DEF IInv, BootInv, RestoreInv, PauseWanted, Steady, ParkedWhilePaused, Quiet, Stopped
<1> QED BY InitInv, NextInv, <1>1, PTL DEF Spec

\* VirtioCommon::pause: no worker of a paused VM is outside its parking
\* loops, whatever the number of queues.
THEOREM PausedVmHasIdleWorkers == Spec => []WorkersIdleWhilePaused
<1>1. IInv => WorkersIdleWhilePaused
  BY Zenon DEF IInv, WorkersInv, Steady, WorkersIdleWhilePaused, Quiet
<1> QED BY InitInv, NextInv, <1>1, PTL DEF Spec

-----------------------------------------------------------------------------
(* The first NMI.                                                           *)

Reached(v) == v \in nmis \/ vcpu_at[v] \in {"nmi", "ended"}

\* In a VM that was never paused only a kick sets vcpu_run_interrupted, and
\* signal_thread goes on to the next vCPU when it is set.
NmiInv ==
    state \in {"Created", "Running"} /\ ~restored /\ ~resumed /\ ~failed /\ Steady =>
        \A v \in Vcpus :
            /\ vcpu_run_interrupted[v] => Reached(v)
            /\ at \in {"signal", "interrupted"} /\ v < k => Reached(v)
            /\ at = "unkick" => Reached(v)

\* The vCPU threads: Reached is for good.
LEMMA NmiVcpu ==
    ASSUME IInv, NmiInv, NEW u \in Vcpus,
           VcpuThread(u) \/ VcpuWakes(u) \/ Guest(u) \/ DriverResetDone(u)
    PROVE  NmiInv'
<1>1. ASSUME NEW to, vcpu_at' = [vcpu_at EXCEPT ![u] = to], nmis \subseteq nmis',
             UNCHANGED <<vmm, vm>>,
             \A v \in Vcpus \ {u} : vcpu_run_interrupted'[v] = vcpu_run_interrupted[v],
             vcpu_at[u] = "nmi" => to = "ended" \/ u \in nmis',
             vcpu_at[u] # "ended",
             \/ vcpu_run_interrupted'[u] => vcpu_run_interrupted[u]
             \/ to \in {"nmi", "ended"}
             \/ vcpu_at[u] = "interrupt"
      PROVE  NmiInv'
  <2>1. ASSUME NEW v \in Vcpus, Reached(v) PROVE Reached(v)'
    BY <1>1, <2>1, Zenon DEF Reached, IInv, TypeOK
  <2>2. ASSUME NEW v \in Vcpus, vcpu_at[u] # "interrupt", vcpu_run_interrupted'[v],
               ~vcpu_run_interrupted[v]
        PROVE  Reached(v)'
    BY <1>1, <2>2 DEF Reached, IInv, TypeOK
  <2>3. vcpu_at[u] = "interrupt" /\ ~restored /\ ~failed => vcpus_pause_signalled
    BY SMTT(30) DEF IInv, BootInv
  <2> QED
    BY <1>1, <2>1, <2>2, <2>3, Zenon DEF NmiInv, Steady, vmm, vm, IInv, BootInv, PauseWanted, TypeOK
<1> USE DEF VcpuThread, VcpuWakes, Guest, VcpuMoves, device, vm, IInv, TypeOK
<1>2. CASE CheckPause(u) /\ UNCHANGED <<device, vm>>
  BY <1>1, <1>2, Zenon DEF CheckPause
<1>3. CASE CompleteIo(u) /\ UNCHANGED <<device, vm>>
  BY <1>1, <1>3 DEF CompleteIo
<1>4. CASE MarkInterrupted(u) /\ UNCHANGED <<device, vm>>
  BY <1>1, <1>4, Zenon DEF MarkInterrupted
<1>5. CASE AckPause(u) /\ UNCHANGED <<device, vm>>
  BY <1>1, <1>5, Zenon DEF AckPause
<1>6. CASE CheckResumed(u) /\ UNCHANGED <<device, vm>>
  BY <1>1, <1>6, Zenon DEF CheckResumed
<1>7. CASE ClearInterrupted(u) /\ UNCHANGED <<device, vm>>
  BY <1>1, <1>7, Zenon DEF ClearInterrupted
<1>8. CASE CheckKick(u) /\ UNCHANGED <<device, vm>>
  BY <1>1, <1>8, Zenon DEF CheckKick
<1>9. CASE InjectNmi(u) /\ UNCHANGED <<device, vm>>
  BY <1>1, <1>9 DEF InjectNmi
<1>10. CASE EnterGuest(u) /\ UNCHANGED <<device, vm>>
  BY <1>1, <1>10, Zenon DEF EnterGuest
<1>11. CASE ReadCpuManager(u) /\ UNCHANGED <<device, vm>>
  BY <1>1, <1>11, Zenon DEF ReadCpuManager
<1>12. CASE CheckKill(u, "kill", "enter") /\ UNCHANGED <<device, vm>>
  BY <1>1, <1>12, Zenon DEF CheckKill
<1>13. CASE CheckKill(u, "exit", "top") /\ UNCHANGED <<device, vm>>
  BY <1>1, <1>13, Zenon DEF CheckKill
<1>14. CASE VcpuWakes(u)
  BY <1>1, <1>14, Zenon DEF Wake
<1>15. CASE VcpuExit(u) /\ UNCHANGED <<device, vm>>
  BY <1>1, <1>15 DEF VcpuExit
<1>16. CASE VcpuEnds(u) /\ UNCHANGED <<device, vm>>
  BY <1>1, <1>16, Zenon DEF VcpuEnds
<1>17. CASE DriverOk(u)
  BY <1>1, <1>17, Zenon DEF DriverOk
<1>18. CASE DriverReset(u)
  BY <1>1, <1>18, Zenon DEF DriverReset
<1>19. CASE DriverResetDone(u)
  BY <1>1, <1>19, Zenon DEF DriverResetDone
<1> QED
  BY <1>2, <1>3, <1>4, <1>5, <1>6, <1>7, <1>8, <1>9, <1>10,
     <1>11, <1>12, <1>13, <1>14, <1>15, <1>16, <1>17, <1>18, <1>19, ZenonT(40) DEF VcpuStep

\* The VMM thread: nmi() leaves its loop with every vCPU reached.
LEMMA NmiVmm ==
    ASSUME IInv, NmiInv, VmmStep
    PROVE  NmiInv'
<1>1. \A v \in Vcpus :
          /\ ~(v < 0)
          /\ k + 1 \notin Vcpus => v <= k
          /\ v < k + 1 => v < k \/ v = k
          /\ v <= k => v < k \/ v = k
  <2>1. k \in Nat
    BY VcpusAssumption DEF IInv, TypeOK, Vcpus
  <2> QED
    BY <2>1, VcpusAssumption DEF Vcpus
<1>2. CASE CpuManagerStep /\ UNCHANGED <<device, vm>>
  <2> USE <1>2 DEF VmmMoves, VmmLoops, flags, threads, device, vm, IInv, OpAt, Steady,
                   NmiInv, Reached
  <2>1. CASE cpu_pause \/ lock_vcpus \/ await_paused
    BY <2>1, Zenon DEF cpu_pause, lock_vcpus, await_paused
  <2>2. CASE resume_vcpus \/ cpu_resume \/ unpark_vcpus
    BY <2>2, Zenon DEF resume_vcpus, cpu_resume, unpark_vcpus
  <2>3. CASE cpu_shutdown \/ release_vcpus \/ join_vcpus
    BY <2>3, ZenonT(40) DEF cpu_shutdown, release_vcpus, join_vcpus
  <2>4. CASE signal_thread
    BY <2>4 DEF signal_thread, TypeOK
  <2>5. CASE check_interrupted
    BY <1>1, <2>5, Zenon DEF check_interrupted, AfterSignals, TypeOK
  <2>6. CASE nmi
    BY <1>1, <2>6, Zenon DEF nmi
  <2> QED BY <1>2, <2>1, <2>2, <2>3, <2>4, <2>5, <2>6, Zenon DEF CpuManagerStep
<1> USE DEF Return, flags, threads, vmm, device, vm, IInv, OpAt, Steady, NmiInv, Reached
<1>3. CASE pause_activates
  BY <1>3, Zenon DEF pause_activates, VmmMoves, activate_virtio_devices
<1>4. CASE pause_fails \/ pause_devices \/ pause_acknowledged
  BY <1>4, ZenonT(40) DEF pause_fails, pause_devices, pause_acknowledged
<1>5. CASE set_clock_fails \/ resume_devices
  BY <1>5, Zenon DEF set_clock_fails, resume_devices, BootInv, RestoreInv
<1>6. CASE nmi_returns
  BY <1>6, SMTT(30) DEF nmi_returns
<1>7. CASE drop_vm \/ wait_for_epoll_threads
  BY <1>7, Zenon DEF drop_vm, wait_for_epoll_threads
<1> QED BY <1>2, <1>3, <1>4, <1>5, <1>6, <1>7, Zenon DEF VmmStep

\* Requests to the VM.
LEMMA NmiRequests ==
    ASSUME IInv, NmiInv, Requests
    PROVE  NmiInv'
<1> USE DEF Begin, flags, threads, vmm, device, vm, IInv, OpAt, Steady, NmiInv, Reached
<1>1. CASE boot
  BY <1>1, SMTT(30) DEF boot, BootInv
<1>2. CASE restore
  BY <1>2, ZenonT(40) DEF restore
<1>3. CASE pause \/ resume \/ shutdown
  BY <1>3, Zenon DEF pause, resume, shutdown
<1>4. CASE vm_nmi
  BY <1>4, Zenon DEF vm_nmi
<1> QED BY <1>1, <1>2, <1>3, <1>4, ZenonT(40) DEF Requests

\* Every step preserves what is known of an NMI under way.
LEMMA NmiNext == IInv /\ NmiInv /\ [Next]_vars => NmiInv'
<1> SUFFICES ASSUME IInv, NmiInv, [Next]_vars PROVE NmiInv' OBVIOUS
<1>1. CASE Requests BY <1>1, NmiRequests
<1>2. CASE VmmStep BY <1>2, NmiVmm, Zenon
<1>3. CASE ActivateEvent
  BY <1>3 DEF ActivateEvent, activate_virtio_devices, Pending, flags, vmm, vm,
              IInv, TypeOK, NmiInv, Reached, Steady
<1>4. CASE \E v \in Vcpus : VcpuThread(v) \/ VcpuWakes(v) \/ Guest(v) \/ DriverResetDone(v)
  BY <1>4, NmiVcpu, Zenon
<1>5. CASE \E w \in Queues :
               \/ Worker(w)
               \/ WorkerUnparks(w)
               \/ QueueEvent(w) /\ UNCHANGED <<flags, threads, vmm, vm>>
  BY <1>5 DEF Worker, WorkerUnparks, threads, vmm, vm, NmiInv, Reached, Steady
<1>6. CASE UNCHANGED vars
  BY <1>6 DEF vars, threads, vmm, vm, NmiInv, Reached, Steady
<1> QED BY <1>1, <1>2, <1>3, <1>4, <1>5, <1>6 DEF Next

\* CpuManager::nmi: the first NMI of a VM that was never paused reaches every
\* vCPU, whatever their number.
THEOREM FirstNmiArrives == Spec => FirstNmiReachesAll
<1>1. Init => NmiInv
  BY Zenon DEF Init, VcpuInit, NmiInv, Steady
<1>2. IInv /\ NmiInv /\ [Next]_vars =>
          [nmi_returns /\ state = "Running" /\ ~resumed /\ ~failed =>
              \A v \in Vcpus : v \in nmis \/ vcpu_at[v] \in {"nmi", "ended"}]_vars
  BY DEF nmi_returns, IInv, OpAt, RestoreInv, NmiInv, Reached, Steady
<1> QED BY InitInv, NextInv, NmiNext, <1>1, <1>2, PTL DEF Spec, FirstNmiReachesAll
================================================================================
