------------------------------ MODULE VcpuThreads ------------------------------
(***************************************************************************)
(* form-vmm/vmm/src/cpu.rs: the threads that run the vCPUs of a VM, and    *)
(* how the VMM thread pauses, resumes, kicks and stops them.               *)
(*                                                                         *)
(* Every load or store of an atomic that another thread uses is a step.    *)
(* A vCPU thread holds the mutex of its vCPU from CheckKill until it goes  *)
(* round its loop; the VMM thread only ever holds it for a moment.         *)
(*                                                                         *)
(* pthread_kill makes a thread leave KVM_RUN.  Anywhere else the handler   *)
(* runs, does nothing, and the signal is lost.                             *)
(*                                                                         *)
(* unpark leaves a token for park().  To a thread that is not in its       *)
(* parking loop the token is one more spurious return of park(), which     *)
(* Wake always allows: it is not recorded.                                 *)
(***************************************************************************)
EXTENDS Integers

CONSTANT boot_vcpus

ASSUME VcpusAssumption == boot_vcpus \in Nat \ {0}

VARIABLES
    vcpus_pause_signalled,
    vcpus_kick_signalled,
    vcpus_kill_signalled,
    vcpu_run_interrupted,   \* of each vCPU
    paused,                 \* of each vCPU
    unparked,               \* the vCPU threads that hold the token of unpark
    vcpu_at,                \* where each vCPU thread is in its loop
    nmis,                   \* the vCPUs that have had an NMI
    op,                     \* the operation the VMM thread runs
    at,                     \* where it is in it
    k                       \* the vCPU its loop is at

flags == <<vcpus_pause_signalled, vcpus_kick_signalled, vcpus_kill_signalled>>
threads == <<vcpu_run_interrupted, paused, unparked, vcpu_at, nmis>>
vmm == <<op, at, k>>

Vcpus == 0 .. boot_vcpus - 1

Waiting == {"check", "park"}

\* Inside vcpu.run(), after KVM_RUN has returned.
Handling == {"activation", "cpu_manager", "device_reset"}

VcpuPlaces ==
    {"new", "top", "complete_io", "interrupt", "ack", "clear", "kick", "nmi", "kill",
     "enter", "guest", "exit", "ended"} \cup Waiting \cup Handling

VmmPlaces ==
    {"idle", "activate", "pause", "signal", "interrupted", "lock", "await", "devices", "sync",
     "resume", "unpause", "unpark", "clock", "kick", "unkick", "kill", "release", "join",
     "drop", "join_workers"}

\* The vCPU thread has the mutex of the vCPU.
Locked(v) == vcpu_at[v] \in {"enter", "guest", "exit"} \cup Handling

\* The VMM thread has the mutex of the CpuManager.
CpuManagerLocked ==
    at \in {"pause", "signal", "interrupted", "lock", "await", "resume", "unpause",
            "unpark", "kick", "unkick", "kill", "release", "join"}

\* The threads that unpark finds in their parking loop.
Parked == {v \in Vcpus : vcpu_at[v] \in Waiting}

VcpuMoves(v, from, to) ==
    /\ vcpu_at[v] = from
    /\ vcpu_at' = [vcpu_at EXCEPT ![v] = to]

VcpuInit ==
    /\ vcpus_pause_signalled = FALSE
    /\ vcpus_kick_signalled = FALSE
    /\ vcpus_kill_signalled = FALSE
    /\ vcpu_run_interrupted = [v \in Vcpus |-> FALSE]
    /\ paused = [v \in Vcpus |-> FALSE]
    /\ unparked = {}
    /\ vcpu_at = [v \in Vcpus |-> "new"]
    /\ nmis = {}
    /\ op = "none"
    /\ at = "idle"
    /\ k = 0

-----------------------------------------------------------------------------
(* The loop of a vCPU thread.                                               *)

CheckPause(v) ==
    /\ VcpuMoves(v, "top", IF vcpus_pause_signalled THEN "complete_io" ELSE "kick")
    /\ UNCHANGED <<flags, vcpu_run_interrupted, paused, unparked, nmis, vmm>>

\* The KVM_RUN with immediate_exit ends with Ignore, or the thread ends
\* without a word.
CompleteIo(v) ==
    /\ \/ VcpuMoves(v, "complete_io", "interrupt")
       \/ VcpuMoves(v, "complete_io", "ended")
    /\ UNCHANGED <<flags, vcpu_run_interrupted, paused, unparked, nmis, vmm>>

MarkInterrupted(v) ==
    /\ VcpuMoves(v, "interrupt", "ack")
    /\ vcpu_run_interrupted' = [vcpu_run_interrupted EXCEPT ![v] = TRUE]
    /\ UNCHANGED <<flags, paused, unparked, nmis, vmm>>

\* A slip: the thread parks without saying so.
AckPause_silent(v) ==
    /\ VcpuMoves(v, "ack", "check")
    /\ UNCHANGED <<flags, vcpu_run_interrupted, paused, unparked, nmis, vmm>>

AckPause(v) ==
    /\ VcpuMoves(v, "ack", "check")
    /\ paused' = [paused EXCEPT ![v] = TRUE]
    /\ UNCHANGED <<flags, vcpu_run_interrupted, unparked, nmis, vmm>>

CheckResumed(v) ==
    /\ VcpuMoves(v, "check", IF vcpus_pause_signalled THEN "park" ELSE "clear")
    /\ unparked' = IF vcpus_pause_signalled THEN unparked ELSE unparked \ {v}
    /\ UNCHANGED <<flags, vcpu_run_interrupted, paused, nmis, vmm>>

\* park() returns when there is a token, and may return without one.
Wake(v) ==
    /\ VcpuMoves(v, "park", "check")
    /\ unparked' = unparked \ {v}
    /\ UNCHANGED <<flags, vcpu_run_interrupted, paused, nmis, vmm>>

ClearInterrupted(v) ==
    /\ VcpuMoves(v, "clear", "kick")
    /\ vcpu_run_interrupted' = [vcpu_run_interrupted EXCEPT ![v] = FALSE]
    /\ UNCHANGED <<flags, paused, unparked, nmis, vmm>>

CheckKick(v) ==
    /\ VcpuMoves(v, "kick", IF vcpus_kick_signalled THEN "nmi" ELSE "kill")
    /\ vcpu_run_interrupted' =
           [vcpu_run_interrupted EXCEPT ![v] = @ \/ vcpus_kick_signalled]
    /\ UNCHANGED <<flags, paused, unparked, nmis, vmm>>

InjectNmi(v) ==
    /\ \/ VcpuMoves(v, "nmi", "kill") /\ nmis' = nmis \cup {v}
       \/ VcpuMoves(v, "nmi", "ended") /\ UNCHANGED nmis
    /\ UNCHANGED <<flags, vcpu_run_interrupted, paused, unparked, vmm>>

\* The two places where the thread looks whether it has to end.
CheckKill(v, from, to) ==
    /\ VcpuMoves(v, from, IF vcpus_kill_signalled THEN "ended" ELSE to)
    /\ vcpu_run_interrupted' =
           [vcpu_run_interrupted EXCEPT ![v] = @ \/ vcpus_kill_signalled]
    /\ UNCHANGED <<flags, paused, unparked, nmis, vmm>>

EnterGuest(v) ==
    /\ VcpuMoves(v, "enter", "guest")
    /\ UNCHANGED <<flags, vcpu_run_interrupted, paused, unparked, nmis, vmm>>

\* KVM_RUN returns by itself: an exit that needs no other thread, or one
\* that reads the registers of the CpuManager.
VcpuExit(v) ==
    /\ \/ VcpuMoves(v, "guest", "exit")
       \/ VcpuMoves(v, "guest", "cpu_manager")
    /\ UNCHANGED <<flags, vcpu_run_interrupted, paused, unparked, nmis, vmm>>

\* VmExit::Reset, VmExit::Shutdown, or an error: the event is written and
\* the thread ends.  Its handle stays.
VcpuEnds(v) ==
    /\ VcpuMoves(v, "guest", "ended")
    /\ vcpu_run_interrupted' = [vcpu_run_interrupted EXCEPT ![v] = TRUE]
    /\ UNCHANGED <<flags, paused, unparked, nmis, vmm>>

ReadCpuManager(v) ==
    /\ ~CpuManagerLocked
    /\ VcpuMoves(v, "cpu_manager", "exit")
    /\ UNCHANGED <<flags, vcpu_run_interrupted, paused, unparked, nmis, vmm>>

\* What a vCPU thread does without being asked, the guest apart.
VcpuStep(v) ==
    \/ CheckPause(v)
    \/ CompleteIo(v)
    \/ MarkInterrupted(v)
    \/ AckPause(v)
    \/ CheckResumed(v)
    \/ ClearInterrupted(v)
    \/ CheckKick(v)
    \/ InjectNmi(v)
    \/ CheckKill(v, "kill", "enter")
    \/ EnterGuest(v)
    \/ ReadCpuManager(v)
    \/ CheckKill(v, "exit", "top")

-----------------------------------------------------------------------------
(* The VMM thread in the CpuManager.                                        *)

VmmMoves(from, to) == at = from /\ at' = to /\ k' = 0 /\ UNCHANGED op

\* A slip: the loop runs one turn too many.
VmmLoops_over(here, after) ==
    /\ at = here
    /\ IF k \in Vcpus THEN at' = here /\ k' = k + 1 ELSE at' = after /\ k' = 0
    /\ UNCHANGED op

\* One turn of a loop over the vCPUs.
VmmLoops(here, after) ==
    /\ at = here
    /\ IF k + 1 \in Vcpus THEN at' = here /\ k' = k + 1 ELSE at' = after /\ k' = 0
    /\ UNCHANGED op

cpu_pause ==
    /\ VmmMoves("pause", "signal")
    /\ vcpus_pause_signalled' = TRUE
    /\ UNCHANGED <<vcpus_kick_signalled, vcpus_kill_signalled, threads>>

signal_thread ==
    /\ at = "signal"
    /\ at' = "interrupted"
    /\ vcpu_at' = [vcpu_at EXCEPT ![k] = IF @ = "guest" THEN "exit" ELSE @]
    /\ UNCHANGED <<flags, vcpu_run_interrupted, paused, unparked, nmis, op, k>>

AfterSignals == CASE op = "pause" -> "lock" [] op = "nmi" -> "unkick" [] OTHER -> "join"

\* A slip: one signal is enough.
check_interrupted_once ==
    /\ at = "interrupted"
    /\ at' = IF k + 1 \in Vcpus THEN "signal" ELSE AfterSignals
    /\ k' = IF k + 1 \in Vcpus THEN k + 1 ELSE 0
    /\ UNCHANGED <<flags, threads, op>>

check_interrupted ==
    /\ at = "interrupted"
    /\ IF vcpu_run_interrupted[k]
       THEN /\ at' = IF k + 1 \in Vcpus THEN "signal" ELSE AfterSignals
            /\ k' = IF k + 1 \in Vcpus THEN k + 1 ELSE 0
       ELSE /\ at' = "signal"
            /\ k' = k
    /\ UNCHANGED <<flags, threads, op>>

lock_vcpus ==
    /\ ~Locked(k)
    /\ VmmLoops("lock", "await")
    /\ UNCHANGED <<flags, threads>>

\* A slip: the wait for the vCPUs is left out.
await_paused_skipped ==
    /\ VmmLoops("await", "devices")
    /\ UNCHANGED <<flags, threads>>

await_paused ==
    /\ paused[k]
    /\ VmmLoops("await", "devices")
    /\ UNCHANGED <<flags, threads>>

resume_vcpus ==
    /\ ~Locked(k)
    /\ VmmLoops("resume", "unpause")
    /\ UNCHANGED <<flags, threads>>

cpu_resume ==
    /\ VmmMoves("unpause", "unpark")
    /\ vcpus_pause_signalled' = FALSE
    /\ UNCHANGED <<vcpus_kick_signalled, vcpus_kill_signalled, threads>>

unpark_vcpus ==
    /\ VmmLoops("unpark", "clock")
    /\ paused' = [paused EXCEPT ![k] = FALSE]
    /\ unparked' = unparked \cup (Parked \cap {k})
    /\ UNCHANGED <<flags, vcpu_run_interrupted, vcpu_at, nmis>>

cpu_shutdown ==
    /\ VmmMoves("kill", "release")
    /\ vcpus_kill_signalled' = TRUE
    /\ UNCHANGED <<vcpus_pause_signalled, vcpus_kick_signalled, threads>>

\* A slip: paused vCPUs are left paused.
release_vcpus_parked ==
    /\ VmmMoves("release", "signal")
    /\ UNCHANGED <<flags, threads>>

release_vcpus ==
    /\ VmmMoves("release", "signal")
    /\ vcpus_pause_signalled' = FALSE
    /\ unparked' = Parked
    /\ UNCHANGED <<vcpus_kick_signalled, vcpus_kill_signalled,
                   vcpu_run_interrupted, paused, vcpu_at, nmis>>

join_vcpus ==
    /\ vcpu_at[k] = "ended"
    /\ VmmLoops("join", "drop")
    /\ UNCHANGED <<flags, threads>>

nmi ==
    /\ VmmMoves("kick", "signal")
    /\ vcpus_kick_signalled' = TRUE
    /\ UNCHANGED <<vcpus_pause_signalled, vcpus_kill_signalled, threads>>

CpuManagerStep ==
    \/ cpu_pause
    \/ signal_thread
    \/ check_interrupted
    \/ lock_vcpus
    \/ await_paused
    \/ resume_vcpus
    \/ cpu_resume
    \/ unpark_vcpus
    \/ cpu_shutdown
    \/ release_vcpus
    \/ join_vcpus
    \/ nmi
================================================================================
