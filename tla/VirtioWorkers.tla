----------------------------- MODULE VirtioWorkers -----------------------------
(***************************************************************************)
(* form-vmm/virtio-devices: the worker threads of a virtio device, one for *)
(* each queue that the driver has enabled (block.rs), and how the device   *)
(* is activated, paused, resumed and reset (VirtioCommon in device.rs).    *)
(***************************************************************************)
EXTENDS Integers

CONSTANT num_queues

ASSUME QueuesAssumption == num_queues \in Nat \ {0}

VARIABLES
    dev_paused,         \* VirtioCommon.paused
    pause_evt,          \* the counter of the eventfd, shared by the workers
    kill_evt,           \* written, never read
    worker_at,          \* where each worker is in run_with_timeout
    worker_unparked,    \* the workers that hold the token of unpark
    activated           \* pause_evt and kill_evt are Some

device == <<dev_paused, pause_evt, kill_evt, worker_at, worker_unparked, activated>>

Queues == 1 .. num_queues

\* Before the epoll loop, and in the handler of the pause event.
Parking == {"start", "start_park", "check", "park"}

WorkerPlaces == {"none", "epoll", "handle", "sync", "drain", "ended"} \cup Parking

\* The workers that unpark finds in a parking loop (see VcpuThreads).
ParkedWorkers == {w \in Queues : worker_at[w] \in Parking}

WorkerMoves(w, from, to) ==
    /\ worker_at[w] = from
    /\ worker_at' = [worker_at EXCEPT ![w] = to]

CheckStart(w) ==
    /\ WorkerMoves(w, "start", IF dev_paused THEN "start_park" ELSE "epoll")
    /\ worker_unparked' = IF dev_paused THEN worker_unparked ELSE worker_unparked \ {w}
    /\ UNCHANGED <<dev_paused, pause_evt, kill_evt, activated>>

WorkerWakes(w) ==
    /\ WorkerMoves(w, "start_park", "start") \/ WorkerMoves(w, "park", "check")
    /\ worker_unparked' = worker_unparked \ {w}
    /\ UNCHANGED <<dev_paused, pause_evt, kill_evt, activated>>

KillEvent(w) ==
    /\ kill_evt
    /\ WorkerMoves(w, "epoll", "ended")
    /\ UNCHANGED <<dev_paused, pause_evt, kill_evt, worker_unparked, activated>>

PauseEvent(w) ==
    /\ pause_evt > 0
    /\ WorkerMoves(w, "epoll", "sync")
    /\ UNCHANGED <<dev_paused, pause_evt, kill_evt, worker_unparked, activated>>

\* epoll_wait reports a kill or a pause event with the queue's own; to take
\* it first is one of the orders.
QueueEvent(w) ==
    /\ ~kill_evt
    /\ pause_evt = 0
    /\ WorkerMoves(w, "epoll", "handle")
    /\ UNCHANGED <<dev_paused, pause_evt, kill_evt, worker_unparked, activated>>

handle_event(w) ==
    /\ WorkerMoves(w, "handle", "epoll")
    /\ UNCHANGED <<dev_paused, pause_evt, kill_evt, worker_unparked, activated>>

WorkerChecks(w) ==
    /\ WorkerMoves(w, "check", IF dev_paused THEN "park" ELSE "drain")
    /\ worker_unparked' = IF dev_paused THEN worker_unparked ELSE worker_unparked \ {w}
    /\ UNCHANGED <<dev_paused, pause_evt, kill_evt, activated>>

DrainPauseEvent(w) ==
    /\ WorkerMoves(w, "drain", "epoll")
    /\ pause_evt' = 0
    /\ UNCHANGED <<dev_paused, kill_evt, worker_unparked, activated>>

WorkerStep(w) ==
    \/ CheckStart(w)
    \/ KillEvent(w)
    \/ PauseEvent(w)
    \/ handle_event(w)
    \/ WorkerChecks(w)
    \/ DrainPauseEvent(w)

-----------------------------------------------------------------------------
(* The device, as the VMM thread and the vCPU threads use it.               *)

WorkersDone == \A w \in Queues : worker_at[w] \in {"none", "ended"}

\* The workers of the queues that the driver has enabled.
activate(queues) ==
    /\ activated' = TRUE
    /\ pause_evt' = 0
    /\ kill_evt' = FALSE
    /\ worker_at' = [w \in Queues |-> IF w \in queues THEN "start" ELSE "none"]
    /\ worker_unparked' = {}
    /\ UNCHANGED dev_paused

device_pause ==
    /\ dev_paused' = TRUE
    /\ pause_evt' = IF activated THEN pause_evt + 1 ELSE pause_evt
    /\ UNCHANGED <<kill_evt, worker_at, worker_unparked, activated>>

\* A slip: the thread that pauses does not wait for the workers.
paused_sync_skipped ==
    /\ worker_at' = [w \in Queues |-> IF worker_at[w] = "sync" THEN "check" ELSE worker_at[w]]
    /\ UNCHANGED <<dev_paused, pause_evt, kill_evt, worker_unparked, activated>>

\* The barrier is for num_queues workers and the thread that pauses.
paused_sync ==
    /\ \A w \in Queues : worker_at[w] = "sync"
    /\ worker_at' = [w \in Queues |-> "check"]
    /\ UNCHANGED <<dev_paused, pause_evt, kill_evt, worker_unparked, activated>>

device_resume ==
    /\ dev_paused' = FALSE
    /\ worker_unparked' = ParkedWorkers
    /\ UNCHANGED <<pause_evt, kill_evt, worker_at, activated>>

reset_device ==
    /\ dev_paused' = FALSE
    /\ worker_unparked' = ParkedWorkers
    /\ kill_evt' = TRUE
    /\ UNCHANGED <<pause_evt, worker_at, activated>>

\* The threads are joined, their eventfds are gone and the interrupt is
\* handed back.
reset_done ==
    /\ WorkersDone
    /\ activated' = FALSE
    /\ pause_evt' = 0
    /\ kill_evt' = FALSE
    /\ worker_at' = [w \in Queues |-> "none"]
    /\ UNCHANGED <<dev_paused, worker_unparked>>

\* DeviceManager::drop resumes the device, Block::drop kills its workers.
drop_device ==
    /\ dev_paused' = FALSE
    /\ worker_unparked' = ParkedWorkers
    /\ kill_evt' = TRUE
    /\ UNCHANGED <<pause_evt, worker_at, activated>>
================================================================================
