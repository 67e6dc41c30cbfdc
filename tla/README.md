# Formation: TLA+ models, model checking and proofs

This directory is the verification project kept beside Formation. It models the parts of
the system whose correctness depends on the order of events: scaling operations of
clusters, the state service and its mutex, relay sessions, the publisher of usage events,
the threads of a virtual machine, and live migration. TLC checks the models on small
instances; TLAPS proves the most important properties for every value of the constants.

Parse with `tlasany M.tla`, check with `tlc -config X.cfg MCM`, prove with
`tlapm MProofs.tla`. `PROJECT.json` lists the runs, the source lines each definition
models, the mutations every property is tested against, the findings and the hazards.

## 1. The system and its parts

Formation runs virtual machines on a network of independent nodes. Each node runs a set of
services that talk HTTP to each other and to the same services of other nodes.

| part | state | operations | what makes it hard |
| --- | --- | --- | --- |
| scaling manager (`form-state/src/scaling.rs`) | current phase, history | start, advance, cancel, fail, time out, roll back | late results after a timeout, rollback of the wrong operation |
| instance cluster (`form-state/src/instances.rs`) | members, template, policy, manager | drive an operation through its phases, health check, rollback, membership changes | members change between the steps of an operation; the manager is lost when the cluster is stored |
| state service (`form-state/src/api.rs`, `helpers/`) | one mutex around the datastore | about 80 HTTP handlers, bootstrap | handlers keep the mutex while they await peers, the queue or their own node |
| datastore (`form-state/src/datastore.rs`, `db.rs`) | replicated CRDT maps, stored in redb | apply, merge, publish, store | messages out of order or twice, restart from an older store |
| accounts, API keys, billing (`accounts.rs`, `api_keys/`, `billing/`) | ownership, authorizations, keys, credits | transfer, revoke, charge | several updates of one request, a stale copy written back |
| message queue (`form-p2p`) | topics of signed messages | write, spread to admins, read after an index | lost messages, indexes of readers, bootstrap |
| relay node (`form-net/formnet/src/relay/service.rs`) | sessions, two indexes, statistics | connect, relay, extend, remove, maintenance | four locks taken one after the other by several threads |
| relay manager, discovery (`relay/manager.rs`, `discovery.rs`) | sessions of a client, known relays | connect, heartbeat, reconnect, refresh | answers after a timeout |
| formnet (`join.rs`, `serve.rs`, `fetch.rs`, ...) | WireGuard interface, peers | join, redeem, fetch | mostly system calls |
| usage events (`form-usage-events`) | circuit breaker, retry loop | publish | unlocked cells shared by concurrent tasks |
| VMM (`form-vmm/vmm`, `virtio-devices`, `vm-migration`) | a VM, its vCPU and worker threads, eventfds, a migration socket | boot, pause, resume, nmi, shutdown, reboot, migrate | threads that park and are signalled through atomics, barriers, a protocol that may break off anywhere |
| VMM service, pack manager | virtual machines, builds | driven by the queue | replayed and lost messages |
| DNS, proxy, MCP, CLI, metrics, configuration | little | lookups, forwarding, reporting | - |

How they interact: a client's request reaches the state service of a node, which changes
the datastore under its mutex, shares the change with the admins' nodes (`broadcast`) or
writes it to the queue of its own node, which asks the state service for the admins and
spreads the message to their queues. VMM service and pack manager read the queue; the VMM
service drives the VMM of each machine over its API. Nodes
reach each other over formnet, through a relay node where no direct connection is possible.
`InstanceCluster` values are part of instances in the datastore.

What should hold, part by part: operations never overlap and each has one outcome; a scaling
operation does what was asked or leaves no trace before its changes start; every request is
answered; what was acknowledged is published; limits of a relay are kept and no slot is lost;
a breaker neither stays open nor lets a dead queue be hammered; a paused machine is still; a
machine that is migrated is not lost, takes all its memory along, and is doubled in named cases
only; replicas
converge; an instance always has one owner; a reader of the queue misses no message. All but
the last three are checked here.

## 2. Modules and the code

| module | models |
| --- | --- |
| `ScalingLifecycle` | abstract specification: one operation at a time, stages in order, one outcome each |
| `ScalingManager` | `scaling.rs`, one action per method of `ScalingManager` |
| `MCScalingManager` | its instance |
| `InstanceCluster`, `MCInstanceCluster` | `instances.rs` on top of `ScalingManager`: composes the driver with the phase machine |
| `ScalingProofs`, `MembershipProofs` | theorems about the manager, alone and driven by a cluster, and about the members of the cluster |
| `CircuitBreaker`, `MCCircuitBreaker`, `CircuitBreakerProofs` | `circuit_breaker.rs`, `retry.rs`, `publish.rs` |
| `RelayNode`, `MCRelayNode`, `RelayNodeSteps`, `RelayNodeProofs` | sessions of `relay/service.rs`; what each section does, and the theorems |
| `StateService`, `MCStateService`, `StateServiceProofs` | mutex and handlers of the state service on several nodes, with the queue's part |
| `VcpuThreads` | `vmm/src/cpu.rs`: the loop of a vCPU thread, and how it is paused, kicked and stopped |
| `VirtioWorkers` | `virtio-devices`: the worker threads of a device |
| `Vm`, `VmProofs` | `vmm/src/vm.rs`: composes the two |
| `Vmm`, `VmmProofs` | `vmm/src/lib.rs`, `vm-migration`: control loops of two VMMs, and migration between them |

**ScalingManager.** `current_phase` and `operation_history` are the fields of the struct;
`now` is the wall clock. Every method takes `&mut self`, so a call is one action; a call
that returns `Err` changes nothing and is no step. A phase keeps what guards read.

**InstanceCluster** extends `ScalingManager` and adds `members`, `template`, `policy` and the
state of the driver. `process_scaling_phase` is one action per phase, with everything the
step does, its timeout check and its error path included. Members join, leave and report
between steps (`churn` bounds how often). `lose_scaling_manager` is a cluster that was
serialized and read back: the manager is skipped by serde. u32 subtractions wrap at `MaxU32`
and the last octet of an address at `Octets`, as in a release build. `OperationAssumption` says
what a `ScalingOperation` is: three types, a u32 target, ids of instances that joined by
themselves, none of which is named like a replacement of another.

**CircuitBreaker.** Every access to one of the breaker's cells (an `RwLock` and three
atomics) is a step, so tasks act on states that others have changed since.

**RelayNode.** Every locked section is a step of its thread: the service thread, which
handles datagrams and maintenance, or a caller of the public methods. Times are counted in
ticks relative to now.

**StateService.** `lock[n]` is the datastore mutex of node `n`, `pc` what each request and
each task spawned for it does next. A handler is one step up to its first await under the
mutex and one step for each call it awaits. A call of another handler that itself awaits
nothing is one step, enabled when that handler's mutex is free. The contents of the store are
left out; which message must be published (`?`) and which is only logged is kept
(`Publishes`), and so are failures of the queue before and after it took a message.
`restart` kills form-state on a node; the queue is another process.

**VcpuThreads, VirtioWorkers, Vm.** `vcpu_at[v]` and `worker_at[w]` are where each thread is
in its loop; every load or store of an atomic another thread uses is a step. The VMM thread
runs one operation `op` at a time and is `at` a place in it, `k` being the vCPU its loop is at.
A signal makes a vCPU leave KVM_RUN and is lost anywhere else; `unpark` leaves a token, `park`
may also return without one. `Vm` adds the state machine and what the guest does to the
device: `DriverOk` waits at a barrier until the VMM thread has activated the device,
`DriverReset` joins the workers. What a worker does with its queue is one step.

**Vmm.** `vm[h]` is the state of the VM of each process, "None" without one. A handler is one
step, but the two of a migration go request by request and page by page: `pc["src"]` and
`pc["dst"]` are their places, `request` and `response` what is on its way. Guest memory is the
set `stale` of pages that differ between the ends; `dirty` is the log, read and emptied by
every pass; `table` is what is still to be written to the socket. `Cut` loses the connection
for one end or both, with what is under way; `Crash` ends a process. Three history variables
follow the VM itself: `twin` says whether the destination's VM is a copy, or has taken over;
`wanted` that it has run and nobody has ended it; `diverged` that something other than a
handover ran a second copy. That a Paused VM does not write to memory is what `Vm` shows.

## 3. Runs

| run | result | shows |
| --- | --- | --- |
| `scaling_manager` | pass | two operations in any order of calls: history and phase agree, operations do not overlap, closed records are frozen, the lifecycle is refined |
| `instance_cluster` | pass | two operations of any kind, with up to two changes from outside during the first: no trace before Configuring, a completed operation did what was asked, cooldowns hold between successes, the template stays, nothing advances after its time limit, the lifecycle is refined even when the manager is lost, and every operation ends if `process_scaling_phase` keeps being called |
| `cluster_rollback` | violation | a rollback does not restore the members |
| `circuit_breaker` | pass | with two half-open calls the breaker trips, sheds and recovers in every interleaving |
| `circuit_breaker_default` | violation | with the default of one half-open call it can stay half-open and rejecting for ever |
| `relay_node` | pass | the session limit is exceeded by no more than the threads in flight, no slot of a client leaks, the session count is exact at rest, addresses are learned in order |
| `relay_node_live` | pass | stale sessions go, also those a packet wrote back |
| `relay_node_find` | violation | a packet that raced a removal leaves a live session in no index |
| `state_service` | pass | two requests of any kind on two nodes: no handler waits for a mutex while holding one, all requests are answered, account changes that succeeded are published |
| `state_service_vanity` | violation | with ALLOW_INTERNAL_ENDPOINTS a vanity request blocks its node for ever |
| `vm` | pass | a paused VM has its vCPUs and workers parked; the first NMI reaches all; pause and shutdown return but for the obstacles named in the properties |
| `vmm` | pass | the destination takes over only with all of the memory, the VM is never lost, two copies run only when the end of a migration went unanswered or someone asked for it, no end of a migration waits for ever |

**Bounds.** `ScalingManager`: two operations let every call meet a record of an earlier
operation; time limits of 0 to 2 with `MaxTime = 3` let phases time out at once, later or
never. `InstanceCluster`: three members (one with an IPv6 address), two
operations, changes from outside during the first only; two phases have a time limit of 0, so
that one tick makes them late, the others of 1; `MaxU32 = 7` and `Octets = 4` are small
enough to wrap. `CircuitBreaker`: two tasks give every race between a read and its use.
`RelayNode`: limits of one session, so that one thread more exceeds them; three ids, two
peers; `IdsLeft` refuses a new session when a thread might find no unused id, which stands
for 64-bit random ids; a call lasts no longer than a tick of the clock (`late`), as calls take
microseconds and ticks stand for the time-outs. `StateService`: two nodes and two requests
are what a circular wait needs; a request slot is used again once all its tasks are done.
`Vm`: one vCPU and two workers, enough for a thread to meet each step of the VMM thread and
for one worker to be ahead of the other. The invariants and the NMI property are proved for
any number; that pause and shutdown return is only checked with one vCPU, so a wait between
two vCPUs is not covered. After a pause or resume that failed half-way the run asks for a
shutdown only (`RequestsAfterFailure`, arbitrary in the proofs). `Vmm`: two pages, so that a pass can break off half-way, and one
dirty pass; a guest asks for a reset or shutdown while fewer than `MaxAsked = 1` of the
processes have such an event pending.
Symmetry is used in `relay_node` and `relay_node_find` only, which check invariants.

**Fairness.** `process_scaling_phase` "should be called periodically" (its doc): weak
fairness. Tasks of the publisher are scheduled and keep publishing, as the metrics loop does,
and time passes: weak fairness. The relay's service loop runs, calls finish and time passes:
weak fairness. A handler of the state service gets a mutex that is free again and again,
because tokio's `Mutex` serves its waiters in order: strong fairness of each request;
nothing is asked of clients, restarts or spawned tasks. Calls to a dead peer are taken to end.
The threads of a VM run, a thread with a token leaves `park`, and a request that was begun is
carried on: weak fairness; the guest owes nothing. Each end of a migration goes on while it
can: weak fairness; that a read from a lost peer ends is the socket's part (`Cut`, `Crash`).

Deadlock is not checked in the runs of `ScalingManager` and `InstanceCluster`, which stop with
their bounds, nor of `Vm` and `Vmm`, which stop when the VM is shut down or both processes are
gone. Everywhere else it is.

## 4. Proofs

All constants are arbitrary under the named assumptions of the modules.

* `ScalingProofs`, the manager. The inductive invariant `IInv` is the conjunction of the checked
  invariants with `HistoryInPast`: a new record starts at `now`, so it can only follow its
  predecessor if that one's times lie in the past. From it: `TypeCorrect`, `MirrorTheorem`,
  `NoOverlapTheorem`, `RollbackTheorem`, the action property `FrozenTheorem`, and
  `LifecycleTheorem`: the manager implements `ScalingLifecycle`.
* `ScalingProofs`, the cluster, for any members, policies, operations and time limits. Every step
  is of one of eight kinds (`ClusterKinds`): an operation starts, moves to its next phase, stops
  without success, is finalized, is marked rolled back, the manager is lost, someone changes the
  cluster, time passes. The manager keeps `IInv` under all of them (`ManagerInvariant`), hence
  `ClusterMirrorTheorem` and `ClusterLifecycleTheorem`, which allows success from the last phase
  only. `NoLateAdvanceTheorem` and `TemplateTheorem` are action properties; the latter rests on
  what `apply_configuration_changes` leaves for each type, also when it returns an error.
  `EarlyEndTheorem`: a change from outside does to the members an operation started from what it
  does to the members (`ChangesAlike`). `CooldownTheorem`: the invariant `CoolInv` says that the
  policy's stamp is not before the end of any success of its kind, and that an operation past
  validation is out of the cooldown until it ends, as no other operation can end before it.
* `MembershipProofs`, the cluster again. `ClusterTypeTheorem`, with the members finitely many
  (`MembersInv`). `CompletedTheorem`: the invariant `AskedInv` says that an operation nobody
  disturbs is within the policy once it is validated (`Allowed`), and done to the members it
  started from once it is applied (`Done`). Names of new instances may be in use, so that `Done`
  is not clear from the code that inserts them: a name that was taken overwrites a member. It
  rests on counting. `apply_configuration_changes` compares the number of members with the target;
  the sets it adds have at most as many names as it was asked for, so that the right number means
  that no name was taken (`AddedAreNew`, `ReplacementsAreNew`). A target above the size the
  operation started from, which validation ensures, keeps the u32 difference from wrapping
  (`NoWrap`).
* `CircuitBreakerProofs`. `TypeCorrect`; `ThresholdTheorem`, from the invariant that a closed
  circuit at its threshold has a task that is about to open or reset it; `HalfOpenTheorem`, if
  at least two half-open calls are allowed - with one, `circuit_breaker_default` refutes it.
* `RelayNodeProofs`. `BoundedTheorem`: live sessions and the threads about to insert one
  (`Pending`) together stay below the limit plus the number of threads. `TypeCorrect`,
  `SlotsTheorem`, `StatsTheorem` and `AddressesTheorem` are about a node with no call under way;
  while calls are, what holds is what their threads still have to do. An id in a client's index
  belongs to a live session or a thread is about to take it out (`SlotInv`); the count is right,
  or a thread will recount, or a session was written back (`StatsInv`); the addresses are in order
  in what is stored and in what is about to be (`OrderInv`). `SlotInv` is inductive only because
  all who know an id know the same initiator for it (`OwnerInv`), and because a new session
  cannot be removed before its id is in the index (`NewInv`), as it is younger than any time-out.
  `RelayNodeSteps` proves what each locked section changes, once for all of these.
* `StateServiceProofs`. `NoHoldAndWaitTheorem`: in a `SafeConfiguration` (no node key without
  ALLOW_INTERNAL_ENDPOINTS, no vanity request with it), a mutex is held only by a request at
  its own node, and only while it awaits a call that needs no mutex (`HoldInv`). Lemma
  `NotRouted` is why a broadcast is such a call. `SuccessMeansPublishedTheorem` holds in every
  configuration: `PublishInv` ties where a request is to what it has published - nothing before
  its handler runs, every required message among those tried while it is not refused.
  `TypeCorrect` adds `TaskInv`: only a task that is calling nodes has nodes left to call, and no
  task of a request that publishes does, so that the queue may spawn any of them; a message is
  tried only while there is one left.
* `VmProofs`, for any number of vCPUs and queues: `TypeCorrect`, `PausedVmIsParked`,
  `PausedVmHasIdleWorkers` and the action property `FirstNmiArrives`. The inductive invariant
  says of a VM that was booted that `vcpus_pause_signalled` is set exactly while the VMM thread
  wants a pause, and that a vCPU whose `paused` is set meanwhile waits in its parking loop, so
  that no acknowledgement is late (`BootInv`); of one that was restored and not resumed that
  its vCPUs wait or are on their way (`RestoreInv`); and that the workers of a paused device
  stay in their parking loops (`WorkersInv`).
* `VmmProofs`, for any memory and any number of dirty passes: `TypeCorrect`,
  `OneCopyTheorem`, `NeverLostTheorem` and the action property `HandoverTheorem`. The inductive
  invariant follows a migration through both processes. Whose request or answer is on the socket
  is known from where the source is, unless it has given up (`SocketInv`, `CommandInv`). A stale
  page is in the dirty log or still to be written until the VM is paused and the last pages are
  sent (`MemoryInv`); hence the handover takes all memory. The destination has a copy from its
  answer to State on, and a Complete nobody waits for finds a copy that diverged or a source that
  is gone (`TwinInv`). A wanted VM is at an end that was not told to exit (`WantedInv`), and
  while the source has the migration in hand its copy runs only after Complete (`CopyInv`).
  `NoMutualWaitTheorem` is the safe part of `MigrationEnds`: every command finds the destination
  ready for it (so that the answers "Migration not started yet", "Configuration not sent yet" and
  "VM not created yet", which the model leaves out, are never given), and while both ends of the
  connection stand, source and destination are never both blocked in a read. The invariant ties
  what the destination has to the command the source is at (`Reached`), and says that a request
  that was written is on its way or its answer is (`Carried`).

Every invariant and action property that a passing run checks has a theorem. Only model-checked
are the liveness properties (`OperationsEnd`, `Recovers`, `Sheds`, `StaleSessionsGo`,
`RequestsAnswered`, `FirstPauseReturns`, `ShutdownReturns`, `MigrationEnds`): they need fairness
and ENABLED, which the prover does not handle. `NoHoldAndWaitTheorem` and `NoMutualWaitTheorem`
prove the absence of circular waiting that two of them rest on.

## 5. Findings

1. `rollback_scaling_operation` is documented as "restoring the cluster to its previous
   state"; it dispatches on the final phase of the record, which is always "Failed", and
   restores nothing (`cluster_rollback`).
2. A late success in the open state makes the default breaker half-open with its only allowed
   call used up; nothing can move it again (`circuit_breaker_default`).
3. `process_relay_packet` writes back a session that was removed meanwhile; the session is
   live and in no index (`relay_node_find`).
4. `request_vanity` and `request_public` post to their own node with the mutex held; with
   ALLOW_INTERNAL_ENDPOINTS the call waits for that mutex (`state_service_vanity`).

Seen while modelling, without a run: ids of new instances repeat in a second scale-out from
one template, which then fails its count check; members that join during a scale-out make its
u32 difference wrap; `node_auth_middleware` holds the mutex while it runs the handler of a
request with a node's key; `send` builds `http://ip:3004//user/create`, which no peer routes,
so that Ops spread by bootstrap only - and with the path corrected, two nodes that broadcast
to each other would block each other for ever (mutant `PathFixed`); `try_connect_via_relay`
never sends the connection request it serializes.

Also in the VMM: a vCPU that was slow to park after a restore stores its `paused` flag after
the resume, so that the next pause returns while it runs, against the comment "to ensure they
have parked" (cpu.rs:2282); a resume followed at once by a pause can leave pause waiting for a
vCPU that is parked; `vcpu_run_interrupted` stays set after an NMI, so that a second one can be
lost; pause holds the mutex that a vCPU in an access to the CPU manager's registers waits for;
a driver that enables fewer queues than the device has makes pause wait at a barrier that is
never full. In a migration: a lost answer to Complete makes both ends run the VM; a reset the
guest asked for just before its pause can be carried out by the source, after the handover; the
Abandon of the source is never read, since a destination that answers with an error has
already left, so it keeps the configuration; `vm_send_migration` without a VM configuration,
and a connection that is lost just before memory is sent, meet an `unwrap`; a destination with
a VM of its own loses it; a migration that fails resumes a VM that was paused before it.

## 6. Not modelled

The map covers a small share of the repository's lines, because most of them are the vendored
Cloud Hypervisor, innernet and their tests. Its device emulation, disk formats, ACPI tables,
hypervisor bindings, and the parsing and validation of configurations are sequential code on
bytes and registers: a model of them would repeat them line by line and show nothing more.
What is modelled of it is what its threads and processes do to each other.

Out of reach or without behaviour worth a model: WireGuard and other system calls, byte formats
and cryptography, DNS lookups, the proxy's copying, CLI, configuration and metrics collectors.

Left out although a model would be worth having: the contents of accounts, keys and credits
(that an instance has one owner after a transfer that failed half-way, that a revoked key stays
revoked); topics and readers of the queue; the replicated maps with the dots and clocks of the
external crdts crate; the client's side of relay sessions; VMM service and pack manager. Within
the VMM: hotplug, snapshots to files, the debugger, and more than one device, whose pauses come
one after the other. `PROJECT.json` lists every part with its reason.
