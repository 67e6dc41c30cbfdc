---------------------------------- MODULE Vmm ----------------------------------
(***************************************************************************)
(* form-vmm/vmm/src/lib.rs: the control loops of two Vmm processes, their  *)
(* handlers of requests and events, and the live migration of the VM of    *)
(* "src" to "dst" over a socket that may break (vm-migration/protocol.rs). *)
(*                                                                         *)
(* A handler is one step, but for the two of a migration: there every      *)
(* request, answer and page is a step.  A request that is refused changes  *)
(* nothing.  What happens inside a Vm is module Vm; here it is its VmState.*)
(* Of guest memory it only matters which pages the destination has a stale *)
(* copy of.  Consoles, the debugger and hotplug are left out.              *)
(***************************************************************************)
EXTENDS Integers, FiniteSets

CONSTANTS
    Pages,                  \* of guest memory
    MAX_DIRTY_MIGRATIONS,
    MaxAsked                \* bounds the processes with a pending event at which a guest asks

ASSUME MigrationAssumption == Pages # {} /\ MAX_DIRTY_MIGRATIONS \in Nat

VARIABLES
    vm_config,          \* of each Vmm: it has a configuration
    vm,                 \* the state of its VM, or "None"
    exit_evt,
    reset_evt,
    pc,                 \* "loop" in the control loop, "gone" once it has ended
    command,            \* the request send_migration is at
    local,              \* the memory is handed over by file descriptor
    passes,             \* over the dirty pages
    logging,            \* the dirty log is on
    dirty,              \* the pages in the dirty log
    table,              \* the pages still to be written to the socket
    stale,              \* the pages whose copy at dst is not what src has
    started,            \* locals of vm_receive_migration
    memory_manager,
    open,               \* the ends of the socket that are not closed
    request,            \* what is on its way to dst, and to src
    response,
    twin,               \* history: dst's VM is no copy of src's, a copy, or taken over
    diverged,           \* history: something other than a handover ran a second copy
    wanted              \* history: the VM src had has run and nobody has ended it

processes == <<vm_config, vm, exit_evt, reset_evt>>
sending == <<command, local, passes, logging, dirty, table>>
receiving == <<started, memory_manager>>
socket == <<open, request, response>>
history == <<twin, diverged, wanted>>
vars == <<processes, pc, sending, stale, receiving, socket, history>>

Vmms == {"src", "dst"}

VmStates == {"Created", "Running", "Paused"}

Commands == {"Start", "MemoryFd", "Config", "Memory", "State", "Complete"}

Places ==
    {"loop", "gone", "accept", "receive", "send", "pages", "await", "work", "pause",
     "paused", "failed"}

Init ==
    /\ vm_config = [h \in Vmms |-> FALSE]
    /\ vm = [h \in Vmms |-> "None"]
    /\ exit_evt = [h \in Vmms |-> FALSE]
    /\ reset_evt = [h \in Vmms |-> FALSE]
    /\ pc = [h \in Vmms |-> "loop"]
    /\ command = "Start" /\ local = FALSE /\ passes = 0
    /\ logging = FALSE /\ dirty = {} /\ table = {} /\ stale = {}
    /\ started = FALSE /\ memory_manager = FALSE
    /\ open = {} /\ request = "None" /\ response = "None"
    /\ twin = "none" /\ diverged = FALSE /\ wanted = FALSE

Goto(h, place) == pc' = [pc EXCEPT ![h] = place]

Set(h, state) == vm' = [vm EXCEPT ![h] = state]

\* The VM lives on when what h has of it ends: at an end that was not told to exit.
Elsewhere(h) ==
    \/ /\ h = "src" /\ ~exit_evt["dst"]
       /\ twin = "taken" \/ (twin = "copy" /\ vm["dst"] = "Running")
    \/ h = "dst" /\ twin = "none"
    \/ /\ h = "dst" /\ ~exit_evt["src"]
       /\ vm["src"] = "Running" \/ (vm["src"] = "Paused" /\ twin = "copy")

Ends(h) ==
    IF vm[h] = "None"
    THEN UNCHANGED history
    ELSE /\ wanted' = (wanted /\ Elsewhere(h))
         /\ twin' = IF h = "dst" THEN "none" ELSE twin
         /\ diverged' = (diverged /\ h = "src")

\* A new VM, which runs or does not.
Begins(h, runs) ==
    /\ twin' = "none"
    /\ wanted' = IF h = "src" THEN runs /\ ~exit_evt[h] ELSE wanted
    /\ diverged' = FALSE

MayRun(h) == vm[h] = "Running" \/ pc[h] \notin {"loop", "gone"}

\* A VM is run by a request or an event, whatever the other process does with its copy.
Runs(h) ==
    /\ wanted' = (wanted \/ (h = "src" /\ ~exit_evt[h]))
    /\ diverged' = (diverged \/ (twin # "none" /\ \E o \in Vmms \ {h} : MayRun(o)))
    /\ UNCHANGED twin

\* The process ends, with all it has, and its end of the socket is closed.
Gone(h) ==
    /\ Goto(h, "gone")
    /\ Set(h, "None")
    /\ vm_config' = [vm_config EXCEPT ![h] = FALSE]
    /\ exit_evt' = [exit_evt EXCEPT ![h] = FALSE]
    /\ reset_evt' = [reset_evt EXCEPT ![h] = FALSE]
    /\ open' = open \ {h}
    /\ IF h = "src"
       THEN /\ command' = "Start" /\ local' = FALSE /\ passes' = 0 /\ logging' = FALSE /\ dirty' = {}
            /\ table' = {} /\ response' = "None"
            /\ UNCHANGED <<receiving, request>>
       ELSE /\ started' = FALSE /\ memory_manager' = FALSE
            /\ request' = "None"
            /\ UNCHANGED <<sending, response>>
    /\ UNCHANGED stale

-----------------------------------------------------------------------------
(* Requests and events, handled in the control loop.                        *)

\* Most handlers only change what the process has.
Handles(h) ==
    /\ pc[h] = "loop"
    /\ UNCHANGED <<exit_evt, pc, sending, stale, receiving, socket>>

vm_create(h) ==
    /\ Handles(h)
    /\ ~vm_config[h]
    /\ vm_config' = [vm_config EXCEPT ![h] = TRUE]
    /\ UNCHANGED <<vm, reset_evt, history>>

\* A VM that cannot be booted stays Created; one that is Paused is resumed.
vm_boot(h) ==
    /\ Handles(h)
    /\ vm_config[h]
    /\ \/ vm[h] \in {"Created", "Paused"} /\ Set(h, "Running") /\ Runs(h)
       \/ vm[h] = "None" /\ Set(h, "Running") /\ Begins(h, TRUE)
       \/ vm[h] = "None" /\ Set(h, "Created") /\ Begins(h, FALSE)
    /\ UNCHANGED <<vm_config, reset_evt>>

vm_pause(h) ==
    /\ Handles(h)
    /\ vm[h] \in {"Created", "Running"}
    /\ Set(h, "Paused")
    /\ UNCHANGED <<vm_config, reset_evt, history>>

vm_resume(h) ==
    /\ Handles(h)
    /\ vm[h] \in {"Created", "Paused"}
    /\ Set(h, "Running")
    /\ Runs(h)
    /\ UNCHANGED <<vm_config, reset_evt>>

\* The configuration stays when Vm::new fails.
vm_restore(h) ==
    /\ Handles(h)
    /\ ~vm_config[h] /\ vm[h] = "None"
    /\ vm_config' = [vm_config EXCEPT ![h] = TRUE]
    /\ \/ Set(h, "Paused") /\ Begins(h, FALSE)
       \/ UNCHANGED <<vm, history>>
    /\ UNCHANGED reset_evt

vm_shutdown(h) ==
    /\ Handles(h)
    /\ vm[h] # "None"
    /\ Set(h, "None")
    /\ Ends(h)
    /\ UNCHANGED <<vm_config, reset_evt>>

vm_delete(h) ==
    /\ Handles(h)
    /\ vm_config[h]
    /\ vm_config' = [vm_config EXCEPT ![h] = FALSE]
    /\ Set(h, "None")
    /\ Ends(h)
    /\ UNCHANGED reset_evt

\* The new VM drains the event that the old one may have left.
vm_reboot(h) ==
    /\ Handles(h)
    /\ vm[h] # "None"
    /\ \/ /\ Set(h, "Running")
          /\ Runs(h)
          /\ reset_evt' = [reset_evt EXCEPT ![h] = FALSE]
       \/ /\ Set(h, "None")
          /\ Ends(h)
          /\ UNCHANGED reset_evt
    /\ UNCHANGED vm_config

vmm_shutdown(h) ==
    /\ pc[h] = "loop"
    /\ Gone(h)
    /\ Ends(h)

ExitEvent(h) ==
    /\ pc[h] = "loop"
    /\ exit_evt[h]
    /\ Gone(h)
    /\ twin' = IF h = "dst" THEN "none" ELSE twin
    /\ diverged' = (diverged /\ h = "src")
    /\ UNCHANGED wanted

\* An error of vm_reboot, also that there is no VM, ends the control loop.
ResetEvent(h) ==
    /\ reset_evt[h]
    /\ \/ /\ vm[h] # "None"
          /\ Handles(h)
          /\ Set(h, "Running")
          /\ Runs(h)
          /\ reset_evt' = [reset_evt EXCEPT ![h] = FALSE]
          /\ UNCHANGED vm_config
       \/ /\ pc[h] = "loop"
          /\ Gone(h)
          /\ Ends(h)

Request(h) ==
    \/ vm_create(h)
    \/ vm_boot(h)
    \/ vm_pause(h)
    \/ vm_resume(h)
    \/ vm_restore(h)
    \/ vm_shutdown(h)
    \/ vm_delete(h)
    \/ vm_reboot(h)
    \/ vmm_shutdown(h)
    \/ ResetEvent(h)

-----------------------------------------------------------------------------
(* vm_send_migration                                                        *)

\* send_migration returns: its locals are gone, and the socket is closed.
Returns(place) ==
    /\ Goto("src", place)
    /\ open' = open \ {"src"}
    /\ command' = "Start" /\ local' = FALSE /\ passes' = 0

Fail == Returns("failed")

\* unwrap() ends the thread, and with it the process.
Panic ==
    /\ Gone("src")
    /\ Ends("src")

\* A VM that does not run is migrated as well; when that fails it runs.
vm_send_migration(fds) ==
    /\ pc["src"] = "loop"
    /\ \/ ~vm_config["src"] /\ Panic
       \/ /\ vm["src"] # "None"
          /\ \/ /\ pc["dst"] = "accept"
                /\ pc' = [pc EXCEPT !["src"] = "send", !["dst"] = "receive"]
                /\ command' = "Start" /\ local' = fds /\ passes' = 0
                /\ open' = Vmms /\ request' = "None" /\ response' = "None"
             \/ Goto("src", "failed") /\ UNCHANGED <<command, local, passes, socket>>
          /\ diverged' = (diverged \/ (vm["src"] # "Running" /\ twin # "none"))
          /\ UNCHANGED <<processes, logging, dirty, table, stale, receiving, twin, wanted>>

\* The command of a request, on the wire.
Wire == IF command = "LastMemory" THEN "Memory" ELSE command

\* What is written to a connection that is lost, when that is not known yet, is lost too.
send_request ==
    /\ pc["src"] = "send"
    /\ IF "dst" \in open
       THEN /\ request' = IF "src" \in open THEN Wire ELSE "None"
            /\ Goto("src", IF Wire = "Memory" THEN "pages" ELSE "await")
            /\ UNCHANGED <<processes, sending, stale, receiving, open, response, history>>
       ELSE IF command \in {"Memory", "LastMemory"}
       THEN Panic
       ELSE /\ Fail
            /\ UNCHANGED <<processes, logging, dirty, table, stale, receiving, request, response,
                           history>>

send_memory_regions(p) ==
    /\ pc["src"] = "pages"
    /\ IF "dst" \in open
       THEN /\ p \in table
            /\ table' = table \ {p}
            /\ stale' = stale \ {p}
            /\ Goto("src", IF table' = {} THEN "await" ELSE "pages")
            /\ UNCHANGED <<command, local, passes, open>>
       ELSE Fail /\ UNCHANGED <<table, stale>>
    /\ UNCHANGED <<processes, logging, dirty, receiving, request, response, history>>

\* Whoever answers with an error has left its loop, so the Abandon that ok_or_abandon
\* sends is not read.  Whether a Complete without an answer was carried out is not known.
read_response ==
    /\ pc["src"] = "await"
    /\ \/ /\ response = "ok"
          /\ Goto("src", "work")
          /\ UNCHANGED <<command, local, passes, open, diverged>>
       \/ /\ response = "error" \/ (response = "None" /\ "dst" \notin open)
          /\ Fail
          /\ diverged' = (diverged \/ (command = "Complete" /\ twin # "none"))
    /\ response' = "None"
    /\ UNCHANGED <<processes, logging, dirty, table, stale, receiving, request, twin, wanted>>

\* What send_migration does once a request is answered, up to the next request.
Send(next) == command' = next /\ Goto("src", "send")

Answered(to) ==
    /\ pc["src"] = "work"
    /\ command = to
    /\ UNCHANGED <<vm_config, reset_evt, local, stale, receiving, request, response, history>>

SendConfig ==
    /\ Answered(command)
    /\ \/ command = "Start" /\ Send(IF local THEN "MemoryFd" ELSE "Config")
       \/ command = "MemoryFd" /\ Send("Config")
    /\ UNCHANGED <<vm, exit_evt, passes, logging, dirty, table, open>>

start_dirty_log ==
    /\ Answered("Config")
    /\ IF local
       THEN Goto("src", "pause") /\ UNCHANGED <<command, logging, dirty, table>>
       ELSE Send("Memory") /\ logging' = TRUE /\ dirty' = {} /\ table' = Pages
    /\ UNCHANGED <<vm, exit_evt, passes, open>>

\* vm_maybe_send_dirty_pages: the log is read and emptied.
SendDirty(next) ==
    /\ dirty # {}
    /\ table' = dirty
    /\ dirty' = {}
    /\ Send(next)

\* A slip: one pass too many.
DirtyPass_over ==
    /\ Answered("Memory")
    /\ \/ passes <= MAX_DIRTY_MIGRATIONS /\ passes' = passes + 1 /\ SendDirty("Memory")
       \/ /\ passes > MAX_DIRTY_MIGRATIONS \/ dirty = {}
          /\ Goto("src", "pause")
          /\ UNCHANGED <<command, passes, dirty, table>>
    /\ UNCHANGED <<vm, exit_evt, logging, open>>

DirtyPass ==
    /\ Answered("Memory")
    /\ \/ passes < MAX_DIRTY_MIGRATIONS /\ passes' = passes + 1 /\ SendDirty("Memory")
       \/ /\ passes = MAX_DIRTY_MIGRATIONS \/ dirty = {}
          /\ Goto("src", "pause")
          /\ UNCHANGED <<command, passes, dirty, table>>
    /\ UNCHANGED <<vm, exit_evt, logging, open>>

pause ==
    /\ pc["src"] = "pause"
    /\ vm["src"] \in {"Created", "Running"}
    /\ Set("src", "Paused")
    /\ Goto("src", "paused")
    /\ UNCHANGED <<vm_config, exit_evt, reset_evt, sending, stale, receiving, socket, history>>

\* A slip: what was written between the last pass and the pause is not sent.
LastPass_skipped ==
    /\ pc["src"] = "paused"
    /\ Send("State")
    /\ logging' = FALSE
    /\ UNCHANGED <<processes, local, passes, dirty, table, stale, receiving, socket, history>>

\* The pages written since the last pass, or the snapshot of the rest.
LastPass ==
    /\ pc["src"] = "paused"
    /\ \/ ~local /\ SendDirty("LastMemory") /\ UNCHANGED logging
       \/ (local \/ dirty = {}) /\ Send("State") /\ logging' = FALSE /\ UNCHANGED <<dirty, table>>
    /\ UNCHANGED <<processes, local, passes, stale, receiving, socket, history>>

stop_dirty_log ==
    /\ Answered("LastMemory")
    /\ logging' = FALSE
    /\ Send("State")
    /\ UNCHANGED <<vm, exit_evt, passes, dirty, table, open>>

SendComplete ==
    /\ Answered("State")
    /\ Send("Complete")
    /\ UNCHANGED <<vm, exit_evt, passes, logging, dirty, table, open>>

\* The VM of src is left as it is, and shut down by the exit event.
complete_migration ==
    /\ pc["src"] = "work" /\ command = "Complete"
    /\ exit_evt' = [exit_evt EXCEPT !["src"] = TRUE]
    /\ Returns("loop")
    /\ UNCHANGED <<vm_config, vm, reset_evt, logging, dirty, table, stale, receiving, request,
                   response, history>>

\* Any of what is done between the requests may fail.
StepFails ==
    /\ pc["src"] \in {"work", "pause", "paused"}
    /\ Fail
    /\ diverged' = (diverged \/ (pc["src"] = "work" /\ command = "Complete" /\ twin # "none"))
    /\ UNCHANGED <<processes, logging, dirty, table, stale, receiving, request, response, twin,
                   wanted>>

\* A slip: the source shuts down although the migration failed.
migration_failed_exits ==
    /\ pc["src"] = "failed"
    /\ Goto("src", "loop")
    /\ \/ UNCHANGED vm
       \/ vm["src"] = "Paused" /\ Set("src", "Running")
    /\ logging' = FALSE /\ dirty' = {} /\ table' = {} /\ stale' = {}      \* which nothing reads any more
    /\ exit_evt' = [exit_evt EXCEPT !["src"] = TRUE]
    /\ UNCHANGED <<vm_config, reset_evt, command, local, passes, receiving, socket,
                   history>>

\* The log is stopped, then the VM resumed; if the one fails, or the other, that is all.
\* A log that was not stopped is of no consequence: start_dirty_log empties it.
migration_failed ==
    /\ pc["src"] = "failed"
    /\ Goto("src", "loop")
    /\ \/ UNCHANGED vm
       \/ vm["src"] = "Paused" /\ Set("src", "Running")
    /\ logging' = FALSE /\ dirty' = {} /\ table' = {} /\ stale' = {}      \* which nothing reads any more
    /\ UNCHANGED <<vm_config, exit_evt, reset_evt, command, local, passes, receiving, socket,
                   history>>

SendMigration ==
    \/ send_request
    \/ \E p \in Pages : send_memory_regions(p)
    \/ read_response
    \/ SendConfig
    \/ start_dirty_log
    \/ DirtyPass
    \/ pause
    \/ LastPass
    \/ stop_dirty_log
    \/ SendComplete
    \/ complete_migration
    \/ StepFails
    \/ migration_failed

-----------------------------------------------------------------------------
(* vm_receive_migration.  src sends its requests in order: that a command   *)
(* comes before its time, which is answered with an error, does not happen. *)

\* Nobody looks whether there is a VM already; accept() has no timeout.
vm_receive_migration ==
    /\ pc["dst"] = "loop"
    /\ Goto("dst", "accept")
    /\ UNCHANGED <<processes, sending, stale, receiving, socket, history>>

\* The handler of a command leaves the loop, with or without an error, or does not.
Receives(cmd) ==
    /\ pc["dst"] = "receive"
    /\ request = cmd
    /\ request' = "None"
    /\ UNCHANGED <<exit_evt, reset_evt, sending>>

Answer(r) == response' = IF "src" \in open THEN r ELSE "None"

Continue == UNCHANGED <<pc, open>>

Return ==
    /\ Goto("dst", "loop")
    /\ open' = open \ {"dst"}
    /\ started' = FALSE /\ memory_manager' = FALSE

receive_start ==
    /\ Receives("Start")
    /\ started' = TRUE
    /\ Answer("ok") /\ Continue
    /\ UNCHANGED <<vm_config, vm, stale, memory_manager, history>>

\* The file may not come with the slot.
receive_memory_fd ==
    /\ Receives("MemoryFd")
    /\ started
    /\ \/ Answer("ok") /\ Continue /\ UNCHANGED receiving
       \/ Answer("None") /\ Return
    /\ UNCHANGED <<vm_config, vm, stale, history>>

\* The configuration is set before what may fail, or after.
vm_receive_config ==
    /\ Receives("Config")
    /\ started
    /\ \/ /\ vm_config' = [vm_config EXCEPT !["dst"] = TRUE]
          /\ memory_manager' = TRUE
          /\ stale' = IF local THEN {} ELSE Pages
          /\ Answer("ok") /\ Continue
          /\ UNCHANGED started
       \/ /\ vm_config' \in {vm_config, [vm_config EXCEPT !["dst"] = TRUE]}
          /\ Answer("None") /\ Return
          /\ UNCHANGED stale
    /\ UNCHANGED <<vm, history>>

\* A slip: memory that has come is not acknowledged.
vm_receive_memory_silent ==
    /\ Receives("Memory")
    /\ memory_manager
    /\ \/ table = {} /\ Answer("None") /\ Continue /\ UNCHANGED receiving
       \/ Answer("None") /\ Return
       \/ Answer("error") /\ Return
    /\ UNCHANGED <<vm_config, vm, stale, history>>

\* The pages are read as they come.
vm_receive_memory ==
    /\ Receives("Memory")
    /\ memory_manager
    /\ \/ table = {} /\ Answer("ok") /\ Continue /\ UNCHANGED receiving
       \/ Answer("None") /\ Return
       \/ Answer("error") /\ Return
    /\ UNCHANGED <<vm_config, vm, stale, history>>

\* A slip: the destination does not wait for Complete.
vm_receive_state_resumes ==
    /\ Receives("State")
    /\ memory_manager
    /\ memory_manager' = FALSE
    /\ \/ /\ Set("dst", "Running")
          /\ IF "src" \in open
             THEN twin' = "copy" /\ diverged' = FALSE /\ UNCHANGED wanted
             ELSE Ends("dst")
          /\ Answer("ok") /\ Continue
          /\ UNCHANGED started
       \/ Answer("None") /\ Return /\ UNCHANGED <<vm, history>>
       \/ Answer("error") /\ Return /\ UNCHANGED <<vm, history>>
    /\ UNCHANGED <<vm_config, stale>>

\* The VM that dst had is dropped for the one received, which is a copy of what src has
\* as long as src has not given up.
vm_receive_state ==
    /\ Receives("State")
    /\ memory_manager
    /\ memory_manager' = FALSE
    /\ \/ /\ Set("dst", "Paused")
          /\ IF "src" \in open
             THEN twin' = "copy" /\ diverged' = FALSE /\ UNCHANGED wanted
             ELSE Ends("dst")
          /\ Answer("ok") /\ Continue
          /\ UNCHANGED started
       \/ Answer("None") /\ Return /\ UNCHANGED <<vm, history>>
       \/ Answer("error") /\ Return /\ UNCHANGED <<vm, history>>
    /\ UNCHANGED <<vm_config, stale>>

\* A process that was told to exit takes the VM with it.
receive_complete ==
    /\ Receives("Complete")
    /\ Return
    /\ \/ /\ Set("dst", "Running")
          /\ twin' = IF twin = "copy" THEN "taken" ELSE twin
          /\ wanted' = (wanted /\ ~exit_evt["dst"])
          /\ Answer("ok")
       \/ UNCHANGED <<vm, twin, wanted, response>>
    /\ UNCHANGED <<vm_config, stale, diverged>>

receive_fails ==
    /\ pc["dst"] = "receive"
    /\ request = "None" /\ "src" \notin open
    /\ Return
    /\ UNCHANGED <<processes, sending, stale, request, response, history>>

ReceiveMigration ==
    \/ receive_start
    \/ receive_memory_fd
    \/ vm_receive_config
    \/ vm_receive_memory
    \/ vm_receive_state
    \/ receive_complete
    \/ receive_fails

-----------------------------------------------------------------------------
(* The guest, the network and the host.                                     *)

\* Only what is written once the destination has memory matters, when it is not shared.
GuestWrites(p) ==
    /\ vm["src"] = "Running"
    /\ pc["src"] \notin {"loop", "gone", "failed"} /\ ~local
    /\ command \notin {"Start", "MemoryFd"}
    /\ stale' = stale \union {p}
    /\ dirty' = IF logging THEN dirty \union {p} ELSE dirty
    /\ UNCHANGED <<processes, pc, command, local, passes, logging, table, receiving, socket, history>>

\* A guest asks for the one or the other: the vCPU that asked has ended.
Asks(h) ==
    /\ vm[h] = "Running" /\ ~reset_evt[h] /\ ~exit_evt[h]
    /\ Cardinality({o \in Vmms : reset_evt[o] \/ exit_evt[o]}) < MaxAsked

GuestResets(h) ==
    /\ Asks(h)
    /\ reset_evt' = [reset_evt EXCEPT ![h] = TRUE]
    /\ UNCHANGED <<vm_config, vm, exit_evt, pc, sending, stale, receiving, socket, history>>

GuestShutsDown(h) ==
    /\ Asks(h)
    /\ exit_evt' = [exit_evt EXCEPT ![h] = TRUE]
    /\ wanted' = (wanted /\ Elsewhere(h))
    /\ UNCHANGED <<vm_config, vm, reset_evt, pc, sending, stale, receiving, socket, twin, diverged>>

\* The connection is lost for one end, or for both, with what is on its way there.
Cut(ends) ==
    /\ open' = open \ ends
    /\ request' = IF "src" \in ends THEN "None" ELSE request
    /\ response' = IF "dst" \in ends THEN "None" ELSE response
    /\ UNCHANGED <<processes, pc, sending, stale, receiving, history>>

Crash(h) ==
    /\ pc[h] # "gone"
    /\ Gone(h)
    /\ Ends(h)

Next ==
    \/ \E h \in Vmms : Request(h) \/ ExitEvent(h)
    \/ \E fds \in BOOLEAN : vm_send_migration(fds)
    \/ SendMigration
    \/ vm_receive_migration
    \/ ReceiveMigration
    \/ \E p \in Pages : GuestWrites(p)
    \/ \E h \in Vmms : GuestResets(h) \/ GuestShutsDown(h) \/ Crash(h)
    \/ \E ends \in (SUBSET open) \ {{}} : Cut(ends)

Spec == Init /\ [][Next]_vars

\* The two threads run, and a blocking read or write returns when it can.
FairSpec ==
    /\ Spec
    /\ WF_vars(SendMigration)
    /\ WF_vars(ReceiveMigration)

-----------------------------------------------------------------------------
TypeOK ==
    /\ vm_config \in [Vmms -> BOOLEAN]
    /\ vm \in [Vmms -> VmStates \union {"None"}]
    /\ exit_evt \in [Vmms -> BOOLEAN] /\ reset_evt \in [Vmms -> BOOLEAN]
    /\ pc \in [Vmms -> Places]
    /\ command \in Commands \union {"LastMemory"}
    /\ local \in BOOLEAN /\ passes \in 0..MAX_DIRTY_MIGRATIONS /\ logging \in BOOLEAN
    /\ dirty \subseteq Pages /\ table \subseteq Pages /\ stale \subseteq Pages
    /\ started \in BOOLEAN /\ memory_manager \in BOOLEAN
    /\ open \subseteq Vmms
    /\ request \in Commands \union {"None"} /\ response \in {"None", "ok", "error"}
    /\ twin \in {"none", "copy", "taken"} /\ diverged \in BOOLEAN /\ wanted \in BOOLEAN

\* The destination takes over a VM whose memory is, page for page, what the VM had
\* when the source stopped it: no write of the guest falls between two passes over
\* the dirty log, between the last pass and the pause, or behind a broken socket.
\* (Unless the source has given up on the migration and gone on with the VM.)
HandsOverAllMemory ==
    [][twin' = "taken" /\ twin # "taken" /\ ~diverged => stale = {} /\ vm["src"] # "Running"]_vars

\* The VM and its copy run at the same time only when the Complete of a migration
\* went unanswered or complete_migration failed, or when a request or a reset event
\* ran the one behind the back of the other.
OneCopyRuns ==
    twin # "none" /\ vm["src"] = "Running" /\ vm["dst"] = "Running" => diverged

\* The VM is always somewhere: whatever message, connection or process is lost during a
\* migration, the source keeps it until the destination has taken it over.
NeverLost ==
    wanted => \/ vm["src"] \in {"Running", "Paused"}
              \/ twin # "none" /\ vm["dst"] \in {"Running", "Paused"}

\* Neither end of a migration waits for ever for the other, however it goes.
MigrationEnds ==
    /\ pc["src"] \notin {"loop", "gone"} ~> pc["src"] \in {"loop", "gone"}
    /\ pc["dst"] = "receive" ~> pc["dst"] # "receive"
================================================================================
