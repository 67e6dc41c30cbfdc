------------------------------ MODULE VmmProofs ------------------------------
(***************************************************************************)
(* Module Vmm for any number of pages and of dirty passes: every step      *)
(* keeps the types, the VM is never lost, it is taken over with all of its *)
(* memory, its copies run at the same time only when something other than  *)
(* the migration ran one, and the two ends of a migration never wait for   *)
(* each other.                                                             *)
(***************************************************************************)
EXTENDS Vmm, TLAPS

-----------------------------------------------------------------------------
(* Types                                                                    *)

\* The type invariant, in the parts that steps change together.
ProcessesType ==
    /\ vm_config \in [Vmms -> BOOLEAN]
    /\ vm \in [Vmms -> VmStates \union {"None"}]
    /\ exit_evt \in [Vmms -> BOOLEAN]
    /\ reset_evt \in [Vmms -> BOOLEAN]
    /\ pc \in [Vmms -> Places]

SendingType ==
    /\ command \in Commands \union {"LastMemory"}
    /\ local \in BOOLEAN
    /\ passes \in 0..MAX_DIRTY_MIGRATIONS
    /\ logging \in BOOLEAN
    /\ dirty \subseteq Pages
    /\ table \subseteq Pages
    /\ stale \subseteq Pages

SocketType ==
    /\ started \in BOOLEAN
    /\ memory_manager \in BOOLEAN
    /\ open \subseteq Vmms
    /\ request \in Commands \union {"None"}
    /\ response \in {"None", "ok", "error"}

HistoryType ==
    /\ twin \in {"none", "copy", "taken"}
    /\ diverged \in BOOLEAN
    /\ wanted \in BOOLEAN

\* What a change of one process leaves a function of the processes.
LEMMA ExceptBoolean ==
    ASSUME NEW f \in [Vmms -> BOOLEAN], NEW h \in Vmms, NEW b \in BOOLEAN
    PROVE  [f EXCEPT ![h] = b] \in [Vmms -> BOOLEAN]
OBVIOUS

\* The end, the start and the run of a VM keep the types of what is remembered of it.
LEMMA HistoryTypes ==
    ASSUME TypeOK, NEW h \in Vmms, NEW b \in BOOLEAN, Ends(h) \/ Begins(h, b) \/ Runs(h)
    PROVE  HistoryType'
<1>1. twin' \in {"none", "copy", "taken"}
  BY Zenon DEF TypeOK, Ends, Begins, Runs, history
<1>2. diverged' \in BOOLEAN /\ wanted' \in BOOLEAN
  BY Zenon DEF TypeOK, Ends, Begins, Runs, history, Vmms
<1> QED
  BY <1>1, <1>2, Zenon DEF HistoryType

\* The end of a process keeps the types.
LEMMA GoneTypes ==
    ASSUME TypeOK, NEW h \in Vmms, Gone(h), HistoryType'
    PROVE  TypeOK'
<1> USE DEF Gone, TypeOK
<1>1. vm_config' \in [Vmms -> BOOLEAN] /\ exit_evt' \in [Vmms -> BOOLEAN]
  BY ExceptBoolean, Zenon
<1>2. reset_evt' \in [Vmms -> BOOLEAN]
  BY ExceptBoolean, Zenon
<1>3. vm' \in [Vmms -> VmStates \union {"None"}] /\ pc' \in [Vmms -> Places]
  BY Zenon DEF Set, Goto, Places
<1>4. command' \in Commands \union {"LastMemory"} /\ passes' \in 0..MAX_DIRTY_MIGRATIONS
  BY MigrationAssumption DEF sending, Commands
<1>5. /\ local' \in BOOLEAN /\ logging' \in BOOLEAN
      /\ started' \in BOOLEAN /\ memory_manager' \in BOOLEAN
  BY Zenon DEF sending, receiving
<1>6. dirty' \subseteq Pages /\ table' \subseteq Pages /\ stale' \subseteq Pages
  BY Zenon DEF sending
<1>7. /\ open' \subseteq Vmms
      /\ request' \in Commands \union {"None"} /\ response' \in {"None", "ok", "error"}
  BY Zenon DEF Vmms
<1> QED
  BY <1>1, <1>2, <1>3, <1>4, <1>5, <1>6, <1>7, Zenon DEF HistoryType

\* The number of passes may always be reset.
LEMMA NoPasses == 0 \in 0..MAX_DIRTY_MIGRATIONS
BY MigrationAssumption

\* A request keeps the types when what it changes keeps them.
LEMMA HandlesTypes ==
    ASSUME TypeOK, NEW h \in Vmms, Handles(h), HistoryType',
           vm_config' \in [Vmms -> BOOLEAN],
           reset_evt' \in [Vmms -> BOOLEAN],
           vm' \in [Vmms -> VmStates \union {"None"}]
    PROVE  TypeOK'
<1>1. exit_evt' \in [Vmms -> BOOLEAN] /\ pc' \in [Vmms -> Places]
  BY Zenon DEF TypeOK, Handles
<1> QED
  BY <1>1, Zenon DEF TypeOK, Handles, HistoryType, sending, receiving, socket

\* Every request and event keeps the types.
LEMMA RequestTypes ==
    ASSUME TypeOK, NEW h \in Vmms, Request(h) \/ ExitEvent(h) \/ Crash(h)
    PROVE  TypeOK'
<1> DEFINE Configs == vm_config' \in [Vmms -> BOOLEAN]
<1> DEFINE Events == reset_evt' \in [Vmms -> BOOLEAN]
<1> DEFINE States == vm' \in [Vmms -> VmStates \union {"None"}]
<1>1. UNCHANGED vm_config => Configs
  BY Zenon DEF TypeOK
<1>2. UNCHANGED reset_evt => Events
  BY Zenon DEF TypeOK
<1>3. ASSUME NEW s \in VmStates \union {"None"}, Set(h, s)
      PROVE  States
  BY <1>3, Zenon DEF TypeOK, Set
<1>4. UNCHANGED history => HistoryType'
  BY Zenon DEF TypeOK, HistoryType, history
<1>5. UNCHANGED vm => States
  BY Zenon DEF TypeOK
<1>6. \A s \in VmStates \union {"None"} : Set(h, s) => States
  BY <1>3, Zenon
<1> HIDE DEF Configs, Events, States
<1>7. CASE vm_create(h)
  <2>1. Configs
    BY <1>7, ExceptBoolean, Zenon DEF vm_create, TypeOK, Configs
  <2> QED
    BY <1>7, <2>1, <1>2, <1>4, <1>5, HandlesTypes, Zenon DEF vm_create, Configs, Events, States
<1>8. CASE vm_boot(h)
  <2>1. HistoryType'
    BY <1>8, HistoryTypes, Zenon DEF vm_boot
  <2>2. States
    BY <1>8, <1>6, Zenon DEF vm_boot, VmStates
  <2> QED
    BY <1>8, <2>1, <2>2, <1>1, <1>2, HandlesTypes, Zenon DEF vm_boot, Configs, Events, States
<1>9. CASE vm_pause(h)
  <2>1. States
    BY <1>9, <1>6, Zenon DEF vm_pause, VmStates
  <2> QED
    BY <1>9, <2>1, <1>1, <1>2, <1>4, HandlesTypes, Zenon DEF vm_pause, Configs, Events, States
<1>10. CASE vm_resume(h)
  <2>1. HistoryType'
    BY <1>10, HistoryTypes, Zenon DEF vm_resume
  <2>2. States
    BY <1>10, <1>6, Zenon DEF vm_resume, VmStates
  <2> QED
    BY <1>10, <2>1, <2>2, <1>1, <1>2, HandlesTypes, Zenon DEF vm_resume, Configs, Events, States
<1>11. CASE vm_restore(h)
  <2>1. HistoryType'
    BY <1>11, <1>4, HistoryTypes, Zenon DEF vm_restore, history
  <2>2. States
    BY <1>11, <1>5, <1>6, Zenon DEF vm_restore, VmStates
  <2>3. Configs
    BY <1>11, ExceptBoolean, Zenon DEF vm_restore, TypeOK, Configs
  <2> QED
    BY <1>11, <2>1, <2>2, <2>3, <1>2, HandlesTypes, Zenon DEF vm_restore, Configs, Events, States
<1>12. CASE vm_shutdown(h)
  <2>1. HistoryType'
    BY <1>12, HistoryTypes, Zenon DEF vm_shutdown
  <2>2. States
    BY <1>12, <1>6, Zenon DEF vm_shutdown
  <2> QED
    BY <1>12, <2>1, <2>2, <1>1, <1>2, HandlesTypes, Zenon DEF vm_shutdown, Configs, Events, States
<1>13. CASE vm_delete(h)
  <2>1. HistoryType'
    BY <1>13, HistoryTypes, Zenon DEF vm_delete
  <2>2. States
    BY <1>13, <1>6, Zenon DEF vm_delete
  <2>3. Configs
    BY <1>13, ExceptBoolean, Zenon DEF vm_delete, TypeOK, Configs
  <2> QED
    BY <1>13, <2>1, <2>2, <2>3, <1>2, HandlesTypes, Zenon DEF vm_delete, Configs, Events, States
<1>14. CASE vm_reboot(h)
  <2>1. HistoryType'
    BY <1>14, HistoryTypes, Zenon DEF vm_reboot
  <2>2. States
    BY <1>14, <1>6, Zenon DEF vm_reboot, VmStates
  <2>3. Events
    <3>1. CASE reset_evt' = [reset_evt EXCEPT ![h] = FALSE]
      BY <3>1, ExceptBoolean, Zenon DEF TypeOK, Events
    <3>2. CASE UNCHANGED reset_evt
      BY <3>2, <1>2, Zenon
    <3> QED
      BY <1>14, <3>1, <3>2, Zenon DEF vm_reboot
  <2> QED
    BY <1>14, <2>1, <2>2, <2>3, <1>1, HandlesTypes, Zenon DEF vm_reboot, Configs, Events, States
<1>15. CASE vmm_shutdown(h) \/ Crash(h)
  BY <1>15, HistoryTypes, GoneTypes, Zenon DEF vmm_shutdown, Crash
<1>16. CASE ExitEvent(h)
  <2>1. HistoryType'
    BY <1>16, Zenon DEF ExitEvent, TypeOK, HistoryType
  <2> QED
    BY <1>16, <2>1, GoneTypes, Zenon DEF ExitEvent
<1>17. CASE ResetEvent(h)
  <2>1. HistoryType'
    BY <1>17, HistoryTypes, Zenon DEF ResetEvent
  <2>2. CASE Gone(h)
    BY <2>1, <2>2, GoneTypes, Zenon
  <2>3. CASE /\ Handles(h) /\ Set(h, "Running") /\ UNCHANGED vm_config
             /\ reset_evt' = [reset_evt EXCEPT ![h] = FALSE]
    <3>1. Events
      BY <2>3, ExceptBoolean, Zenon DEF TypeOK, Events
    <3>2. States
      BY <2>3, <1>6, Zenon DEF VmStates
    <3> QED
      BY <2>1, <2>3, <3>1, <3>2, <1>1, HandlesTypes, Zenon DEF Configs, Events, States
  <2> QED
    BY <1>17, <2>2, <2>3, Zenon DEF ResetEvent
<1> QED
  BY <1>7, <1>8, <1>9, <1>10, <1>11, <1>12, <1>13, <1>14, <1>15, <1>16, <1>17, Zenon DEF Request

\* The type invariant is its parts.
LEMMA TypeParts ==
    /\ TypeOK <=> ProcessesType /\ SendingType /\ SocketType /\ HistoryType
    /\ TypeOK' <=> ProcessesType' /\ SendingType' /\ SocketType' /\ HistoryType'
BY Zenon DEF TypeOK, ProcessesType, SendingType, SocketType, HistoryType

\* Every step of send_migration keeps the types.
LEMMA SendTypes ==
    ASSUME TypeOK, SendMigration
    PROVE  TypeOK'
<1>0. ProcessesType /\ SendingType /\ SocketType /\ HistoryType
  BY TypeParts, Zenon
<1>1. CASE send_request
  <2>1. CASE Panic
    BY <2>1, GoneTypes, HistoryTypes, Zenon DEF Panic, Vmms
  <2>2. CASE ~Panic
    <3>1. ProcessesType'
      BY <1>0, <1>1, <2>2, Zenon
         DEF ProcessesType, send_request, Fail, Returns, processes, Goto, Places, Vmms
    <3>2. SendingType'
      BY <1>0, <1>1, <2>2, NoPasses, Zenon
         DEF SendingType, send_request, Fail, Returns, sending, Commands
    <3>3. SocketType' /\ HistoryType'
      BY <1>0, <1>1, <2>2
         DEF SocketType, HistoryType, SendingType, send_request, Fail, Returns, Wire, sending,
             receiving, socket, history, Commands
    <3> QED
      BY <3>1, <3>2, <3>3, TypeParts, Zenon
  <2> QED
    BY <2>1, <2>2, Zenon
<1>2. CASE \E p \in Pages : send_memory_regions(p)
  <2>1. ProcessesType'
    BY <1>0, <1>2, Zenon
       DEF ProcessesType, send_memory_regions, Fail, Returns, processes, Goto, Set, Places,
           Vmms, VmStates
  <2>2. SendingType'
    BY <1>0, <1>2, NoPasses, Zenon
       DEF SendingType, send_memory_regions, Fail, Returns, sending, Commands
  <2>3. SocketType'
    BY <1>0, <1>2, Zenon
       DEF SocketType, send_memory_regions, Fail, Returns, receiving, socket, Commands, Vmms
  <2>4. HistoryType'
    BY <1>0, <1>2, Zenon DEF HistoryType, send_memory_regions, Fail, Returns, history
  <2> QED
    BY <2>1, <2>2, <2>3, <2>4, TypeParts, Zenon
<1>3. CASE read_response
  <2>1. ProcessesType'
    BY <1>0, <1>3, ZenonT(40)
       DEF ProcessesType, read_response, Fail, Returns, processes, Goto, Set, Places, Vmms,
           VmStates
  <2>2. SendingType'
    BY <1>0, <1>3, NoPasses, Zenon DEF SendingType, read_response, Fail, Returns, sending, Commands
  <2>3. SocketType'
    BY <1>0, <1>3, Zenon
       DEF SocketType, read_response, Fail, Returns, receiving, socket, Commands, Vmms
  <2>4. HistoryType'
    BY <1>0, <1>3, Zenon DEF HistoryType, read_response, Fail, Returns, history
  <2> QED
    BY <2>1, <2>2, <2>3, <2>4, TypeParts, Zenon
<1>4. CASE SendConfig
  BY <1>4
     DEF TypeOK, SendConfig, Answered, Send, Goto, Set, Vmms, VmStates, Places, Commands,
         processes, sending, receiving, socket, history
<1>5. CASE start_dirty_log
  <2>1. ProcessesType'
    BY <1>0, <1>5, Zenon
       DEF ProcessesType, start_dirty_log, Answered, Send, processes, Goto, Set, Places, Vmms,
           VmStates
  <2>2. SendingType'
    BY <1>0, <1>5, Zenon DEF SendingType, start_dirty_log, Answered, Send, sending, Commands
  <2>3. SocketType'
    BY <1>0, <1>5, Zenon
       DEF SocketType, start_dirty_log, Answered, Send, receiving, socket, Commands, Vmms
  <2>4. HistoryType'
    BY <1>0, <1>5, Zenon DEF HistoryType, start_dirty_log, Answered, Send, history
  <2> QED
    BY <2>1, <2>2, <2>3, <2>4, TypeParts, Zenon
<1>6. CASE DirtyPass
  <2>1. ProcessesType'
    BY <1>0, <1>6, ZenonT(40)
       DEF ProcessesType, DirtyPass, Answered, SendDirty, Send, processes, Goto, Set, Places,
           Vmms, VmStates
  <2>2. SendingType'
    BY <1>0, <1>6, MigrationAssumption
       DEF SendingType, DirtyPass, Answered, SendDirty, Send, sending, Commands
  <2>3. SocketType'
    BY <1>0, <1>6, Zenon
       DEF SocketType, DirtyPass, Answered, SendDirty, Send, receiving, socket, Commands, Vmms
  <2>4. HistoryType'
    BY <1>0, <1>6, Zenon DEF HistoryType, DirtyPass, Answered, SendDirty, Send, history
  <2> QED
    BY <2>1, <2>2, <2>3, <2>4, TypeParts, Zenon
<1>7. CASE pause
  BY <1>7
     DEF TypeOK, pause, Goto, Set, Vmms, VmStates, Places, Commands, processes, sending,
         receiving, socket, history
<1>8. CASE LastPass
  <2>1. ProcessesType'
    BY <1>0, <1>8, ZenonT(40)
       DEF ProcessesType, LastPass, SendDirty, Send, processes, Goto, Set, Places, Vmms,
           VmStates
  <2>2. SendingType'
    BY <1>0, <1>8, Zenon DEF SendingType, LastPass, SendDirty, Send, sending, Commands
  <2>3. SocketType'
    BY <1>0, <1>8, Zenon DEF SocketType, LastPass, SendDirty, Send, receiving, socket, Commands, Vmms
  <2>4. HistoryType'
    BY <1>0, <1>8, Zenon DEF HistoryType, LastPass, SendDirty, Send, history
  <2> QED
    BY <2>1, <2>2, <2>3, <2>4, TypeParts, Zenon
<1>9. CASE stop_dirty_log
  <2>1. ProcessesType'
    BY <1>0, <1>9, Zenon
       DEF ProcessesType, stop_dirty_log, Answered, Send, processes, Goto, Set, Places, Vmms,
           VmStates
  <2>2. SendingType'
    BY <1>0, <1>9, Zenon DEF SendingType, stop_dirty_log, Answered, Send, sending, Commands
  <2>3. SocketType'
    BY <1>0, <1>9, Zenon
       DEF SocketType, stop_dirty_log, Answered, Send, receiving, socket, Commands, Vmms
  <2>4. HistoryType'
    BY <1>0, <1>9, Zenon DEF HistoryType, stop_dirty_log, Answered, Send, history
  <2> QED
    BY <2>1, <2>2, <2>3, <2>4, TypeParts, Zenon
<1>10. CASE SendComplete
  BY <1>10
     DEF TypeOK, SendComplete, Answered, Send, Goto, Set, Vmms, VmStates, Places, Commands,
         processes, sending, receiving, socket, history
<1>11. CASE complete_migration
  <2>1. ProcessesType'
    BY <1>0, <1>11, Zenon
       DEF ProcessesType, complete_migration, Returns, processes, Goto, Set, Places, Vmms,
           VmStates
  <2>2. SendingType'
    BY <1>0, <1>11, NoPasses, Zenon DEF SendingType, complete_migration, Returns, sending, Commands
  <2>3. SocketType'
    BY <1>0, <1>11, Zenon
       DEF SocketType, complete_migration, Returns, receiving, socket, Commands, Vmms
  <2>4. HistoryType'
    BY <1>0, <1>11, Zenon DEF HistoryType, complete_migration, Returns, history
  <2> QED
    BY <2>1, <2>2, <2>3, <2>4, TypeParts, Zenon
<1>12. CASE StepFails
  <2>1. ProcessesType'
    BY <1>0, <1>12, Zenon
       DEF ProcessesType, StepFails, Fail, Returns, processes, Goto, Set, Places, Vmms,
           VmStates
  <2>2. SendingType'
    BY <1>0, <1>12, NoPasses, Zenon DEF SendingType, StepFails, Fail, Returns, sending, Commands
  <2>3. SocketType'
    BY <1>0, <1>12, Zenon DEF SocketType, StepFails, Fail, Returns, receiving, socket, Commands, Vmms
  <2>4. HistoryType'
    BY <1>0, <1>12, Zenon DEF HistoryType, StepFails, Fail, Returns, history
  <2> QED
    BY <2>1, <2>2, <2>3, <2>4, TypeParts, Zenon
<1>13. CASE migration_failed
  <2>1. ProcessesType'
    BY <1>0, <1>13, Zenon
       DEF ProcessesType, migration_failed, processes, Goto, Set, Places, Vmms, VmStates
  <2>2. SendingType'
    BY <1>0, <1>13, Zenon DEF SendingType, migration_failed, sending, Commands
  <2>3. SocketType'
    BY <1>0, <1>13, Zenon DEF SocketType, migration_failed, receiving, socket, Commands, Vmms
  <2>4. HistoryType'
    BY <1>0, <1>13, Zenon DEF HistoryType, migration_failed, history
  <2> QED
    BY <2>1, <2>2, <2>3, <2>4, TypeParts, Zenon
<1> QED
  BY <1>1, <1>2, <1>3, <1>4, <1>5, <1>6, <1>7, <1>8, <1>9, <1>10, <1>11, <1>12, <1>13, Zenon
     DEF SendMigration

\* Every step of vm_receive_migration keeps the types.
LEMMA ReceiveTypes ==
    ASSUME TypeOK, ReceiveMigration
    PROVE  TypeOK'
<1>0. ProcessesType /\ SendingType /\ SocketType /\ HistoryType
  BY TypeParts, Zenon
<1>1. CASE receive_start
  BY <1>1, ZenonT(40)
     DEF TypeOK, receive_start, Receives, Answer, Continue, Return, Goto, Set, Vmms, VmStates,
         Places, Commands, processes, sending, receiving, socket, history
<1>2. CASE receive_memory_fd
  BY <1>2, ZenonT(40)
     DEF TypeOK, receive_memory_fd, Receives, Answer, Continue, Return, Goto, Set, Vmms,
         VmStates, Places, Commands, processes, sending, receiving, socket, history
<1>3. CASE vm_receive_config
  <2>1. ProcessesType'
    BY <1>0, <1>3, ZenonT(40)
       DEF ProcessesType, vm_receive_config, Receives, Answer, Continue, Return, processes,
           Goto, Set, Places, Vmms, VmStates
  <2>2. SendingType'
    BY <1>0, <1>3, Zenon
       DEF SendingType, vm_receive_config, Receives, Answer, Continue, Return, sending,
           Commands
  <2>3. SocketType'
    BY <1>0, <1>3, Zenon
       DEF SocketType, vm_receive_config, Receives, Answer, Continue, Return, receiving,
           socket, Commands, Vmms
  <2>4. HistoryType'
    BY <1>0, <1>3, Zenon
       DEF HistoryType, vm_receive_config, Receives, Answer, Continue, Return, history
  <2> QED
    BY <2>1, <2>2, <2>3, <2>4, TypeParts, Zenon
<1>4. CASE vm_receive_memory
  <2>1. ProcessesType'
    BY <1>0, <1>4, Zenon
       DEF ProcessesType, vm_receive_memory, Receives, Answer, Continue, Return, processes,
           Goto, Set, Places, Vmms, VmStates
  <2>2. SendingType'
    BY <1>0, <1>4, Zenon
       DEF SendingType, vm_receive_memory, Receives, Answer, Continue, Return, sending,
           Commands
  <2>3. SocketType'
    BY <1>0, <1>4, Zenon
       DEF SocketType, vm_receive_memory, Receives, Answer, Continue, Return, receiving,
           socket, Commands, Vmms
  <2>4. HistoryType'
    BY <1>0, <1>4, Zenon
       DEF HistoryType, vm_receive_memory, Receives, Answer, Continue, Return, history
  <2> QED
    BY <2>1, <2>2, <2>3, <2>4, TypeParts, Zenon
<1>5. CASE vm_receive_state
  <2>1. ProcessesType'
    BY <1>0, <1>5, Zenon
       DEF ProcessesType, vm_receive_state, Ends, Receives, Answer, Continue, Return,
           processes, Goto, Set, Places, Vmms, VmStates
  <2>2. SendingType'
    BY <1>0, <1>5, Zenon
       DEF SendingType, vm_receive_state, Ends, Receives, Answer, Continue, Return, sending,
           Commands
  <2>3. SocketType'
    BY <1>0, <1>5, Zenon
       DEF SocketType, vm_receive_state, Ends, Receives, Answer, Continue, Return, receiving,
           socket, Commands, Vmms
  <2>4. HistoryType'
    BY <1>0, <1>5, Zenon
       DEF HistoryType, vm_receive_state, Ends, Receives, Answer, Continue, Return, history
  <2> QED
    BY <2>1, <2>2, <2>3, <2>4, TypeParts, Zenon
<1>6. CASE receive_complete
  <2>1. ProcessesType'
    BY <1>0, <1>6, Zenon
       DEF ProcessesType, receive_complete, Receives, Answer, Continue, Return, processes,
           Goto, Set, Places, Vmms, VmStates
  <2>2. SendingType'
    BY <1>0, <1>6, Zenon
       DEF SendingType, receive_complete, Receives, Answer, Continue, Return, sending,
           Commands
  <2>3. SocketType'
    BY <1>0, <1>6, Zenon
       DEF SocketType, receive_complete, Receives, Answer, Continue, Return, receiving,
           socket, Commands, Vmms
  <2>4. HistoryType'
    BY <1>0, <1>6, Zenon DEF HistoryType, receive_complete, Receives, Answer, Continue, Return, history
  <2> QED
    BY <2>1, <2>2, <2>3, <2>4, TypeParts, Zenon
<1>7. CASE receive_fails
  BY <1>7, ZenonT(40)
     DEF TypeOK, receive_fails, Receives, Answer, Continue, Return, Goto, Set, Vmms, VmStates,
         Places, Commands, processes, sending, receiving, socket, history
<1> QED
  BY <1>1, <1>2, <1>3, <1>4, <1>5, <1>6, <1>7, Zenon DEF ReceiveMigration

\* The start of a migration keeps the types.
LEMMA StartTypes ==
    ASSUME TypeOK, NEW fds \in BOOLEAN, vm_send_migration(fds)
    PROVE  TypeOK'
<1>0. ProcessesType /\ SendingType /\ SocketType /\ HistoryType
  BY TypeParts, Zenon
<1>1. CASE Panic
  BY <1>1, GoneTypes, HistoryTypes, Zenon DEF Panic, Vmms
<1>2. CASE ~Panic
  <2>1. ProcessesType'
    BY <1>0, <1>2, ZenonT(40) DEF ProcessesType, vm_send_migration, processes, Goto, Places, Vmms
  <2>2. SendingType'
    BY <1>0, <1>2, NoPasses, Zenon DEF SendingType, vm_send_migration, sending, Commands
  <2>3. SocketType' /\ HistoryType'
    BY <1>0, <1>2, Zenon
       DEF SocketType, HistoryType, vm_send_migration, receiving, socket, history, Commands
  <2> QED
    BY <2>1, <2>2, <2>3, TypeParts, Zenon
<1> QED
  BY <1>1, <1>2, Zenon

\* Every step keeps the types.
LEMMA TypeStep == TypeOK /\ [Next]_vars => TypeOK'
<1> SUFFICES ASSUME TypeOK, [Next]_vars PROVE TypeOK'
  OBVIOUS
<1>1. ASSUME NEW h \in Vmms, Request(h) \/ ExitEvent(h) \/ Crash(h)
      PROVE  TypeOK'
  BY <1>1, RequestTypes, Zenon
<1>2. ASSUME NEW fds \in BOOLEAN, vm_send_migration(fds)
      PROVE  TypeOK'
  BY <1>2, StartTypes, Zenon
<1>3. CASE SendMigration
  BY <1>3, SendTypes, Zenon
<1>4. CASE ReceiveMigration
  BY <1>4, ReceiveTypes, Zenon
<1>5. CASE vm_receive_migration
  BY <1>5
     DEF TypeOK, vm_receive_migration, Goto, Vmms, Places, processes, sending, receiving, socket,
         history
<1>6. ASSUME NEW p \in Pages, GuestWrites(p)
      PROVE  TypeOK'
  BY <1>6, ZenonT(40) DEF TypeOK, GuestWrites, processes, receiving, socket, history
<1>7. ASSUME NEW h \in Vmms, GuestResets(h) \/ GuestShutsDown(h)
      PROVE  TypeOK'
  <2>1. /\ reset_evt' \in [Vmms -> BOOLEAN]
        /\ exit_evt' \in [Vmms -> BOOLEAN]
    BY <1>7, ExceptBoolean, Zenon DEF TypeOK, GuestResets, GuestShutsDown
  <2>2. HistoryType'
    BY <1>7, Zenon DEF TypeOK, HistoryType, GuestResets, GuestShutsDown, history
  <2> QED
    BY <1>7, <2>1, <2>2, Zenon
       DEF TypeOK, HistoryType, GuestResets, GuestShutsDown, sending, receiving, socket
<1>8. ASSUME NEW ends \in (SUBSET open) \ {{}}, Cut(ends)
      PROVE  TypeOK'
  BY <1>8, Zenon DEF TypeOK, Cut, processes, sending, receiving, history
<1>9. CASE UNCHANGED vars
  BY <1>9 DEF TypeOK, vars, processes, sending, receiving, socket, history
<1> QED
  BY <1>1, <1>2, <1>3, <1>4, <1>5, <1>6, <1>7, <1>8, <1>9, Zenon DEF Next

\* Every variable has its type: of the passes over the dirty pages, that there are never
\* more than MAX_DIRTY_MIGRATIONS before the VM is paused.
THEOREM TypeCorrect == Spec => []TypeOK
<1>1. Init => TypeOK
  <2> SUFFICES ASSUME Init PROVE TypeOK
    OBVIOUS
  <2>1. ProcessesType
    BY Zenon DEF Init, ProcessesType, Places
  <2>2. SendingType /\ SocketType /\ HistoryType
    BY NoPasses, Zenon DEF Init, SendingType, SocketType, HistoryType, Commands
  <2> QED
    BY <2>1, <2>2, TypeParts, Zenon
<1> QED
  BY <1>1, TypeStep, PTL DEF Spec

-----------------------------------------------------------------------------
(* The inductive invariant                                                  *)

\* Where src is inside send_migration.
Sending == {"send", "pages", "await", "work", "pause", "paused"}

\* Only src sends, only dst receives, and a process that is gone has nothing.
PlaceInv ==
    /\ pc["src"] \in Sending \union {"loop", "gone", "failed"}
    /\ pc["dst"] \in {"loop", "gone", "accept", "receive"}
    /\ pc["src"] = "gone" => vm["src"] = "None" /\ ~exit_evt["src"]
    /\ pc["dst"] = "gone" => vm["dst"] = "None" /\ ~exit_evt["dst"]

\* An end of the socket is open only inside the handler that has it.  What is on its way
\* to dst is the request src waits for the answer of, unless src has given up.
SocketInv ==
    /\ "src" \in open => pc["src"] \in Sending
    /\ "dst" \in open => pc["dst"] = "receive"
    /\ request # "None" => pc["dst"] = "receive"
    /\ request # "None" /\ pc["src"] \in Sending =>
           /\ "src" \in open
           /\ pc["src"] \in {"pages", "await"}
           /\ request = Wire
           /\ response # "ok"
    /\ response = "ok" => pc["src"] = "await"

\* Pages follow a Memory request, and the pause the memory.
CommandInv ==
    /\ pc["src"] = "pages" => command \in {"Memory", "LastMemory"}
    /\ pc["src"] \in {"pause", "paused"} => command \in {"Config", "Memory"}

\* A page whose copy is stale is in the dirty log or still to be written, as long as the
\* log is on; there are pages to be written when src is about to write them.  The log is
\* empty once the pages written before the pause are being sent, and no copy is stale once
\* the log is off.
MemoryInv ==
    pc["src"] \in Sending =>
        /\ command = "Config" /\ pc["src"] \in {"pause", "paused"} => local
        /\ /\ command = "Config" /\ local
           /\ response = "ok" \/ pc["src"] \in {"work", "pause", "paused"}
           => stale = {}
        /\ command \in {"Memory", "LastMemory"} =>
               /\ logging /\ ~local
               /\ stale \subseteq dirty \union table
               /\ pc["src"] \in {"send", "pages"} => table # {}
               /\ pc["src"] \notin {"send", "pages"} => table = {}
        /\ command = "LastMemory" => dirty = {}
        /\ command \in {"State", "Complete"} => stale = {}
        /\ command \in {"LastMemory", "State", "Complete"} \/ pc["src"] = "paused"
               => vm["src"] = "Paused"

\* dst has a copy from the answer to State on.  A Complete that src no longer waits for
\* finds a copy that diverged, or the memory of a source that is gone.
TwinInv ==
    /\ twin # "none" => vm["dst"] \in {"Running", "Paused"}
    /\ /\ pc["src"] \in Sending
       /\ command = "Complete" \/ (command = "State" /\ (response = "ok" \/ pc["src"] = "work"))
       /\ pc["dst"] = "receive"
       => twin # "none"
    /\ request = "Complete" /\ pc["src"] \notin Sending /\ twin # "none"
       => diverged \/ (pc["src"] = "gone" /\ stale = {})

\* A VM that is wanted is at an end that was not told to exit, and at dst before src is.
WantedInv ==
    /\ wanted => \/ vm["src"] \in {"Running", "Paused"} /\ ~exit_evt["src"]
                 \/ twin # "none" /\ ~exit_evt["dst"]
    /\ /\ pc["src"] \in Sending /\ command = "Complete"
       /\ response = "ok" \/ pc["src"] = "work"
       /\ wanted
       => twin = "taken" /\ ~exit_evt["dst"]

\* While src still has the migration in hand, its copy runs only after Complete.
CopyInv ==
    /\ OneCopyRuns
    /\ twin # "none" /\ vm["dst"] = "Running" /\ pc["src"] \in Sending \union {"failed"} =>
           diverged \/ (command = "Complete" /\ pc["src"] \in {"await", "work"})

IInv ==
    /\ PlaceInv
    /\ SocketInv
    /\ CommandInv
    /\ MemoryInv
    /\ TwinInv
    /\ WantedInv
    /\ CopyInv

-----------------------------------------------------------------------------
(* What a step does to each of the two processes.                           *)

\* A step to another place, or to another state of the VM.
LEMMA Moves ==
    ASSUME TypeOK, NEW h \in Vmms, NEW x
    PROVE  /\ Goto(h, x) => /\ pc'["src"] = IF h = "src" THEN x ELSE pc["src"]
                            /\ pc'["dst"] = IF h = "dst" THEN x ELSE pc["dst"]
           /\ Set(h, x) => /\ vm'["src"] = IF h = "src" THEN x ELSE vm["src"]
                           /\ vm'["dst"] = IF h = "dst" THEN x ELSE vm["dst"]
<1>1. "src" \in DOMAIN pc /\ "dst" \in DOMAIN pc /\ "src" \in DOMAIN vm /\ "dst" \in DOMAIN vm
  BY Zenon DEF TypeOK, Vmms
<1> QED
  BY <1>1, Zenon DEF Goto, Set

\* The end of a process.
LEMMA GoneMoves ==
    ASSUME TypeOK, NEW h \in Vmms, Gone(h)
    PROVE  /\ pc'["src"] = IF h = "src" THEN "gone" ELSE pc["src"]
           /\ pc'["dst"] = IF h = "dst" THEN "gone" ELSE pc["dst"]
           /\ vm'["src"] = IF h = "src" THEN "None" ELSE vm["src"]
           /\ vm'["dst"] = IF h = "dst" THEN "None" ELSE vm["dst"]
           /\ h = "src" => ~exit_evt'["src"] /\ exit_evt'["dst"] = exit_evt["dst"]
           /\ h = "dst" => ~exit_evt'["dst"] /\ exit_evt'["src"] = exit_evt["src"]
           /\ open' = open \ {h} /\ UNCHANGED stale
           /\ h = "src" => command' = "Start" /\ response' = "None" /\ UNCHANGED request
           /\ h = "dst" => request' = "None" /\ UNCHANGED <<sending, response>>
<1>1. "src" \in DOMAIN exit_evt /\ "dst" \in DOMAIN exit_evt
  BY Zenon DEF TypeOK, Vmms
<1>2. /\ h = "src" => ~exit_evt'["src"] /\ exit_evt'["dst"] = exit_evt["dst"]
      /\ h = "dst" => ~exit_evt'["dst"] /\ exit_evt'["src"] = exit_evt["src"]
  BY <1>1, Zenon DEF Gone
<1>3. Goto(h, "gone") /\ Set(h, "None")
  BY Zenon DEF Gone
<1>4. /\ open' = open \ {h} /\ UNCHANGED stale
      /\ h = "src" => command' = "Start" /\ response' = "None" /\ UNCHANGED request
      /\ h = "dst" => request' = "None" /\ UNCHANGED <<sending, response>>
  BY Zenon DEF Gone
<1> QED
  BY <1>2, <1>3, <1>4, Moves, Zenon

\* The end of vm_receive_migration.
LEMMA ReturnMoves ==
    ASSUME TypeOK, Return
    PROVE  /\ pc'["src"] = pc["src"] /\ pc'["dst"] = "loop"
           /\ "dst" \notin open' /\ ("src" \in open' <=> "src" \in open)
<1>1. Goto("dst", "loop") /\ open' = open \ {"dst"}
  BY Zenon DEF Return
<1> QED
  BY <1>1, Moves, Zenon DEF Vmms

-----------------------------------------------------------------------------
(* The invariant is preserved, by kind of step.                             *)

\* What a step that changes nothing the invariant is about leaves of it.
LEMMA InvUnchanged ==
    ASSUME IInv, UNCHANGED <<vm, exit_evt, pc, sending, stale, socket, history>>
    PROVE  IInv'
<1> USE DEF sending, socket, history
<1>1. PlaceInv' /\ CommandInv'
  BY Zenon DEF IInv, PlaceInv, CommandInv, Sending
<1>2. SocketInv'
  BY Zenon DEF IInv, SocketInv, Sending, Wire
<1>3. MemoryInv'
  BY Zenon DEF IInv, MemoryInv, Sending
<1>4. TwinInv'
  BY Zenon DEF IInv, TwinInv, Sending
<1>5. WantedInv' /\ CopyInv'
  BY Zenon DEF IInv, WantedInv, CopyInv, OneCopyRuns, Sending
<1> QED
  BY <1>1, <1>2, <1>3, <1>4, <1>5, Zenon DEF IInv

\* A request to one process leaves the migration alone.
LEMMA HandlesInv ==
    ASSUME TypeOK, IInv, NEW h \in Vmms, NEW s, Handles(h), Set(h, s)
    PROVE  /\ PlaceInv' /\ SocketInv' /\ CommandInv' /\ MemoryInv'
           /\ UNCHANGED <<pc, exit_evt, command, response, request, stale>>
           /\ pc[h] = "loop"
           /\ h = "src" => vm'["src"] = s /\ vm'["dst"] = vm["dst"]
           /\ h = "dst" => vm'["dst"] = s /\ vm'["src"] = vm["src"]
<1>1. /\ pc[h] = "loop" /\ UNCHANGED <<pc, exit_evt, stale>>
      /\ UNCHANGED <<command, local, logging, dirty, table>>
      /\ UNCHANGED <<open, request, response>>
  BY Zenon DEF Handles, sending, socket
<1>2. /\ h = "src" => vm'["src"] = s /\ vm'["dst"] = vm["dst"]
      /\ h = "dst" => vm'["dst"] = s /\ vm'["src"] = vm["src"]
  BY Moves, Zenon
<1>3. PlaceInv' /\ CommandInv'
  BY <1>1, <1>2, Zenon DEF IInv, PlaceInv, CommandInv, Sending, Vmms
<1>4. SocketInv'
  BY <1>1, Zenon DEF IInv, SocketInv, Sending, Wire
<1>5. MemoryInv'
  BY <1>1, <1>2, Zenon DEF IInv, MemoryInv, Sending, Vmms
<1> QED
  BY <1>1, <1>2, <1>3, <1>4, <1>5, Zenon

\* A VM is run.
LEMMA RunsInv ==
    ASSUME TypeOK, IInv, NEW h \in Vmms, Handles(h), Set(h, "Running"), Runs(h), vm[h] # "None"
    PROVE  IInv'
<1>1. /\ PlaceInv' /\ SocketInv' /\ CommandInv' /\ MemoryInv'
      /\ UNCHANGED <<pc, exit_evt, command, response, request, stale>>
      /\ pc[h] = "loop"
      /\ h = "src" => vm'["src"] = "Running" /\ vm'["dst"] = vm["dst"]
      /\ h = "dst" => vm'["dst"] = "Running" /\ vm'["src"] = vm["src"]
  BY HandlesInv, Zenon
<1>2. /\ twin' = twin /\ (diverged => diverged')
      /\ wanted' => wanted \/ (h = "src" /\ ~exit_evt[h])
      /\ h = "dst" => (wanted' => wanted)
  BY Zenon DEF Runs
<1>3. twin # "none" /\ (\E o \in Vmms \ {h} : MayRun(o)) => diverged'
  BY Zenon DEF Runs
<1>4. TwinInv'
  BY <1>1, <1>2, Zenon DEF IInv, TwinInv, Sending, Vmms
<1>5. WantedInv'
  BY <1>1, <1>2, Zenon DEF IInv, WantedInv, TwinInv, Sending, Vmms
<1>6. CopyInv'
  BY <1>1, <1>2, <1>3, Zenon DEF IInv, CopyInv, OneCopyRuns, PlaceInv, MayRun, Sending, Vmms
<1> QED
  BY <1>1, <1>4, <1>5, <1>6, Zenon DEF IInv

\* A process that has none gets a VM.
LEMMA BeginsInv ==
    ASSUME TypeOK, IInv, NEW h \in Vmms, NEW s, NEW b \in BOOLEAN,
           Handles(h), Set(h, s), Begins(h, b), vm[h] = "None", b => s = "Running"
    PROVE  IInv'
<1>1. /\ PlaceInv' /\ SocketInv' /\ CommandInv' /\ MemoryInv'
      /\ UNCHANGED <<pc, exit_evt, command, response, request, stale>>
      /\ pc[h] = "loop"
      /\ h = "src" => vm'["src"] = s /\ vm'["dst"] = vm["dst"]
      /\ h = "dst" => vm'["dst"] = s /\ vm'["src"] = vm["src"]
  BY HandlesInv, Zenon
<1>2. /\ twin' = "none"
      /\ h = "src" => (wanted' => b /\ ~exit_evt[h])
      /\ h = "dst" => wanted' = wanted
  BY Zenon DEF Begins
<1>3. h = "dst" => twin = "none"
  BY Zenon DEF IInv, TwinInv
<1>4. TwinInv'
  BY <1>1, <1>2, <1>3, Zenon DEF IInv, TwinInv, Sending, Vmms
<1>5. WantedInv'
  BY <1>1, <1>2, <1>3 DEF IInv, WantedInv, Sending, Vmms
<1>6. CopyInv'
  BY <1>2, Zenon DEF CopyInv, OneCopyRuns
<1> QED
  BY <1>1, <1>4, <1>5, <1>6, Zenon DEF IInv

\* The VM of a process ends.
LEMMA EndsInv ==
    ASSUME TypeOK, IInv, NEW h \in Vmms, Handles(h), Set(h, "None"), Ends(h)
    PROVE  IInv'
<1>1. /\ PlaceInv' /\ SocketInv' /\ CommandInv' /\ MemoryInv'
      /\ UNCHANGED <<pc, exit_evt, command, response, request, stale>>
      /\ pc[h] = "loop"
      /\ h = "src" => vm'["src"] = "None" /\ vm'["dst"] = vm["dst"]
      /\ h = "dst" => vm'["dst"] = "None" /\ vm'["src"] = vm["src"]
  BY HandlesInv, Zenon
<1>2. /\ h = "src" => twin' = twin /\ (diverged => diverged')
      /\ h = "dst" => twin' = "none"
      /\ wanted' => wanted /\ (vm[h] # "None" => Elsewhere(h))
  BY Zenon DEF Ends, IInv, TwinInv, history
<1>3. pc["src"] \in Sending /\ command = "Complete" => vm["src"] = "Paused"
  BY Zenon DEF IInv, MemoryInv
<1>4. TwinInv'
  BY <1>1, <1>2, Zenon DEF IInv, TwinInv, Sending, Vmms
<1>5. WantedInv'
  BY <1>1, <1>2, <1>3, Zenon DEF IInv, WantedInv, TwinInv, Elsewhere, Sending, Vmms
<1>6. CopyInv'
  BY <1>1, <1>2, Zenon DEF IInv, CopyInv, OneCopyRuns, Sending, Vmms
<1> QED
  BY <1>1, <1>4, <1>5, <1>6, Zenon DEF IInv

\* A process ends with its VM.
LEMMA GoneInv ==
    ASSUME TypeOK, IInv, NEW h \in Vmms, Gone(h)
    PROVE  PlaceInv' /\ SocketInv' /\ CommandInv' /\ MemoryInv'
<1>1. /\ h = "src" => pc'["src"] = "gone" /\ pc'["dst"] = pc["dst"]
      /\ h = "dst" => pc'["dst"] = "gone" /\ pc'["src"] = pc["src"]
      /\ h = "src" => vm'["src"] = "None" /\ vm'["dst"] = vm["dst"]
      /\ h = "dst" => vm'["dst"] = "None" /\ vm'["src"] = vm["src"]
  BY GoneMoves, Zenon DEF Vmms
<1>2. /\ h = "src" => ~exit_evt'["src"] /\ exit_evt'["dst"] = exit_evt["dst"]
      /\ h = "dst" => ~exit_evt'["dst"] /\ exit_evt'["src"] = exit_evt["src"]
  BY GoneMoves, Zenon
<1>3. /\ open' = open \ {h} /\ stale' = stale
      /\ h = "src" => response' = "None" /\ request' = request
      /\ h = "dst" => request' = "None" /\ UNCHANGED <<sending, response>>
  BY GoneMoves, Zenon
<1>4. PlaceInv'
  BY <1>1, <1>2, Zenon DEF IInv, PlaceInv, Sending, Vmms
<1>5. SocketInv'
  BY <1>1, <1>3, Zenon DEF IInv, SocketInv, Sending, Wire, Vmms, sending
<1>6. CommandInv'
  BY <1>1, <1>3, Zenon DEF IInv, CommandInv, Vmms, sending
<1>7. MemoryInv'
  BY <1>1, <1>3 DEF IInv, MemoryInv, Sending, Vmms, sending
<1> QED
  BY <1>4, <1>5, <1>6, <1>7, Zenon

\* vmm_shutdown, a panic or a crash.
LEMMA GoneEndsInv ==
    ASSUME TypeOK, IInv, NEW h \in Vmms, Gone(h), Ends(h)
    PROVE  IInv'
<1>1. /\ h = "src" => pc'["src"] = "gone" /\ pc'["dst"] = pc["dst"]
      /\ h = "dst" => pc'["dst"] = "gone" /\ pc'["src"] = pc["src"]
      /\ h = "src" => vm'["src"] = "None" /\ vm'["dst"] = vm["dst"]
      /\ h = "dst" => vm'["dst"] = "None" /\ vm'["src"] = vm["src"]
  BY GoneMoves, Zenon DEF Vmms
<1>2. /\ h = "src" => exit_evt'["dst"] = exit_evt["dst"]
      /\ h = "dst" => exit_evt'["src"] = exit_evt["src"]
  BY GoneMoves, Zenon
<1>3. /\ stale' = stale
      /\ h = "src" => request' = request
      /\ h = "dst" => request' = "None" /\ command' = command /\ response' = response
  BY GoneMoves, Zenon DEF sending
<1>4. /\ h = "src" => twin' = twin /\ (diverged => diverged')
      /\ h = "dst" => twin' = "none"
      /\ wanted' => wanted /\ (vm[h] # "None" => Elsewhere(h))
  BY Zenon DEF Ends, IInv, TwinInv, history
<1>5. pc["src"] \in Sending /\ command = "Complete" => vm["src"] = "Paused"
  BY Zenon DEF IInv, MemoryInv
<1>6. h = "src" /\ request = "Complete" /\ pc["src"] \in Sending => command = "Complete" /\ stale = {}
  BY Zenon DEF IInv, SocketInv, MemoryInv, Wire
<1>7. TwinInv'
  BY <1>1, <1>3, <1>4, <1>6, Zenon DEF IInv, TwinInv, PlaceInv, Sending, Vmms
<1>8. WantedInv'
  BY <1>1, <1>2, <1>3, <1>4, <1>5, Zenon DEF IInv, WantedInv, TwinInv, Elsewhere, Sending, Vmms
<1>9. CopyInv'
  BY <1>1, <1>4, Zenon DEF IInv, CopyInv, OneCopyRuns, Sending, Vmms
<1> QED
  BY <1>7, <1>8, <1>9, GoneInv, Zenon DEF IInv

\* The exit event is handled: what is wanted is elsewhere already.
LEMMA ExitInv ==
    ASSUME TypeOK, IInv, NEW h \in Vmms, ExitEvent(h)
    PROVE  IInv'
<1>1. Gone(h) /\ exit_evt[h] /\ pc[h] = "loop"
  BY Zenon DEF ExitEvent
<1>2. /\ h = "src" => pc'["src"] = "gone" /\ pc'["dst"] = pc["dst"]
      /\ h = "dst" => pc'["dst"] = "gone" /\ pc'["src"] = pc["src"]
      /\ h = "src" => vm'["src"] = "None" /\ vm'["dst"] = vm["dst"]
      /\ h = "dst" => vm'["dst"] = "None" /\ vm'["src"] = vm["src"]
  BY <1>1, GoneMoves, Zenon DEF Vmms
<1>3. /\ h = "src" => exit_evt'["dst"] = exit_evt["dst"]
      /\ h = "dst" => exit_evt'["src"] = exit_evt["src"]
  BY <1>1, GoneMoves, Zenon
<1>4. /\ stale' = stale
      /\ h = "src" => request' = request
      /\ h = "dst" => request' = "None" /\ command' = command /\ response' = response
  BY <1>1, GoneMoves, Zenon DEF sending
<1>5. /\ h = "src" => twin' = twin /\ (diverged => diverged')
      /\ h = "dst" => twin' = "none"
      /\ wanted' => wanted
  BY Zenon DEF ExitEvent
<1>6. TwinInv'
  BY <1>1, <1>2, <1>4, <1>5, Zenon DEF IInv, TwinInv, PlaceInv, Sending, Vmms
<1>7. WantedInv'
  BY <1>1, <1>2, <1>3, <1>4, <1>5, Zenon DEF IInv, WantedInv, Sending, Vmms
<1>8. CopyInv'
  BY <1>2, <1>5, Zenon DEF IInv, CopyInv, OneCopyRuns, Sending, Vmms
<1> QED
  BY <1>1, <1>6, <1>7, <1>8, GoneInv, Zenon DEF IInv

\* The requests and events of the control loop, and crashes.
LEMMA RequestInv ==
    ASSUME TypeOK, IInv, NEW h \in Vmms, Request(h) \/ ExitEvent(h) \/ Crash(h)
    PROVE  IInv'
<1>1. CASE vm_create(h)
  BY <1>1, InvUnchanged, Zenon DEF vm_create, Handles
<1>2. CASE vm_boot(h)
  BY <1>2, RunsInv, BeginsInv, Zenon DEF vm_boot
<1>3. CASE vm_pause(h)
  <2>1. Handles(h) /\ Set(h, "Paused") /\ vm[h] # "None" /\ UNCHANGED history
    BY <1>3, Zenon DEF vm_pause
  <2>2. /\ PlaceInv' /\ SocketInv' /\ CommandInv' /\ MemoryInv'
        /\ UNCHANGED <<pc, exit_evt, command, response, request, stale>>
        /\ pc[h] = "loop"
        /\ h = "src" => vm'["src"] = "Paused" /\ vm'["dst"] = vm["dst"]
        /\ h = "dst" => vm'["dst"] = "Paused" /\ vm'["src"] = vm["src"]
    BY <2>1, HandlesInv, Zenon
  <2>3. TwinInv'
    BY <2>1, <2>2, Zenon DEF IInv, TwinInv, Sending, Vmms, history
  <2>4. WantedInv'
    BY <2>1, <2>2, Zenon DEF IInv, WantedInv, Sending, Vmms, history
  <2>5. CopyInv'
    BY <2>1, <2>2, Zenon DEF IInv, CopyInv, OneCopyRuns, Sending, Vmms, history
  <2> QED
    BY <2>2, <2>3, <2>4, <2>5, Zenon DEF IInv
<1>4. CASE vm_resume(h)
  BY <1>4, RunsInv, Zenon DEF vm_resume
<1>5. CASE vm_restore(h)
  BY <1>5, BeginsInv, InvUnchanged, Zenon DEF vm_restore, Handles
<1>6. CASE vm_shutdown(h) \/ vm_delete(h)
  BY <1>6, EndsInv, Zenon DEF vm_shutdown, vm_delete
<1>7. CASE vm_reboot(h)
  BY <1>7, RunsInv, EndsInv, Zenon DEF vm_reboot
<1>8. CASE vmm_shutdown(h) \/ Crash(h)
  BY <1>8, GoneEndsInv, Zenon DEF vmm_shutdown, Crash
<1>9. CASE ResetEvent(h)
  BY <1>9, RunsInv, GoneEndsInv, Zenon DEF ResetEvent
<1> QED
  BY <1>1, <1>2, <1>3, <1>4, <1>5, <1>6, <1>7, <1>8, <1>9, ExitInv, Zenon DEF Request

-----------------------------------------------------------------------------
(* vm_send_migration                                                        *)

\* What is done between the answer to a request and the next request.
LEMMA WorkInv ==
    ASSUME TypeOK, IInv,
           NEW place \in {"send", "pause", "paused"},
           pc["src"] \in {"work", "pause", "paused"}, Goto("src", place),
           command # "Complete", place # "send" => command' = command,
           command' = "Complete" => command = "State" /\ pc["src"] = "work",
           UNCHANGED <<exit_evt, socket, history>>,
           vm'["dst"] = vm["dst"], vm'["src"] = vm["src"] \/ vm'["src"] = "Paused"
    PROVE  /\ pc'["src"] = place /\ pc["src"] \in Sending /\ pc'["dst"] = pc["dst"]
           /\ response' = response /\ response # "ok"
           /\ PlaceInv' /\ SocketInv' /\ TwinInv' /\ WantedInv' /\ CopyInv'
<1>1. /\ pc'["src"] = place /\ pc'["dst"] = pc["dst"]
      /\ pc["src"] \in Sending
  BY Moves, Zenon DEF Vmms, Sending
<1>2. UNCHANGED <<open, request, response, twin, diverged, wanted>>
  BY Zenon DEF history, socket
<1>3. request = "None" /\ response # "ok"
  BY <1>1, Zenon DEF IInv, SocketInv
<1>4. PlaceInv'
  BY <1>1, Zenon DEF IInv, PlaceInv, Sending
<1>5. SocketInv'
  BY <1>1, <1>2, <1>3, Zenon DEF IInv, SocketInv, Sending
<1>6. TwinInv'
  BY <1>1, <1>2, <1>3, Zenon DEF IInv, TwinInv, Sending
<1>7. WantedInv'
  BY <1>1, <1>2, <1>3, Zenon DEF IInv, WantedInv, Sending
<1>8. CopyInv'
  BY <1>1, <1>2, Zenon DEF IInv, CopyInv, OneCopyRuns, Sending
<1> QED
  BY <1>1, <1>2, <1>3, <1>4, <1>5, <1>6, <1>7, <1>8, Zenon

\* send_migration fails: the VM of src may run again, so a copy that may run too has diverged.
LEMMA FailInv ==
    ASSUME TypeOK, IInv, pc["src"] \in Sending, Fail,
           UNCHANGED <<vm, exit_evt, stale, request, twin, wanted>>, response' # "ok",
           diverged => diverged',
           pc["src"] \in {"await", "work"} /\ command = "Complete" /\ twin # "none" => diverged'
    PROVE  IInv'
<1>1. /\ pc'["src"] = "failed" /\ pc'["dst"] = pc["dst"]
      /\ "src" \notin open' /\ ("dst" \in open' => "dst" \in open)
  BY Moves, Zenon DEF Fail, Returns, Vmms
<1>2. request = "Complete" => command = "Complete" /\ pc["src"] = "await"
  BY Zenon DEF IInv, SocketInv, CommandInv, Wire
<1>3. PlaceInv'
  BY <1>1, Zenon DEF IInv, PlaceInv, Sending
<1>4. SocketInv'
  BY <1>1, Zenon DEF IInv, SocketInv, Sending
<1>5. CommandInv' /\ MemoryInv'
  BY <1>1, Zenon DEF CommandInv, MemoryInv, Sending
<1>6. TwinInv'
  BY <1>1, <1>2, Zenon DEF IInv, TwinInv, Sending
<1>7. WantedInv'
  BY <1>1, Zenon DEF IInv, WantedInv, Sending
<1>8. CopyInv'
  BY <1>1, Zenon DEF IInv, CopyInv, OneCopyRuns, Sending
<1> QED
  BY <1>3, <1>4, <1>5, <1>6, <1>7, <1>8, Zenon DEF IInv

\* A request is written.
LEMMA WriteInv ==
    ASSUME TypeOK, IInv, send_request
    PROVE  IInv'
<1>1. CASE "dst" \notin open
  <2>1. CASE command \in {"Memory", "LastMemory"}
    BY <1>1, <2>1, GoneEndsInv, Zenon DEF send_request, Panic, Vmms
  <2>2. CASE command \notin {"Memory", "LastMemory"}
    <3>1. pc["src"] = "send" /\ response # "ok"
      BY Zenon DEF send_request, IInv, SocketInv
    <3>2. /\ Fail
          /\ UNCHANGED <<processes, stale, request, response, history>>
      BY <1>1, <2>2, Zenon DEF send_request
    <3> QED
      BY <3>1, <3>2, FailInv, Zenon DEF Sending, processes, history
  <2> QED
    BY <2>1, <2>2, Zenon
<1>2. CASE "dst" \in open
  <2>1. /\ pc["src"] = "send" /\ response # "ok"
        /\ request' = IF "src" \in open THEN Wire ELSE "None"
        /\ UNCHANGED <<processes, sending, stale, open, response, history>>
        /\ Goto("src", IF Wire = "Memory" THEN "pages" ELSE "await")
    BY <1>2, Zenon DEF send_request, IInv, SocketInv
  <2>2. /\ pc'["src"] \in {"pages", "await"} /\ pc'["dst"] = pc["dst"]
        /\ pc'["src"] = "pages" <=> Wire = "Memory"
        /\ Wire' = Wire
    BY <2>1, Moves, Zenon DEF Vmms, Wire, sending
  <2>3. PlaceInv' /\ CommandInv'
    BY <2>1, <2>2, Zenon DEF IInv, PlaceInv, CommandInv, Sending, Wire, processes, sending
  <2>4. SocketInv'
    BY <1>2, <2>1, <2>2, Zenon DEF IInv, SocketInv, Sending
  <2>5. MemoryInv'
    BY <2>1, <2>2, Zenon DEF IInv, MemoryInv, Sending, Wire, processes, sending
  <2>6. TwinInv'
    BY <2>1, <2>2, Zenon DEF IInv, TwinInv, Sending, processes, sending, history
  <2>7. WantedInv'
    BY <2>1, <2>2, Zenon DEF IInv, WantedInv, Sending, processes, sending, history
  <2>8. CopyInv'
    BY <2>1, <2>2, Zenon DEF IInv, CopyInv, OneCopyRuns, Sending, processes, sending, history
  <2> QED
    BY <2>3, <2>4, <2>5, <2>6, <2>7, <2>8, Zenon DEF IInv
<1> QED
  BY <1>1, <1>2, Zenon

\* A page is written to the socket, or cannot be.
LEMMA PagesInv ==
    ASSUME TypeOK, IInv, NEW p \in Pages, send_memory_regions(p)
    PROVE  IInv'
<1>1. /\ pc["src"] = "pages" /\ response # "ok"
      /\ UNCHANGED <<vm, exit_evt, logging, dirty, request, response, twin, diverged, wanted>>
  BY Zenon DEF send_memory_regions, processes, history, IInv, SocketInv
<1>2. CASE "dst" \notin open
  BY <1>1, <1>2, FailInv, Zenon DEF send_memory_regions, Sending
<1>3. CASE "dst" \in open
  <2>1. /\ table' = table \ {p} /\ stale' = stale \ {p}
        /\ UNCHANGED <<command, local, open>>
        /\ Goto("src", IF table' = {} THEN "await" ELSE "pages")
    BY <1>3, Zenon DEF send_memory_regions
  <2>2. /\ pc'["src"] \in {"pages", "await"} /\ pc'["dst"] = pc["dst"]
        /\ pc'["src"] = "pages" => table' # {}
        /\ pc'["src"] = "await" => table' = {}
    BY <2>1, Moves DEF Vmms
  <2>3. command \in {"Memory", "LastMemory"}
    BY <1>1, Zenon DEF IInv, CommandInv
  <2>4. PlaceInv' /\ CommandInv'
    BY <1>1, <2>1, <2>2, <2>3, Zenon DEF IInv, PlaceInv, CommandInv, Sending
  <2>5. SocketInv'
    BY <1>1, <2>1, <2>2, Zenon DEF IInv, SocketInv, Sending, Wire
  <2>6. MemoryInv'
    BY <1>1, <2>1, <2>2, <2>3, Zenon DEF IInv, MemoryInv, Sending
  <2>7. TwinInv' /\ WantedInv'
    BY <1>1, <2>1, <2>2, <2>3, Zenon DEF IInv, TwinInv, WantedInv, Sending
  <2>8. CopyInv'
    BY <1>1, <2>1, <2>2, <2>3, Zenon DEF IInv, CopyInv, OneCopyRuns, Sending
  <2> QED
    BY <2>4, <2>5, <2>6, <2>7, <2>8, Zenon DEF IInv
<1> QED
  BY <1>2, <1>3, Zenon

\* The answer is read, or none comes.
LEMMA ReadInv ==
    ASSUME TypeOK, IInv, read_response
    PROVE  IInv'
<1>1. /\ pc["src"] = "await" /\ response' = "None"
      /\ UNCHANGED <<vm, exit_evt, logging, dirty, table, stale, request, twin, wanted>>
  BY Zenon DEF read_response, processes
<1>2. CASE response = "ok"
  <2>1. Goto("src", "work") /\ UNCHANGED <<command, local, open, diverged>>
    BY <1>2, Zenon DEF read_response
  <2>2. pc'["src"] = "work" /\ pc'["dst"] = pc["dst"]
    BY <2>1, Moves, Zenon DEF Vmms
  <2>3. PlaceInv' /\ CommandInv'
    BY <1>1, <2>2, Zenon DEF IInv, PlaceInv, CommandInv, Sending
  <2>4. SocketInv'
    BY <1>1, <1>2, <2>1, <2>2, Zenon DEF IInv, SocketInv, Sending
  <2>5. MemoryInv'
    BY <1>1, <1>2, <2>1, <2>2, Zenon DEF IInv, MemoryInv, Sending
  <2>6. TwinInv'
    BY <1>1, <1>2, <2>1, <2>2, Zenon DEF IInv, TwinInv, Sending
  <2>7. WantedInv'
    BY <1>1, <1>2, <2>1, <2>2, Zenon DEF IInv, WantedInv, Sending
  <2>8. CopyInv'
    BY <1>1, <2>1, <2>2, Zenon DEF IInv, CopyInv, OneCopyRuns, Sending
  <2> QED
    BY <2>3, <2>4, <2>5, <2>6, <2>7, <2>8, Zenon DEF IInv
<1>3. CASE response # "ok"
  <2>1. Fail /\ diverged' = (diverged \/ (command = "Complete" /\ twin # "none"))
    BY <1>3, Zenon DEF read_response
  <2> QED
    BY <1>1, <2>1, FailInv, Zenon DEF Sending
<1> QED
  BY <1>2, <1>3, Zenon

\* complete_migration: the VM that is still wanted has been taken over.
LEMMA CompleteInv ==
    ASSUME TypeOK, IInv, complete_migration
    PROVE  IInv'
<1>1. /\ pc["src"] = "work" /\ command = "Complete" /\ Returns("loop")
      /\ exit_evt' = [exit_evt EXCEPT !["src"] = TRUE]
      /\ UNCHANGED <<vm, stale, request, response, twin, diverged, wanted>>
  BY Zenon DEF complete_migration, history
<1>2. exit_evt'["dst"] = exit_evt["dst"]
  BY <1>1, Zenon DEF TypeOK, Vmms
<1>3. /\ pc'["src"] = "loop" /\ pc'["dst"] = pc["dst"]
      /\ "src" \notin open' /\ ("dst" \in open' => "dst" \in open)
  BY <1>1, Moves, Zenon DEF Returns, Vmms
<1>4. request = "None" /\ response # "ok"
  BY <1>1, Zenon DEF IInv, SocketInv, Sending
<1>5. PlaceInv'
  BY <1>1, <1>2, <1>3, Zenon DEF IInv, PlaceInv, Sending
<1>6. SocketInv'
  BY <1>1, <1>3, <1>4, Zenon DEF IInv, SocketInv, Sending
<1>7. CommandInv' /\ MemoryInv'
  BY <1>3, Zenon DEF CommandInv, MemoryInv, Sending
<1>8. TwinInv'
  BY <1>1, <1>3, <1>4, Zenon DEF IInv, TwinInv, Sending
<1>9. WantedInv'
  BY <1>1, <1>2, <1>3, Zenon DEF IInv, WantedInv, Sending
<1>10. CopyInv'
  BY <1>1, <1>3, Zenon DEF IInv, CopyInv, OneCopyRuns, Sending
<1> QED
  BY <1>5, <1>6, <1>7, <1>8, <1>9, <1>10, Zenon DEF IInv

\* A migration that failed: the source runs on, or is left paused.
LEMMA FailedInv ==
    ASSUME TypeOK, IInv, migration_failed
    PROVE  IInv'
<1>1. /\ pc["src"] = "failed" /\ Goto("src", "loop")
      /\ vm' = vm \/ (vm["src"] = "Paused" /\ Set("src", "Running"))
      /\ UNCHANGED <<exit_evt, command, open, request, response, twin, diverged, wanted>>
  BY Zenon DEF migration_failed, socket, history
<1>2. pc'["src"] = "loop" /\ pc'["dst"] = pc["dst"]
  BY <1>1, Moves, Zenon DEF Vmms
<1>3. /\ vm'["dst"] = vm["dst"]
      /\ vm'["src"] = vm["src"] \/ (vm["src"] = "Paused" /\ vm'["src"] = "Running")
  BY <1>1, Moves, Zenon DEF Vmms
<1>4. PlaceInv'
  BY <1>1, <1>2, <1>3, Zenon DEF IInv, PlaceInv, Sending
<1>5. SocketInv'
  BY <1>1, <1>2, Zenon DEF IInv, SocketInv, Sending
<1>6. CommandInv' /\ MemoryInv'
  BY <1>2, Zenon DEF CommandInv, MemoryInv, Sending
<1>7. TwinInv'
  BY <1>1, <1>2, <1>3, Zenon DEF IInv, TwinInv, Sending
<1>8. WantedInv'
  BY <1>1, <1>2, <1>3, Zenon DEF IInv, WantedInv, Sending
<1>9. CopyInv'
  BY <1>1, <1>2, <1>3, Zenon DEF IInv, CopyInv, OneCopyRuns, Sending
<1> QED
  BY <1>4, <1>5, <1>6, <1>7, <1>8, <1>9, Zenon DEF IInv

\* The steps of vm_send_migration.
LEMMA SendInv ==
    ASSUME TypeOK, IInv, SendMigration
    PROVE  IInv'
<1>1. CASE SendConfig
  <2>1. /\ pc["src"] = "work" /\ command \in {"Start", "MemoryFd"}
        /\ UNCHANGED <<vm, exit_evt, local, logging, dirty, table, stale, socket, history>>
        /\ command' \in {"MemoryFd", "Config"} /\ Goto("src", "send")
    BY <1>1, Zenon DEF SendConfig, Answered, Send, socket
  <2>2. /\ pc'["src"] = "send" /\ response' # "ok"
        /\ PlaceInv' /\ SocketInv' /\ TwinInv' /\ WantedInv' /\ CopyInv'
    BY <2>1, WorkInv, Zenon
  <2>3. CommandInv' /\ MemoryInv'
    BY <2>1, <2>2, Zenon DEF CommandInv, MemoryInv, Sending
  <2> QED
    BY <2>2, <2>3, Zenon DEF IInv
<1>2. CASE start_dirty_log
  <2>1. /\ pc["src"] = "work" /\ command = "Config"
        /\ UNCHANGED <<vm, exit_evt, local, stale, socket, history>>
    BY <1>2, Zenon DEF start_dirty_log, Answered, socket
  <2>2. CASE local
    <3>1. Goto("src", "pause") /\ UNCHANGED <<command, logging, dirty, table>>
      BY <1>2, <2>2, Zenon DEF start_dirty_log
    <3>2. /\ pc'["src"] = "pause" /\ response' # "ok"
          /\ PlaceInv' /\ SocketInv' /\ TwinInv' /\ WantedInv' /\ CopyInv'
      BY <2>1, <3>1, WorkInv, Zenon
    <3>3. CommandInv' /\ MemoryInv'
      BY <2>1, <2>2, <3>1, <3>2, Zenon DEF IInv, CommandInv, MemoryInv, Sending
    <3> QED
      BY <3>2, <3>3, Zenon DEF IInv
  <2>3. CASE ~local
    <3>1. /\ Goto("src", "send") /\ command' = "Memory"
          /\ logging' /\ dirty' = {} /\ table' = Pages
      BY <1>2, <2>3, Zenon DEF start_dirty_log, Send
    <3>2. /\ pc'["src"] = "send" /\ response' # "ok"
          /\ PlaceInv' /\ SocketInv' /\ TwinInv' /\ WantedInv' /\ CopyInv'
      BY <2>1, <3>1, WorkInv, Zenon
    <3>3. stale \subseteq Pages
      BY Zenon DEF TypeOK
    <3>4. CommandInv' /\ MemoryInv'
      BY <2>1, <2>3, <3>1, <3>2, <3>3, MigrationAssumption, Zenon DEF CommandInv, MemoryInv
    <3> QED
      BY <3>2, <3>4, Zenon DEF IInv
  <2> QED
    BY <2>2, <2>3, Zenon
<1>3. CASE DirtyPass
  <2>1. /\ pc["src"] = "work" /\ command = "Memory"
        /\ UNCHANGED <<vm, exit_evt, local, logging, stale, socket, history>>
        /\ \/ SendDirty("Memory")
           \/ Goto("src", "pause") /\ UNCHANGED <<command, dirty, table>>
    BY <1>3, Zenon DEF DirtyPass, Answered, socket
  <2>2. CASE SendDirty("Memory")
    <3>1. /\ Goto("src", "send") /\ command' = "Memory"
          /\ dirty # {} /\ table' = dirty /\ dirty' = {}
      BY <2>2, Zenon DEF SendDirty, Send
    <3>2. /\ pc'["src"] = "send" /\ response' # "ok"
          /\ PlaceInv' /\ SocketInv' /\ TwinInv' /\ WantedInv' /\ CopyInv'
      BY <2>1, <3>1, WorkInv, Zenon
    <3>3. CommandInv' /\ MemoryInv'
      BY <2>1, <3>1, <3>2, Zenon DEF IInv, CommandInv, MemoryInv, Sending
    <3> QED
      BY <3>2, <3>3, Zenon DEF IInv
  <2>3. CASE Goto("src", "pause") /\ UNCHANGED <<command, dirty, table>>
    <3>1. /\ pc'["src"] = "pause" /\ response' # "ok"
          /\ PlaceInv' /\ SocketInv' /\ TwinInv' /\ WantedInv' /\ CopyInv'
      BY <2>1, <2>3, WorkInv, Zenon
    <3>2. CommandInv' /\ MemoryInv'
      BY <2>1, <2>3, <3>1, Zenon DEF IInv, CommandInv, MemoryInv, Sending
    <3> QED
      BY <3>1, <3>2, Zenon DEF IInv
  <2> QED
    BY <2>1, <2>2, <2>3, Zenon
<1>4. CASE pause
  <2>1. /\ pc["src"] = "pause" /\ vm["src"] # "None" /\ Goto("src", "paused")
        /\ UNCHANGED <<exit_evt, command, local, logging, dirty, table, stale, socket, history>>
    BY <1>4, Zenon DEF pause, sending
  <2>2. vm'["src"] = "Paused" /\ vm'["dst"] = vm["dst"]
    BY <1>4, Moves, Zenon DEF pause, Vmms
  <2>3. command \in {"Config", "Memory"}
    BY <2>1, Zenon DEF IInv, CommandInv
  <2>4. /\ pc'["src"] = "paused" /\ response' # "ok"
        /\ PlaceInv' /\ SocketInv' /\ TwinInv' /\ WantedInv' /\ CopyInv'
    BY <2>1, <2>2, <2>3, WorkInv, Zenon
  <2>5. CommandInv' /\ MemoryInv'
    BY <2>1, <2>2, <2>3, <2>4, Zenon DEF IInv, CommandInv, MemoryInv, Sending
  <2> QED
    BY <2>4, <2>5, Zenon DEF IInv
<1>5. CASE LastPass
  <2>1. /\ pc["src"] = "paused"
        /\ UNCHANGED <<vm, exit_evt, local, stale, socket, history>>
        /\ \/ ~local /\ SendDirty("LastMemory") /\ UNCHANGED logging
           \/ (local \/ dirty = {}) /\ Send("State")
    BY <1>5, Zenon DEF LastPass, processes
  <2>2. command \in {"Config", "Memory"}
    BY <2>1, Zenon DEF IInv, CommandInv
  <2>3. CASE ~local /\ SendDirty("LastMemory") /\ UNCHANGED logging
    <3>1. /\ Goto("src", "send") /\ command' = "LastMemory"
          /\ dirty # {} /\ table' = dirty /\ dirty' = {}
      BY <2>3, Zenon DEF SendDirty, Send
    <3>2. /\ pc'["src"] = "send" /\ response' # "ok"
          /\ PlaceInv' /\ SocketInv' /\ TwinInv' /\ WantedInv' /\ CopyInv'
      BY <2>1, <2>2, <3>1, WorkInv, Zenon
    <3>3. CommandInv' /\ MemoryInv'
      BY <2>1, <2>2, <2>3, <3>1, <3>2, Zenon DEF IInv, CommandInv, MemoryInv, Sending
    <3> QED
      BY <3>2, <3>3, Zenon DEF IInv
  <2>4. CASE (local \/ dirty = {}) /\ Send("State")
    <3>1. Goto("src", "send") /\ command' = "State"
      BY <2>4, Zenon DEF Send
    <3>2. /\ pc'["src"] = "send" /\ response' # "ok"
          /\ PlaceInv' /\ SocketInv' /\ TwinInv' /\ WantedInv' /\ CopyInv'
      BY <2>1, <2>2, <3>1, WorkInv, Zenon
    <3>3. stale = {}
      BY <2>1, <2>2, <2>4, Zenon DEF IInv, MemoryInv, Sending
    <3>4. CommandInv' /\ MemoryInv'
      BY <2>1, <3>1, <3>2, <3>3, Zenon DEF IInv, CommandInv, MemoryInv, Sending
    <3> QED
      BY <3>2, <3>4, Zenon DEF IInv
  <2> QED
    BY <2>1, <2>3, <2>4, Zenon
<1>6. CASE stop_dirty_log \/ SendComplete
  <2>1. /\ pc["src"] = "work" /\ Goto("src", "send")
        /\ UNCHANGED <<vm, exit_evt, stale, socket, history>>
        /\ \/ command = "LastMemory" /\ command' = "State"
           \/ command = "State" /\ command' = "Complete"
    BY <1>6, Zenon DEF stop_dirty_log, SendComplete, Answered, Send, socket
  <2>2. /\ pc'["src"] = "send" /\ response' # "ok"
        /\ PlaceInv' /\ SocketInv' /\ TwinInv' /\ WantedInv' /\ CopyInv'
    BY <2>1, WorkInv, Zenon
  <2>3. stale = {} /\ vm["src"] = "Paused"
    BY <2>1, Zenon DEF IInv, MemoryInv, Sending
  <2>4. CommandInv' /\ MemoryInv'
    BY <2>1, <2>2, <2>3, Zenon DEF CommandInv, MemoryInv
  <2> QED
    BY <2>2, <2>4, Zenon DEF IInv
<1>7. CASE StepFails
  <2>1. /\ pc["src"] \in {"work", "pause", "paused"} /\ Fail
        /\ diverged' = (diverged \/ (pc["src"] = "work" /\ command = "Complete" /\ twin # "none"))
        /\ UNCHANGED <<vm, exit_evt, stale, request, response, twin, wanted>>
    BY <1>7, Zenon DEF StepFails, processes
  <2>2. response # "ok" /\ pc["src"] \in Sending
    BY <2>1, Zenon DEF IInv, SocketInv, Sending
  <2> QED
    BY <2>1, <2>2, FailInv, Zenon
<1> QED
  BY <1>1, <1>2, <1>3, <1>4, <1>5, <1>6, <1>7, WriteInv, PagesInv, ReadInv, CompleteInv, FailedInv, Zenon
     DEF SendMigration

\* A migration starts, or there is nobody to send it to.
LEMMA StartInv ==
    ASSUME TypeOK, IInv, NEW fds \in BOOLEAN, vm_send_migration(fds)
    PROVE  IInv'
<1>1. CASE Panic
  BY <1>1, GoneEndsInv, Zenon DEF Panic, Vmms
<1>2. CASE ~Panic
  <2>1. /\ pc["src"] = "loop" /\ (diverged => diverged')
        /\ vm["src"] # "Running" /\ twin # "none" => diverged'
        /\ UNCHANGED <<vm, exit_evt, stale, twin, wanted>>
        /\ \/ /\ pc["dst"] = "accept"
              /\ pc' = [pc EXCEPT !["src"] = "send", !["dst"] = "receive"]
              /\ command' = "Start"
              /\ open' = Vmms /\ request' = "None" /\ response' = "None"
           \/ Goto("src", "failed") /\ UNCHANGED <<command, socket>>
    BY <1>2, Zenon DEF vm_send_migration, processes
  <2>2. twin # "none" /\ vm["dst"] = "Running" => diverged'
    BY <2>1, Zenon DEF IInv, CopyInv, OneCopyRuns
  <2>3. CASE /\ pc["dst"] = "accept"
             /\ pc' = [pc EXCEPT !["src"] = "send", !["dst"] = "receive"]
             /\ command' = "Start"
             /\ open' = Vmms /\ request' = "None" /\ response' = "None"
    <3>1. pc'["src"] = "send" /\ pc'["dst"] = "receive"
      BY <2>3, Zenon DEF TypeOK, Vmms
    <3>2. PlaceInv' /\ SocketInv'
      BY <2>3, <3>1, Zenon DEF PlaceInv, SocketInv, Sending
    <3>3. CommandInv' /\ MemoryInv'
      BY <2>3, <3>1, Zenon DEF CommandInv, MemoryInv
    <3>4. TwinInv'
      BY <2>1, <2>3, <3>1, Zenon DEF IInv, TwinInv
    <3>5. WantedInv'
      BY <2>1, <2>3, <3>1, Zenon DEF IInv, WantedInv
    <3>6. CopyInv'
      BY <2>1, <2>2, <3>1, Zenon DEF IInv, CopyInv, OneCopyRuns
    <3> QED
      BY <3>2, <3>3, <3>4, <3>5, <3>6, Zenon DEF IInv
  <2>4. CASE Goto("src", "failed") /\ UNCHANGED <<command, socket>>
    <3>1. pc'["src"] = "failed" /\ pc'["dst"] = pc["dst"]
      BY <2>4, Moves, Zenon DEF Vmms
    <3>2. PlaceInv'
      BY <2>1, <3>1, Zenon DEF IInv, PlaceInv, Sending
    <3>3. SocketInv'
      BY <2>1, <2>4, <3>1, Zenon DEF IInv, SocketInv, Sending, socket
    <3>4. CommandInv' /\ MemoryInv'
      BY <3>1, Zenon DEF CommandInv, MemoryInv, Sending
    <3>5. TwinInv'
      BY <2>1, <2>4, <3>1, Zenon DEF IInv, TwinInv, Sending, socket
    <3>6. WantedInv'
      BY <2>1, <3>1, Zenon DEF IInv, WantedInv, Sending
    <3>7. CopyInv'
      BY <2>1, <2>2, <3>1, Zenon DEF IInv, CopyInv, OneCopyRuns
    <3> QED
      BY <3>2, <3>3, <3>4, <3>5, <3>6, <3>7, Zenon DEF IInv
  <2> QED
    BY <2>1, <2>3, <2>4, Zenon
<1> QED
  BY <1>1, <1>2, Zenon

-----------------------------------------------------------------------------
(* vm_receive_migration                                                     *)

\* What every handler of a command does: only a source that waits gets an answer.
LEMMA AnswerInv ==
    ASSUME TypeOK, IInv, NEW cmd \in Commands, Receives(cmd),
           \/ UNCHANGED <<pc, open>>
           \/ Return,
           vm'["src"] = vm["src"],
           response' = "ok" => "src" \in open /\ (cmd = "Memory" => table = {})
    PROVE  /\ UNCHANGED <<exit_evt, sending>>
           /\ pc["dst"] = "receive" /\ pc'["dst"] \in {"receive", "loop"}
           /\ request = cmd /\ request' = "None" /\ pc'["src"] = pc["src"]
           /\ pc["src"] \in Sending => Wire = cmd /\ pc["src"] \in {"pages", "await"} /\ "src" \in open
           /\ response' = "ok" => pc["src"] = "await" /\ Wire = cmd
           /\ PlaceInv' /\ SocketInv' /\ CommandInv'
<1>1. /\ pc["dst"] = "receive" /\ request = cmd /\ request' = "None"
      /\ UNCHANGED <<exit_evt, sending>>
  BY Zenon DEF Receives
<1>2. /\ pc'["src"] = pc["src"] /\ pc'["dst"] \in {"receive", "loop"}
      /\ "src" \in open' <=> "src" \in open
      /\ "dst" \in open' => pc'["dst"] = "receive"
  BY <1>1, ReturnMoves, Zenon
<1>3. pc["src"] \in Sending => Wire = cmd /\ pc["src"] \in {"pages", "await"} /\ "src" \in open
  BY <1>1, Zenon DEF IInv, SocketInv, Commands
<1>4. "src" \in open => pc["src"] \in Sending
  BY Zenon DEF IInv, SocketInv
<1>5. pc["src"] = "pages" => command \in {"Memory", "LastMemory"} /\ table # {}
  BY Zenon DEF IInv, CommandInv, MemoryInv, Sending
<1>6. response' = "ok" => pc["src"] = "await" /\ Wire = cmd
  BY <1>3, <1>4, <1>5, Zenon DEF Wire
<1>7. PlaceInv'
  BY <1>1, <1>2, Zenon DEF IInv, PlaceInv, Sending
<1>8. SocketInv'
  BY <1>1, <1>2, <1>6, Zenon DEF IInv, SocketInv
<1>9. CommandInv'
  BY <1>1, <1>2, Zenon DEF IInv, CommandInv, sending
<1> QED
  BY <1>1, <1>2, <1>3, <1>6, <1>7, <1>8, <1>9, Zenon

\* The commands before State: dst has no copy yet.
LEMMA EarlyInv ==
    ASSUME TypeOK, IInv, NEW cmd \in {"Start", "MemoryFd", "Config", "Memory"}, Receives(cmd),
           \/ UNCHANGED <<pc, open>>
           \/ Return,
           UNCHANGED <<vm, history>>,
           response' = "ok" => "src" \in open /\ (cmd = "Memory" => table = {}),
           \/ UNCHANGED stale /\ (cmd = "Config" => response' # "ok")
           \/ cmd = "Config" /\ stale' = (IF local THEN {} ELSE Pages)
    PROVE  IInv'
<1>1. /\ UNCHANGED <<exit_evt, sending>>
      /\ pc["dst"] = "receive" /\ pc'["dst"] \in {"receive", "loop"}
      /\ request = cmd /\ request' = "None" /\ pc'["src"] = pc["src"]
      /\ pc["src"] \in Sending => Wire = cmd /\ pc["src"] \in {"pages", "await"} /\ "src" \in open
      /\ response' = "ok" => pc["src"] = "await" /\ Wire = cmd
      /\ PlaceInv' /\ SocketInv' /\ CommandInv'
  BY AnswerInv, Zenon DEF Commands
<1>2. MemoryInv'
  BY <1>1, Zenon DEF IInv, MemoryInv, Sending, Wire, sending
<1>3. TwinInv'
  BY <1>1, Zenon DEF IInv, TwinInv, Sending, Wire, sending, history
<1>4. WantedInv'
  BY <1>1, Zenon DEF IInv, WantedInv, Sending, Wire, sending, history
<1>5. CopyInv'
  BY <1>1, Zenon DEF IInv, CopyInv, OneCopyRuns, Sending, sending, history
<1> QED
  BY <1>1, <1>2, <1>3, <1>4, <1>5, Zenon DEF IInv

\* The copy is made.
LEMMA StateInv ==
    ASSUME TypeOK, IInv, vm_receive_state
    PROVE  IInv'
<1>1. /\ Receives("State") /\ UNCHANGED stale
      /\ response' = "ok" => "src" \in open
      /\ \/ UNCHANGED <<pc, open>>
         \/ Return
  BY Zenon DEF vm_receive_state, Answer, Continue
<1>2. CASE response' # "ok" /\ UNCHANGED <<vm, history>>
  <2>1. /\ UNCHANGED <<exit_evt, sending>>
        /\ pc["dst"] = "receive" /\ pc'["dst"] \in {"receive", "loop"}
        /\ request' = "None" /\ pc'["src"] = pc["src"]
        /\ pc["src"] \in Sending => Wire = "State"
        /\ PlaceInv' /\ SocketInv' /\ CommandInv'
    BY <1>1, <1>2, AnswerInv, Zenon DEF Commands
  <2>2. MemoryInv'
    BY <1>1, <1>2, <2>1, Zenon DEF IInv, MemoryInv, Sending, sending
  <2>3. TwinInv'
    BY <1>1, <1>2, <2>1, Zenon DEF IInv, TwinInv, Sending, sending, history
  <2>4. WantedInv'
    BY <1>2, <2>1, Zenon DEF IInv, WantedInv, Sending, sending, history
  <2>5. CopyInv'
    BY <1>2, <2>1, Zenon DEF IInv, CopyInv, OneCopyRuns, Sending, sending, history
  <2> QED
    BY <2>1, <2>2, <2>3, <2>4, <2>5, Zenon DEF IInv
<1>3. CASE /\ Set("dst", "Paused")
           /\ IF "src" \in open
              THEN twin' = "copy" /\ diverged' = FALSE /\ UNCHANGED wanted
              ELSE Ends("dst")
  <2>1. vm'["dst"] = "Paused" /\ vm'["src"] = vm["src"]
    BY <1>3, Moves, Zenon DEF Vmms
  <2>2. /\ UNCHANGED <<exit_evt, sending>>
        /\ pc["dst"] = "receive" /\ pc'["dst"] \in {"receive", "loop"}
        /\ request' = "None" /\ pc'["src"] = pc["src"]
        /\ pc["src"] \in Sending => Wire = "State" /\ "src" \in open
        /\ PlaceInv' /\ SocketInv' /\ CommandInv'
    BY <1>1, <2>1, AnswerInv, Zenon DEF Commands
  <2>3. pc["src"] \in Sending => command = "State"
    BY <2>2, Zenon DEF Wire
  <2>4. MemoryInv'
    BY <1>1, <2>1, <2>2, <2>3, Zenon DEF IInv, MemoryInv, Sending, sending
  <2>5. /\ twin' # "none" => vm'["dst"] = "Paused"
        /\ pc["src"] \in Sending => twin' = "copy"
    BY <1>3, <2>1, <2>2, Zenon DEF Ends, IInv, TwinInv, history
  <2>6. /\ wanted' => wanted
        /\ "src" \notin open /\ vm["dst"] # "None" => twin' = "none" /\ (wanted' => Elsewhere("dst"))
        /\ "src" \notin open /\ vm["dst"] = "None" => twin' = twin
        /\ "src" \in open => twin' = "copy"
    BY <1>3, Zenon DEF Ends, history
  <2>7. TwinInv'
    BY <2>2, <2>5, Zenon DEF TwinInv
  <2>8. WantedInv'
    BY <2>1, <2>2, <2>3, <2>6, Zenon DEF IInv, WantedInv, TwinInv, SocketInv, Elsewhere, sending
  <2>9. CopyInv'
    BY <2>1, Zenon DEF CopyInv, OneCopyRuns
  <2> QED
    BY <2>2, <2>4, <2>7, <2>8, <2>9, Zenon DEF IInv
<1> QED
  BY <1>2, <1>3, Zenon DEF vm_receive_state, Answer

\* The copy is run, or is not.
LEMMA TakeInv ==
    ASSUME TypeOK, IInv, receive_complete
    PROVE  IInv'
<1>1. /\ Receives("Complete") /\ Return /\ UNCHANGED <<stale, diverged>>
      /\ response # "ok" /\ response' = "ok" => "src" \in open
      /\ vm'["src"] = vm["src"]
  BY Moves, Zenon DEF receive_complete, Answer, Vmms
<1>2. pc["src"] \in Sending => response # "ok"
  BY <1>1, Zenon DEF Receives, IInv, SocketInv
<1>3. response = "ok" => pc["src"] \in Sending
  BY Zenon DEF IInv, SocketInv, Sending
<1>4. /\ UNCHANGED <<exit_evt, sending>>
      /\ pc'["dst"] = "loop"
      /\ request = "Complete" /\ request' = "None" /\ pc'["src"] = pc["src"]
      /\ pc["src"] \in Sending => Wire = "Complete" /\ pc["src"] \in {"pages", "await"}
      /\ response' = "ok" => pc["src"] = "await"
      /\ PlaceInv' /\ SocketInv' /\ CommandInv'
  BY <1>1, <1>2, <1>3, AnswerInv, ReturnMoves, Zenon DEF Commands
<1>5. pc["src"] \in Sending => command = "Complete" /\ pc["src"] = "await" /\ vm["src"] = "Paused"
  BY <1>4, Zenon DEF IInv, MemoryInv, CommandInv, Wire
<1>6. MemoryInv'
  BY <1>1, <1>4, <1>5, Zenon DEF IInv, MemoryInv, sending
<1>7. CASE /\ Set("dst", "Running")
           /\ twin' = IF twin = "copy" THEN "taken" ELSE twin
           /\ wanted' = (wanted /\ ~exit_evt["dst"])
           /\ Answer("ok")
  <2>1. /\ vm'["dst"] = "Running"
        /\ twin # "none" => twin' = "taken"
        /\ twin = "none" => twin' = "none"
        /\ wanted' => wanted /\ ~exit_evt["dst"]
    BY <1>7, Moves, Zenon DEF Vmms, TypeOK
  <2>2. pc["src"] \in Sending => twin # "none"
    BY <1>4, <1>5, Zenon DEF IInv, TwinInv, Receives, SocketInv
  <2>3. TwinInv'
    BY <1>4, <2>1, Zenon DEF TwinInv
  <2>4. WantedInv'
    BY <1>1, <1>4, <1>5, <2>1, <2>2, Zenon DEF IInv, WantedInv, sending
  <2>5. CopyInv'
    BY <1>1, <1>4, <1>5, <2>1, Zenon
       DEF IInv, CopyInv, OneCopyRuns, TwinInv, PlaceInv, Sending, sending
  <2> QED
    BY <1>4, <1>6, <2>3, <2>4, <2>5, Zenon DEF IInv
<1>8. CASE UNCHANGED <<vm, twin, wanted, response>>
  <2>1. TwinInv'
    BY <1>4, <1>8, Zenon DEF IInv, TwinInv
  <2>2. WantedInv'
    BY <1>4, <1>8, Zenon DEF IInv, WantedInv, sending
  <2>3. CopyInv'
    BY <1>1, <1>4, <1>8, Zenon DEF IInv, CopyInv, OneCopyRuns, sending
  <2> QED
    BY <1>4, <1>6, <2>1, <2>2, <2>3, Zenon DEF IInv
<1> QED
  BY <1>7, <1>8, Zenon DEF receive_complete

\* The steps of vm_receive_migration.
LEMMA ReceiveInv ==
    ASSUME TypeOK, IInv, ReceiveMigration
    PROVE  IInv'
<1>1. CASE receive_start
  BY <1>1, EarlyInv, Zenon DEF receive_start, Answer, Continue
<1>2. CASE receive_memory_fd
  BY <1>2, EarlyInv, Zenon DEF receive_memory_fd, Answer, Continue
<1>3. CASE vm_receive_config
  BY <1>3, EarlyInv, Zenon DEF vm_receive_config, Answer, Continue
<1>4. CASE vm_receive_memory
  BY <1>4, EarlyInv, Zenon DEF vm_receive_memory, Answer, Continue
<1>5. CASE receive_fails
  <2>1. /\ pc["dst"] = "receive" /\ request = "None" /\ "src" \notin open
        /\ UNCHANGED <<vm, exit_evt, command, stale, request, response, sending, history>>
        /\ pc'["src"] = pc["src"] /\ pc'["dst"] = "loop"
        /\ "dst" \notin open' /\ "src" \notin open'
    BY <1>5, ReturnMoves, Zenon DEF receive_fails, processes, sending
  <2>2. PlaceInv' /\ CommandInv'
    BY <2>1, Zenon DEF IInv, PlaceInv, CommandInv
  <2>3. SocketInv'
    BY <2>1, Zenon DEF IInv, SocketInv
  <2>4. MemoryInv'
    BY <2>1, Zenon DEF IInv, MemoryInv, sending
  <2>5. TwinInv'
    BY <2>1, Zenon DEF IInv, TwinInv, history
  <2>6. WantedInv'
    BY <2>1, Zenon DEF IInv, WantedInv, history
  <2>7. CopyInv'
    BY <2>1, Zenon DEF IInv, CopyInv, OneCopyRuns, history
  <2> QED
    BY <2>2, <2>3, <2>4, <2>5, <2>6, <2>7, Zenon DEF IInv
<1> QED
  BY <1>1, <1>2, <1>3, <1>4, <1>5, StateInv, TakeInv, Zenon DEF ReceiveMigration

-----------------------------------------------------------------------------
(* The guest, the network and the host                                      *)

\* What the guest, the network and the host do.
LEMMA HostInv ==
    ASSUME TypeOK, IInv
    PROVE  /\ vm_receive_migration => IInv'
           /\ \A p \in Pages : GuestWrites(p) => IInv'
           /\ \A h \in Vmms : GuestResets(h) \/ GuestShutsDown(h) => IInv'
           /\ \A ends \in (SUBSET open) \ {{}} : Cut(ends) => IInv'
<1>1. ASSUME vm_receive_migration PROVE IInv'
  <2>1. /\ pc["dst"] = "loop" /\ pc'["dst"] = "accept" /\ pc'["src"] = pc["src"]
        /\ UNCHANGED <<vm, exit_evt, sending, stale, socket, history>>
    BY <1>1, Moves, Zenon DEF vm_receive_migration, processes, Vmms
  <2>2. PlaceInv' /\ CommandInv'
    BY <2>1, Zenon DEF IInv, PlaceInv, CommandInv, sending
  <2>3. SocketInv'
    BY <2>1, Zenon DEF IInv, SocketInv, Wire, socket, sending
  <2>4. MemoryInv'
    BY <2>1, Zenon DEF IInv, MemoryInv, sending, socket
  <2>5. TwinInv'
    BY <2>1, Zenon DEF IInv, TwinInv, sending, socket, history
  <2>6. WantedInv'
    BY <2>1, Zenon DEF IInv, WantedInv, sending, socket, history
  <2>7. CopyInv'
    BY <2>1, Zenon DEF IInv, CopyInv, OneCopyRuns, sending, history
  <2> QED
    BY <2>2, <2>3, <2>4, <2>5, <2>6, <2>7, Zenon DEF IInv
<1>2. ASSUME NEW p \in Pages, GuestWrites(p) PROVE IInv'
  <2>1. /\ pc["src"] \in Sending /\ ~local /\ vm["src"] = "Running"
        /\ stale' = stale \union {p} /\ (logging => dirty' = dirty \union {p})
        /\ UNCHANGED <<vm, exit_evt, pc, command, local, logging, table, socket, history>>
    BY <1>2, Zenon DEF GuestWrites, processes, IInv, PlaceInv
  <2>2. PlaceInv' /\ CommandInv'
    BY <2>1, Zenon DEF IInv, PlaceInv, CommandInv
  <2>3. SocketInv'
    BY <2>1, Zenon DEF IInv, SocketInv, Wire, socket
  <2>4. MemoryInv'
    BY <2>1, Zenon DEF IInv, MemoryInv, socket
  <2>5. TwinInv'
    BY <2>1, Zenon DEF IInv, TwinInv, socket, history
  <2>6. WantedInv'
    BY <2>1, Zenon DEF IInv, WantedInv, socket, history
  <2>7. CopyInv'
    BY <2>1, Zenon DEF IInv, CopyInv, OneCopyRuns, history
  <2> QED
    BY <2>2, <2>3, <2>4, <2>5, <2>6, <2>7, Zenon DEF IInv
<1>3. ASSUME NEW h \in Vmms, GuestResets(h) PROVE IInv'
  BY <1>3, InvUnchanged, Zenon DEF GuestResets
<1>4. ASSUME NEW h \in Vmms, GuestShutsDown(h) PROVE IInv'
  <2>1. /\ vm[h] = "Running" /\ (wanted' => wanted /\ Elsewhere(h))
        /\ exit_evt' = [exit_evt EXCEPT ![h] = TRUE]
        /\ UNCHANGED <<vm, pc, sending, stale, socket, twin, diverged>>
    BY <1>4, Zenon DEF GuestShutsDown, Asks
  <2>2. /\ h = "src" => exit_evt'["dst"] = exit_evt["dst"]
        /\ h = "dst" => exit_evt'["src"] = exit_evt["src"]
    BY <2>1, Zenon DEF TypeOK, Vmms
  <2>3. PlaceInv' /\ CommandInv'
    BY <2>1, <2>2, Zenon DEF IInv, PlaceInv, CommandInv, sending, Vmms
  <2>4. SocketInv'
    BY <2>1, Zenon DEF IInv, SocketInv, Wire, sending, socket
  <2>5. MemoryInv'
    BY <2>1, Zenon DEF IInv, MemoryInv, sending, socket
  <2>6. TwinInv'
    BY <2>1, Zenon DEF IInv, TwinInv, sending, socket
  <2>7. pc["src"] \in Sending /\ command = "Complete" => vm["src"] = "Paused"
    BY Zenon DEF IInv, MemoryInv
  <2>8. WantedInv'
    BY <2>1, <2>2, <2>7, Zenon DEF IInv, WantedInv, TwinInv, Elsewhere, sending, socket, Vmms
  <2>9. CopyInv'
    BY <2>1, Zenon DEF IInv, CopyInv, OneCopyRuns, sending
  <2> QED
    BY <2>3, <2>4, <2>5, <2>6, <2>8, <2>9, Zenon DEF IInv
<1>5. ASSUME NEW ends \in (SUBSET open) \ {{}}, Cut(ends) PROVE IInv'
  <2>1. /\ "src" \in open' => "src" \in open /\ "src" \notin ends
        /\ "dst" \in open' => "dst" \in open
        /\ request' \in {"None", request} /\ response' \in {"None", response}
        /\ request' # "None" => "src" \notin ends
        /\ UNCHANGED <<vm, exit_evt, pc, sending, stale, history>>
        /\ "src" \in open /\ "src" \notin ends => "src" \in open'
    BY <1>5, Zenon DEF Cut, processes
  <2>2. PlaceInv' /\ CommandInv'
    BY <2>1, Zenon DEF IInv, PlaceInv, CommandInv, sending
  <2>3. SocketInv'
    BY <2>1, Zenon DEF IInv, SocketInv, Wire, sending
  <2>4. MemoryInv'
    BY <2>1, Zenon DEF IInv, MemoryInv, sending
  <2>5. TwinInv'
    BY <2>1, Zenon DEF IInv, TwinInv, sending, history
  <2>6. WantedInv'
    BY <2>1, Zenon DEF IInv, WantedInv, sending, history
  <2>7. CopyInv'
    BY <2>1, Zenon DEF IInv, CopyInv, OneCopyRuns, sending, history
  <2> QED
    BY <2>2, <2>3, <2>4, <2>5, <2>6, <2>7, Zenon DEF IInv
<1> QED
  BY <1>1, <1>2, <1>3, <1>4, <1>5, Zenon

\* Every step preserves the invariant.
LEMMA InvStep == TypeOK /\ IInv /\ [Next]_vars => IInv'
<1> SUFFICES ASSUME TypeOK, IInv, [Next]_vars PROVE IInv'
  OBVIOUS
<1>1. ASSUME NEW h \in Vmms, Request(h) \/ ExitEvent(h) \/ Crash(h)
      PROVE  IInv'
  BY <1>1, RequestInv, Zenon
<1>2. ASSUME NEW fds \in BOOLEAN, vm_send_migration(fds)
      PROVE  IInv'
  BY <1>2, StartInv, Zenon
<1>3. CASE SendMigration \/ ReceiveMigration
  BY <1>3, SendInv, ReceiveInv, Zenon
<1>4. CASE \/ vm_receive_migration
           \/ \E p \in Pages : GuestWrites(p)
           \/ \E h \in Vmms : GuestResets(h) \/ GuestShutsDown(h)
           \/ \E ends \in (SUBSET open) \ {{}} : Cut(ends)
  BY <1>4, HostInv, Zenon
<1>5. CASE UNCHANGED vars
  BY <1>5, InvUnchanged, Zenon DEF vars, processes
<1> QED
  BY <1>1, <1>2, <1>3, <1>4, <1>5, Zenon DEF Next

\* The invariant holds.
THEOREM Inductive == Spec => [](TypeOK /\ IInv)
<1>1. Init => IInv
  BY Zenon DEF Init, IInv, PlaceInv, SocketInv, CommandInv, MemoryInv, TwinInv, WantedInv, CopyInv,
         OneCopyRuns, Vmms, Sending
<1>2. TypeOK /\ IInv /\ [Next]_vars => (TypeOK /\ IInv)'
  BY TypeStep, InvStep, Zenon
<1> QED
  BY <1>1, <1>2, TypeCorrect, InvStep, PTL DEF Spec

-----------------------------------------------------------------------------
(* The properties                                                           *)

\* The VM and its copy run at the same time only when something other than the
\* migration ran one of them.
THEOREM OneCopyTheorem == Spec => []OneCopyRuns
<1>1. IInv => OneCopyRuns
  BY Zenon DEF IInv, CopyInv
<1> QED
  BY <1>1, Inductive, PTL

\* Whatever is lost during a migration, the VM is at src or at dst.
THEOREM NeverLostTheorem == Spec => []NeverLost
<1>1. IInv => NeverLost
  BY Zenon DEF IInv, TwinInv, WantedInv, NeverLost
<1> QED
  BY <1>1, Inductive, PTL

\* The destination takes over a VM with all of its memory, from a source that does not
\* run it: only receive_complete takes over.
THEOREM HandoverTheorem == Spec => HandsOverAllMemory
<1> DEFINE Takes == twin' = "taken" /\ twin # "taken" /\ ~diverged
<1>1. ASSUME TypeOK, IInv, Next, Takes
      PROVE  stale = {} /\ vm["src"] # "Running"
  <2>1. receive_complete
    <3>1. ~ \E h \in Vmms : Ends(h) \/ Runs(h) \/ UNCHANGED twin
      BY <1>1, Zenon DEF Ends, Runs, history, Vmms
    <3>2. \A h \in Vmms, b \in BOOLEAN : ~Begins(h, b)
      BY <1>1, Zenon DEF Begins
    <3>3. ~ \E h \in Vmms : Request(h) \/ ExitEvent(h)
      BY <1>1, <3>1, <3>2, Zenon
         DEF Request, ExitEvent, vm_create, vm_boot, vm_pause, vm_resume, vm_restore,
             vm_shutdown, vm_delete, vm_reboot, vmm_shutdown, ResetEvent, history
    <3>4. ~ SendMigration /\ ~ \E fds \in BOOLEAN : vm_send_migration(fds)
      BY <1>1, <3>1, Zenon
         DEF SendMigration, send_request, send_memory_regions, read_response, SendConfig,
             start_dirty_log, DirtyPass, pause, LastPass, stop_dirty_log, SendComplete,
             complete_migration, StepFails, migration_failed, vm_send_migration, Panic, Answered,
             history, Vmms
    <3>5. /\ ~vm_receive_migration
          /\ ~ \E p \in Pages : GuestWrites(p)
          /\ ~ \E h \in Vmms : GuestResets(h) \/ GuestShutsDown(h) \/ Crash(h)
          /\ ~ \E ends \in (SUBSET open) \ {{}} : Cut(ends)
      BY <1>1, <3>1, Zenon
         DEF vm_receive_migration, GuestWrites, GuestResets, GuestShutsDown, Crash, Cut, history
    <3>6. /\ ~receive_start /\ ~receive_memory_fd /\ ~vm_receive_config /\ ~vm_receive_memory
          /\ ~vm_receive_state /\ ~receive_fails
      BY <1>1, <3>1, Zenon
         DEF receive_start, receive_memory_fd, vm_receive_config, vm_receive_memory,
             vm_receive_state, receive_fails, history, Vmms
    <3> QED
      BY <1>1, <3>3, <3>4, <3>5, <3>6, Zenon DEF Next, ReceiveMigration
  <2>2. request = "Complete" /\ twin # "none"
    BY <1>1, <2>1, Zenon DEF receive_complete, Receives, history
  <2>3. CASE pc["src"] \in Sending
    BY <1>1, <2>2, <2>3, Zenon DEF IInv, SocketInv, MemoryInv, Wire, TypeOK, Commands
  <2>4. CASE pc["src"] \notin Sending
    BY <1>1, <2>2, <2>4, Zenon DEF IInv, TwinInv, PlaceInv, Vmms
  <2> QED
    BY <2>3, <2>4, Zenon
<1>2. TypeOK /\ IInv /\ [Next]_vars => [Takes => stale = {} /\ vm["src"] # "Running"]_vars
  BY <1>1, Zenon
<1> QED
  BY <1>2, Inductive, PTL DEF Spec, HandsOverAllMemory

-----------------------------------------------------------------------------
(* Neither end of a migration waits for the other while that one waits too.*)

\* A command comes when vm_receive_migration is ready for it: it is never answered with
\* "Migration not started yet", "Configuration not sent yet" or "VM not created yet",
\* the answers after which the loop goes on, or ends, without having done anything.
InOrder ==
    pc["dst"] = "receive" =>
        /\ request \in {"MemoryFd", "Config", "Memory", "State"} => started
        /\ request \in {"Memory", "State"} => memory_manager
        /\ request = "Complete" => vm["dst"] # "None"

\* read_response blocks, and so does Request::read_from.
SrcWaits == pc["src"] = "await" /\ response = "None" /\ "dst" \in open

DstWaits == pc["dst"] = "receive" /\ request = "None" /\ "src" \in open

\* The two processes never wait for each other.
NoMutualWait == ~(SrcWaits /\ DstWaits)

\* What dst has is what src, by the command it is at, takes it to have.
Reached ==
    pc["dst"] = "receive" /\ pc["src"] \in Sending =>
        /\ command # "Start" \/ response = "ok" \/ pc["src"] = "work" => started
        /\ \/ command \in {"Memory", "LastMemory"}
           \/ command = "State" /\ pc["src"] = "send"
           \/ /\ command = "Config"
              /\ response = "ok" \/ pc["src"] \in {"work", "pause", "paused"}
           => memory_manager

\* A request that was written is on its way, or its answer is, unless the connection is lost.
Carried ==
    "src" \in open /\ "dst" \in open /\ pc["src"] \in {"pages", "await"} =>
        request # "None" \/ response # "None"

OrderInv == InOrder /\ Reached /\ Carried

\* A step that leaves the migration alone.
LEMMA OrderKept ==
    ASSUME OrderInv, UNCHANGED <<pc, command, started, memory_manager, open, request, response>>,
           pc["dst"] = "receive" => vm'["dst"] = vm["dst"]
    PROVE  OrderInv'
<1>1. InOrder'
  BY Zenon DEF OrderInv, InOrder
<1>2. Reached'
  BY Zenon DEF OrderInv, Reached
<1>3. Carried'
  BY Zenon DEF OrderInv, Carried
<1> QED
  BY <1>1, <1>2, <1>3, Zenon DEF OrderInv

\* A request to a process, or what its guest asks for.
LEMMA OrderHandles ==
    ASSUME TypeOK, OrderInv, NEW h \in Vmms, Handles(h),
           vm' = vm \/ \E s \in VmStates \union {"None"} : Set(h, s)
    PROVE  OrderInv'
<1>1. /\ pc[h] = "loop"
      /\ UNCHANGED <<pc, command, started, memory_manager, open, request, response>>
  BY Zenon DEF Handles, sending, receiving, socket
<1>2. h = "src" => vm'["dst"] = vm["dst"]
  BY Moves, Zenon
<1> QED
  BY <1>1, <1>2, OrderKept, Zenon DEF Vmms

\* The end of a process.
LEMMA OrderGone ==
    ASSUME TypeOK, OrderInv, NEW h \in Vmms, Gone(h)
    PROVE  OrderInv'
<1>1. CASE h = "src"
  <2>1. /\ pc'["src"] = "gone" /\ pc'["dst"] = pc["dst"] /\ vm'["dst"] = vm["dst"]
        /\ UNCHANGED request
    BY <1>1, GoneMoves, Zenon DEF Vmms
  <2>2. UNCHANGED <<started, memory_manager>>
    BY <1>1, Zenon DEF Gone, receiving
  <2>3. InOrder'
    BY <2>1, <2>2, Zenon DEF OrderInv, InOrder
  <2>4. Reached' /\ Carried'
    BY <2>1, Zenon DEF Reached, Carried, Sending
  <2> QED
    BY <2>3, <2>4, Zenon DEF OrderInv
<1>2. CASE h = "dst"
  <2>1. pc'["dst"] = "gone" /\ open' = open \ {"dst"}
    BY <1>2, GoneMoves, Zenon DEF Vmms
  <2> QED
    BY <2>1, Zenon DEF OrderInv, InOrder, Reached, Carried
<1> QED
  BY <1>1, <1>2, Zenon DEF Vmms

\* The requests and events of the control loop.
LEMMA OrderRequest ==
    ASSUME TypeOK, OrderInv, NEW h \in Vmms, Request(h) \/ ExitEvent(h) \/ Crash(h)
    PROVE  OrderInv'
<1>1. CASE \/ vm_create(h) \/ vm_boot(h) \/ vm_pause(h) \/ vm_resume(h) \/ vm_restore(h)
           \/ vm_shutdown(h) \/ vm_delete(h) \/ vm_reboot(h)
  <2>1. Handles(h)
    BY <1>1, Zenon
       DEF vm_create, vm_boot, vm_pause, vm_resume, vm_restore, vm_shutdown, vm_delete, vm_reboot
  <2>2. vm' = vm \/ Set(h, "Running") \/ Set(h, "Created") \/ Set(h, "Paused") \/ Set(h, "None")
    BY <1>1, Zenon
       DEF vm_create, vm_boot, vm_pause, vm_resume, vm_restore, vm_shutdown, vm_delete, vm_reboot
  <2>3. vm' = vm \/ \E s \in VmStates \union {"None"} : Set(h, s)
    BY <2>2, Zenon DEF VmStates
  <2> QED
    BY <2>1, <2>3, OrderHandles, Zenon
<1>2. CASE vmm_shutdown(h) \/ ExitEvent(h) \/ Crash(h)
  BY <1>2, OrderGone, Zenon DEF vmm_shutdown, ExitEvent, Crash
<1>3. CASE ResetEvent(h)
  <2>1. \/ Handles(h) /\ Set(h, "Running")
        \/ Gone(h)
    BY <1>3, Zenon DEF ResetEvent
  <2>2. "Running" \in VmStates \union {"None"}
    BY Zenon DEF VmStates
  <2> QED
    BY <2>1, <2>2, OrderHandles, OrderGone, Zenon
<1> QED
  BY <1>1, <1>2, <1>3, Zenon DEF Request

\* send_migration fails: nothing is asked of what dst has any more.
LEMMA OrderFail ==
    ASSUME TypeOK, OrderInv, Fail, UNCHANGED <<vm, started, memory_manager, request>>
    PROVE  OrderInv'
<1>1. pc'["src"] = "failed" /\ pc'["dst"] = pc["dst"] /\ "src" \notin open'
  BY Moves, Zenon DEF Fail, Returns, Vmms
<1>2. InOrder'
  BY <1>1, Zenon DEF OrderInv, InOrder
<1>3. Reached' /\ Carried'
  BY <1>1, Zenon DEF Reached, Carried, Sending
<1> QED
  BY <1>2, <1>3, Zenon DEF OrderInv

\* Between an answer and the next request: the next command needs no more of dst than
\* the answer has made sure of.
LEMMA OrderWork ==
    ASSUME TypeOK, IInv, OrderInv,
           NEW place \in {"send", "pause", "paused"},
           pc["src"] \in {"work", "pause", "paused"}, Goto("src", place),
           vm'["dst"] = vm["dst"],
           UNCHANGED <<started, memory_manager, open, request, response>>,
           \/ place # "send" /\ command' = command
           \/ place = "send" /\ command' \in {"MemoryFd", "Config", "Complete"}
           \/ command \in {"Config", "Memory", "LastMemory"}
    PROVE  OrderInv'
<1>1. /\ pc'["src"] = place /\ pc'["dst"] = pc["dst"] /\ pc["src"] \in Sending
  BY Moves, Zenon DEF Vmms, Sending
<1>2. response # "ok"
  BY Zenon DEF IInv, SocketInv
<1>3. InOrder'
  BY <1>1, Zenon DEF OrderInv, InOrder
<1>4. pc["dst"] = "receive" => started
  BY <1>1, Zenon DEF OrderInv, Reached, IInv, CommandInv
<1>5. pc["dst"] = "receive" /\ command \in {"Config", "Memory", "LastMemory"} => memory_manager
  BY <1>1, Zenon DEF OrderInv, Reached
<1>6. Reached'
  BY <1>1, <1>2, <1>4, <1>5, Zenon DEF Reached
<1>7. Carried'
  BY <1>1, Zenon DEF Carried
<1> QED
  BY <1>3, <1>6, <1>7, Zenon DEF OrderInv

\* A request is written.
LEMMA OrderWrite ==
    ASSUME TypeOK, IInv, OrderInv, send_request
    PROVE  OrderInv'
<1>1. CASE "dst" \notin open
  <2>1. \/ Gone("src")
        \/ Fail /\ UNCHANGED <<vm, started, memory_manager, request>>
    BY <1>1, Zenon DEF send_request, Panic, processes, receiving
  <2> QED
    BY <2>1, OrderGone, OrderFail, Zenon DEF Vmms
<1>2. CASE "dst" \in open
  <2>1. /\ pc["src"] = "send" /\ response # "ok"
        /\ request' = IF "src" \in open THEN Wire ELSE "None"
        /\ UNCHANGED <<vm, command, started, memory_manager, open, response>>
        /\ Goto("src", IF Wire = "Memory" THEN "pages" ELSE "await")
    BY <1>2, Zenon DEF send_request, IInv, SocketInv, processes, sending, receiving
  <2>2. pc'["src"] \in {"pages", "await"} /\ pc'["dst"] = pc["dst"] /\ pc["src"] \in Sending
    BY <2>1, Moves, Zenon DEF Vmms, Sending
  <2>3. pc["dst"] = "receive" /\ command # "Start" => started
    BY <2>2, Zenon DEF OrderInv, Reached
  <2>4. pc["dst"] = "receive" /\ command \in {"Memory", "LastMemory", "State"} => memory_manager
    BY <2>1, <2>2, Zenon DEF OrderInv, Reached
  <2>5. pc["dst"] = "receive" /\ command = "Complete" => vm["dst"] # "None"
    BY <2>2, Zenon DEF IInv, TwinInv
  <2>6. request' # "None" => request' = Wire
    BY <2>1, Zenon
  <2>7. InOrder'
    BY <2>1, <2>2, <2>3, <2>4, <2>5, <2>6, Zenon DEF InOrder, Wire
  <2>8. Reached'
    BY <2>1, <2>2, <2>3, <2>4, Zenon DEF Reached
  <2>9. Wire # "None"
    BY Zenon DEF Wire, TypeOK, Commands
  <2>10. Carried'
    BY <2>1, <2>9, Zenon DEF Carried
  <2> QED
    BY <2>7, <2>8, <2>10, Zenon DEF OrderInv
<1> QED
  BY <1>1, <1>2, Zenon

\* A page is written, or the answer read.
LEMMA OrderRead ==
    ASSUME TypeOK, IInv, OrderInv,
           read_response \/ \E p \in Pages : send_memory_regions(p)
    PROVE  OrderInv'
<1>1. CASE read_response
  <2>1. CASE Fail
    BY <1>1, <2>1, OrderFail, Zenon DEF read_response, processes, receiving
  <2>2. CASE response = "ok" /\ Goto("src", "work") /\ UNCHANGED <<command, open>>
    <3>1. /\ pc["src"] = "await" /\ response' = "None"
          /\ UNCHANGED <<vm, started, memory_manager, request>>
      BY <1>1, Zenon DEF read_response, processes, receiving
    <3>2. pc'["src"] = "work" /\ pc'["dst"] = pc["dst"] /\ pc["src"] \in Sending
      BY <2>2, <3>1, Moves, Zenon DEF Vmms, Sending
    <3>3. InOrder'
      BY <3>1, <3>2, Zenon DEF OrderInv, InOrder
    <3>4. Reached'
      BY <2>2, <3>1, <3>2, Zenon DEF OrderInv, Reached
    <3>5. Carried'
      BY <3>2, Zenon DEF Carried
    <3> QED
      BY <3>3, <3>4, <3>5, Zenon DEF OrderInv
  <2> QED
    BY <1>1, <2>1, <2>2, Zenon DEF read_response
<1>2. ASSUME NEW p \in Pages, send_memory_regions(p) PROVE OrderInv'
  <2>1. /\ pc["src"] = "pages"
        /\ UNCHANGED <<vm, started, memory_manager, request, response>>
    BY <1>2, Zenon DEF send_memory_regions, processes, receiving
  <2>2. CASE Fail
    BY <2>1, <2>2, OrderFail, Zenon
  <2>3. CASE /\ Goto("src", IF table' = {} THEN "await" ELSE "pages")
             /\ UNCHANGED <<command, open>>
    <3>1. pc'["src"] \in {"pages", "await"} /\ pc'["dst"] = pc["dst"] /\ pc["src"] \in Sending
      BY <2>1, <2>3, Moves, Zenon DEF Vmms, Sending
    <3>2. InOrder'
      BY <2>1, <3>1, Zenon DEF OrderInv, InOrder
    <3>3. Reached'
      BY <2>1, <2>3, <3>1, Zenon DEF OrderInv, Reached
    <3>4. Carried'
      BY <2>1, <2>3, <3>1, Zenon DEF OrderInv, Carried
    <3> QED
      BY <3>2, <3>3, <3>4, Zenon DEF OrderInv
  <2> QED
    BY <1>2, <2>2, <2>3, Zenon DEF send_memory_regions
<1> QED
  BY <1>1, <1>2, Zenon

\* The steps of vm_send_migration.
LEMMA OrderSend ==
    ASSUME TypeOK, IInv, OrderInv, SendMigration
    PROVE  OrderInv'
<1>1. CASE SendConfig
  <2>1. /\ pc["src"] = "work" /\ Goto("src", "send") /\ command' \in {"MemoryFd", "Config"}
        /\ UNCHANGED <<vm, started, memory_manager, open, request, response>>
    BY <1>1, Zenon DEF SendConfig, Answered, Send, receiving
  <2> QED
    BY <2>1, OrderWork, Zenon
<1>2. CASE start_dirty_log \/ DirtyPass
  <2>1. /\ pc["src"] = "work" /\ command \in {"Config", "Memory"}
        /\ UNCHANGED <<vm, started, memory_manager, open, request, response>>
        /\ Goto("src", "send") \/ Goto("src", "pause")
    BY <1>2, Zenon DEF start_dirty_log, DirtyPass, SendDirty, Answered, Send, receiving
  <2> QED
    BY <2>1, OrderWork, Zenon
<1>3. CASE pause
  <2>1. /\ pc["src"] = "pause" /\ Goto("src", "paused") /\ Set("src", "Paused")
        /\ UNCHANGED <<command, started, memory_manager, open, request, response>>
    BY <1>3, Zenon DEF pause, sending, receiving, socket
  <2>2. vm'["dst"] = vm["dst"]
    BY <2>1, Moves, Zenon DEF Vmms
  <2> QED
    BY <2>1, <2>2, OrderWork, Zenon
<1>4. CASE LastPass
  <2>1. /\ pc["src"] = "paused" /\ Goto("src", "send")
        /\ UNCHANGED <<vm, started, memory_manager, open, request, response>>
    BY <1>4, Zenon DEF LastPass, SendDirty, Send, processes, receiving, socket
  <2>2. command \in {"Config", "Memory"}
    BY <2>1, Zenon DEF IInv, CommandInv
  <2> QED
    BY <2>1, <2>2, OrderWork, Zenon
<1>5. CASE stop_dirty_log \/ SendComplete
  <2>1. /\ pc["src"] = "work" /\ Goto("src", "send")
        /\ UNCHANGED <<vm, started, memory_manager, open, request, response>>
        /\ command = "LastMemory" \/ command' = "Complete"
    BY <1>5, Zenon DEF stop_dirty_log, SendComplete, Answered, Send, receiving
  <2> QED
    BY <2>1, OrderWork, Zenon
<1>6. CASE complete_migration \/ migration_failed
  <2>1. /\ UNCHANGED <<started, memory_manager, request>>
        /\ pc'["src"] = "loop" /\ pc'["dst"] = pc["dst"] /\ vm'["dst"] = vm["dst"]
    BY <1>6, Moves, Zenon DEF complete_migration, migration_failed, Returns, receiving, socket, Vmms
  <2>2. InOrder'
    BY <2>1, Zenon DEF OrderInv, InOrder
  <2>3. Reached' /\ Carried'
    BY <2>1, Zenon DEF Reached, Carried, Sending
  <2> QED
    BY <2>2, <2>3, Zenon DEF OrderInv
<1>7. CASE StepFails
  BY <1>7, OrderFail, Zenon DEF StepFails, processes, receiving
<1> QED
  BY <1>1, <1>2, <1>3, <1>4, <1>5, <1>6, <1>7, OrderWrite, OrderRead, Zenon DEF SendMigration

\* The handlers of vm_receive_migration that return.
LEMMA OrderReturn ==
    ASSUME TypeOK, Return
    PROVE  OrderInv'
<1>1. pc'["dst"] = "loop" /\ "dst" \notin open'
  BY ReturnMoves, Zenon
<1> QED
  BY <1>1, Zenon DEF OrderInv, InOrder, Reached, Carried

\* A handler that goes on: what src asked for is done, and the answer on its way to src.
LEMMA OrderAnswer ==
    ASSUME TypeOK, IInv, OrderInv, NEW cmd \in Commands, Receives(cmd), Continue, Answer("ok"),
           cmd = "Memory" => table = {},
           started \/ cmd = "Start" => started',
           cmd = "Config" => memory_manager',
           cmd # "State" /\ memory_manager => memory_manager'
    PROVE  OrderInv'
<1>1. /\ pc["dst"] = "receive" /\ request = cmd /\ request' = "None"
      /\ UNCHANGED <<pc, open, command>>
  BY Zenon DEF Receives, Continue, sending
<1>2. /\ "src" \in open => response' = "ok"
      /\ "src" \notin open => response' = "None"
  BY Zenon DEF Answer
<1>3. pc["src"] \in Sending => Wire = cmd /\ pc["src"] \in {"pages", "await"}
  BY <1>1, Zenon DEF IInv, SocketInv, Commands
<1>4. pc["src"] \in Sending => started'
  BY <1>1, <1>3, Zenon DEF OrderInv, Reached, Wire
<1>5. InOrder'
  BY <1>1, Zenon DEF InOrder
<1>6. Reached'
  BY <1>1, <1>3, <1>4, Zenon DEF OrderInv, Reached, Wire
<1>7. Carried'
  BY <1>1, <1>2, Zenon DEF Carried
<1> QED
  BY <1>5, <1>6, <1>7, Zenon DEF OrderInv

\* The steps of vm_receive_migration.
LEMMA OrderReceive ==
    ASSUME TypeOK, IInv, OrderInv, ReceiveMigration
    PROVE  OrderInv'
<1>1. CASE Return
  BY <1>1, OrderReturn, Zenon
<1>2. CASE ~Return
  <2>1. /\ ~receive_complete /\ ~receive_fails
    BY <1>2, Zenon DEF receive_complete, receive_fails
  <2>2. CASE receive_start
    BY <2>2, OrderAnswer, Zenon DEF receive_start, Commands
  <2>3. CASE receive_memory_fd
    <3>1. Receives("MemoryFd") /\ Answer("ok") /\ Continue /\ UNCHANGED receiving
      BY <1>2, <2>3, Zenon DEF receive_memory_fd
    <3> QED
      BY <3>1, OrderAnswer, Zenon DEF Commands, receiving
  <2>4. CASE vm_receive_config
    <3>1. /\ Receives("Config") /\ Answer("ok") /\ Continue
          /\ started' = started /\ memory_manager'
      BY <1>2, <2>4, Zenon DEF vm_receive_config
    <3>2. "Config" \in Commands /\ "Config" # "Memory"
      BY Zenon DEF Commands
    <3> QED
      BY <3>1, <3>2, OrderAnswer, Zenon
  <2>5. CASE vm_receive_memory
    <3>1. /\ Receives("Memory") /\ table = {} /\ Answer("ok") /\ Continue
          /\ UNCHANGED receiving
      BY <1>2, <2>5, Zenon DEF vm_receive_memory
    <3> QED
      BY <3>1, OrderAnswer, Zenon DEF Commands, receiving
  <2>6. CASE vm_receive_state
    <3>1. Receives("State") /\ Answer("ok") /\ Continue /\ started' = started
      BY <1>2, <2>6, Zenon DEF vm_receive_state
    <3>2. "State" \in Commands /\ "State" \notin {"Memory", "Start", "Config"}
      BY Zenon DEF Commands
    <3> QED
      BY <3>1, <3>2, OrderAnswer, Zenon
  <2> QED
    BY <2>1, <2>2, <2>3, <2>4, <2>5, <2>6, Zenon DEF ReceiveMigration
<1> QED
  BY <1>1, <1>2, Zenon

\* A migration starts, the guest or the network does something.
LEMMA OrderHost ==
    ASSUME TypeOK, IInv, OrderInv
    PROVE  /\ \A fds \in BOOLEAN : vm_send_migration(fds) => OrderInv'
           /\ vm_receive_migration => OrderInv'
           /\ \A p \in Pages : GuestWrites(p) => OrderInv'
           /\ \A h \in Vmms : GuestResets(h) \/ GuestShutsDown(h) => OrderInv'
           /\ \A ends \in (SUBSET open) \ {{}} : Cut(ends) => OrderInv'
<1>1. ASSUME NEW fds \in BOOLEAN, vm_send_migration(fds) PROVE OrderInv'
  <2>1. CASE Gone("src")
    BY <2>1, OrderGone, Zenon DEF Vmms
  <2>2. CASE /\ pc' = [pc EXCEPT !["src"] = "send", !["dst"] = "receive"]
             /\ command' = "Start" /\ request' = "None" /\ response' = "None"
    <3>1. pc'["src"] = "send" /\ pc'["dst"] = "receive"
      BY <2>2, Zenon DEF TypeOK, Vmms
    <3> QED
      BY <2>2, <3>1, Zenon DEF OrderInv, InOrder, Reached, Carried
  <2>3. CASE /\ Goto("src", "failed")
             /\ UNCHANGED <<vm, started, memory_manager, request>>
    <3>1. pc'["src"] = "failed" /\ pc'["dst"] = pc["dst"]
      BY <2>3, Moves, Zenon DEF Vmms
    <3>2. InOrder'
      BY <2>3, <3>1, Zenon DEF OrderInv, InOrder
    <3>3. Reached' /\ Carried'
      BY <3>1, Zenon DEF Reached, Carried, Sending
    <3> QED
      BY <3>2, <3>3, Zenon DEF OrderInv
  <2> QED
    BY <1>1, <2>1, <2>2, <2>3, Zenon
       DEF vm_send_migration, Panic, processes, receiving, socket
<1>2. ASSUME vm_receive_migration PROVE OrderInv'
  <2>1. /\ pc["dst"] = "loop" /\ Goto("dst", "accept")
        /\ UNCHANGED <<open, request, response>>
    BY <1>2, Zenon DEF vm_receive_migration, socket
  <2>2. pc'["dst"] = "accept" /\ pc'["src"] = pc["src"]
    BY <2>1, Moves, Zenon DEF Vmms
  <2>3. "dst" \notin open
    BY <2>1, Zenon DEF IInv, SocketInv
  <2> QED
    BY <2>1, <2>2, <2>3, Zenon DEF OrderInv, InOrder, Reached, Carried
<1>3. ASSUME NEW p \in Pages, GuestWrites(p) PROVE OrderInv'
  BY <1>3, OrderKept, Zenon DEF GuestWrites, processes, receiving, socket
<1>4. ASSUME NEW h \in Vmms, GuestResets(h) \/ GuestShutsDown(h) PROVE OrderInv'
  BY <1>4, OrderKept, Zenon DEF GuestResets, GuestShutsDown, sending, receiving, socket
<1>5. ASSUME NEW ends \in (SUBSET open) \ {{}}, Cut(ends) PROVE OrderInv'
  <2>1. /\ open' = open \ ends
        /\ request' = IF "src" \in ends THEN "None" ELSE request
        /\ response' = IF "dst" \in ends THEN "None" ELSE response
        /\ UNCHANGED <<vm, pc, command, started, memory_manager>>
    BY <1>5, Zenon DEF Cut, processes, sending, receiving
  <2>2. InOrder'
    BY <2>1, Zenon DEF OrderInv, InOrder
  <2>3. Reached'
    BY <2>1, Zenon DEF OrderInv, Reached
  <2>4. Carried'
    BY <2>1, Zenon DEF OrderInv, Carried
  <2> QED
    BY <2>2, <2>3, <2>4, Zenon DEF OrderInv
<1> QED
  BY <1>1, <1>2, <1>3, <1>4, <1>5, Zenon

\* Every step preserves it.
LEMMA OrderStep == TypeOK /\ IInv /\ OrderInv /\ [Next]_vars => OrderInv'
<1> SUFFICES ASSUME TypeOK, IInv, OrderInv, [Next]_vars PROVE OrderInv'
  OBVIOUS
<1>1. ASSUME NEW h \in Vmms, Request(h) \/ ExitEvent(h) \/ Crash(h)
      PROVE  OrderInv'
  BY <1>1, OrderRequest, Zenon
<1>2. CASE SendMigration \/ ReceiveMigration
  BY <1>2, OrderSend, OrderReceive, Zenon
<1>3. CASE \/ \E fds \in BOOLEAN : vm_send_migration(fds)
           \/ vm_receive_migration
           \/ \E p \in Pages : GuestWrites(p)
           \/ \E h \in Vmms : GuestResets(h) \/ GuestShutsDown(h)
           \/ \E ends \in (SUBSET open) \ {{}} : Cut(ends)
  BY <1>3, OrderHost, Zenon
<1>4. CASE UNCHANGED vars
  BY <1>4, OrderKept, Zenon DEF vars, processes, sending, receiving, socket
<1> QED
  BY <1>1, <1>2, <1>3, <1>4, Zenon DEF Next

\* Every command comes in order, and at any time one of two processes that are in a
\* migration can go on: the source has an answer or the end of the connection to read, or
\* the destination a command.
THEOREM NoMutualWaitTheorem == Spec => [](InOrder /\ NoMutualWait)
<1>1. Init => OrderInv
  BY Zenon DEF Init, OrderInv, InOrder, Reached, Carried, Vmms
<1>2. TypeOK /\ IInv /\ OrderInv /\ [Next]_vars => OrderInv'
  BY OrderStep, Zenon
<1>3. OrderInv => InOrder /\ NoMutualWait
  BY Zenon DEF OrderInv, Carried, NoMutualWait, SrcWaits, DstWaits
<1> QED
  BY <1>1, <1>2, <1>3, Inductive, PTL DEF Spec
==============================================================================
