--------------------------- MODULE ScalingManager ---------------------------
(***************************************************************************)
(* The ScalingManager of form-state/src/scaling.rs: the phase machine of   *)
(* one cluster's scaling operations and the history it keeps of them.      *)
(*                                                                         *)
(* Every method takes &mut self, so a call is one atomic step.  A call     *)
(* that returns Err changes nothing and is not a step.  The wall clock is  *)
(* the variable now; operation_id, last_check_time, failure messages and   *)
(* the metrics a phase carries are read by no guard and are left out.      *)
(***************************************************************************)
EXTENDS Integers, Sequences

CONSTANTS
    Operations,     \* the ScalingOperation values a caller may start
    InstanceIds,    \* the instance_ids lists the InstancePreparing phase may carry
    Configs,        \* the previous_config values the Configuring phase may carry
    Nil,            \* Option::None of the two above
    phase_timeouts, \* seconds allowed in each active phase
    MaxTime,        \* bound of the clock
    MaxOps,         \* bound of the number of operations ever started
    MaxResults      \* bound of the test results of a Verifying phase

VARIABLES
    current_phase,      \* ScalingManager.current_phase, NoPhase for None
    operation_history,  \* ScalingManager.operation_history
    now                 \* SystemTime::now() in seconds

mvars == <<current_phase, operation_history, now>>

ActivePhases == {"Requested", "Validating", "Planning", "ResourceAllocating",
                 "InstancePreparing", "Configuring", "Verifying", "Finalizing"}

TerminalPhases == {"Completed", "Failed", "Canceled"}

ErrorTypes == {"None", "Timeout", "HealthCheckFailed", "StepFailed"}

NONE == "None"          \* Option::None where a phase name is expected
NoTime == -1            \* Option::None of a time stamp
Time == 0 .. MaxTime

ASSUME TimeoutAssumption == phase_timeouts \in [ActivePhases -> Nat]
ASSUME BoundAssumption == MaxTime \in Nat /\ MaxOps \in Nat /\ MaxResults \in Nat

NoPhase == [name |-> NONE]

(* ScalingPhase: the variant's name, its operation, its time stamp and what *)
(* the variants carry: failure_phase or phase_at_cancellation in from, the  *)
(* instance_ids, the previous_config, the number of test_results.           *)
Phase == [name : ActivePhases \cup TerminalPhases,
          op : Operations,
          at : Time,
          from : ActivePhases \cup {NONE},
          ids : InstanceIds \cup {Nil},
          config : Configs \cup {Nil},
          results : 0 .. MaxResults]

MetadataKeys == {"rollback_status", "resources_to_release", "configs_to_restore",
                 "config_to_restore", "cluster_rollback_status"}

(* ScalingOperationRecord: phase_history is the set of the phases that have *)
(* a PhaseRecord, metadata the set of the keys present.                     *)
Record == [op : Operations,
           started_at : Time,
           ended_at : Time \cup {NoTime},
           final_phase : ActivePhases \cup TerminalPhases,
           successful : BOOLEAN,
           error : ErrorTypes,
           phase_history : SUBSET ActivePhases,
           metadata : SUBSET MetadataKeys]

LastRecord == operation_history[Len(operation_history)]

(* The guard "Some(phase) if !phase.is_terminal()" of the methods below.    *)
InProgress == current_phase.name \in ActivePhases

TimedOut ==
    /\ InProgress
    /\ now - current_phase.at > phase_timeouts[current_phase.name]

TypeOK ==
    /\ current_phase \in Phase \cup {NoPhase}
    /\ operation_history \in Seq(Record)
    /\ now \in Time
-----------------------------------------------------------------------------
(* Mutant of new_requested: the time stamp is left unset.                   *)
new_requested_unstamped(op) ==
    [name |-> "Requested", op |-> op, at |-> NoTime, from |-> NONE,
     ids |-> Nil, config |-> Nil, results |-> 0]

new_requested(op) ==
    [name |-> "Requested", op |-> op, at |-> now, from |-> NONE,
     ids |-> Nil, config |-> Nil, results |-> 0]

(* Mutant of start_operation: without the ConcurrentOperation check.        *)
start_operation_unchecked(op) ==
    /\ Len(operation_history) < MaxOps
    /\ operation_history' = Append(operation_history,
            [op |-> op, started_at |-> now, ended_at |-> NoTime,
             final_phase |-> "Requested", successful |-> FALSE, error |-> NONE,
             phase_history |-> {}, metadata |-> {}])
    /\ current_phase' = new_requested(op)
    /\ UNCHANGED now

start_operation(op) ==
    /\ ~ InProgress
    /\ Len(operation_history) < MaxOps
    /\ operation_history' = Append(operation_history,
            [op |-> op, started_at |-> now, ended_at |-> NoTime,
             final_phase |-> "Requested", successful |-> FALSE, error |-> NONE,
             phase_history |-> {}, metadata |-> {}])
    /\ current_phase' = new_requested(op)
    /\ UNCHANGED now

(* The common body of the transition_to_* methods.                          *)
transition(source, target, ids, config) ==
    /\ current_phase.name = source
    /\ current_phase' = [name |-> target, op |-> current_phase.op, at |-> now,
                         from |-> NONE, ids |-> ids, config |-> config, results |-> 0]
    /\ operation_history' =
            [operation_history EXCEPT ![Len(operation_history)].final_phase = target]
    /\ UNCHANGED now

transition_to_validating == transition("Requested", "Validating", Nil, Nil)

transition_to_planning == transition("Validating", "Planning", Nil, Nil)

transition_to_resource_allocating == transition("Planning", "ResourceAllocating", Nil, Nil)

transition_to_instance_preparing(ids) ==
    transition("ResourceAllocating", "InstancePreparing", ids, Nil)

(* Mutant of transition_to_configuring: also taken from ResourceAllocating. *)
transition_to_configuring_early(config) ==
    \/ transition("InstancePreparing", "Configuring", Nil, config)
    \/ transition("ResourceAllocating", "Configuring", Nil, config)

transition_to_configuring(config) ==
    transition("InstancePreparing", "Configuring", Nil, config)

transition_to_verifying == transition("Configuring", "Verifying", Nil, Nil)

add_verification_result ==
    /\ current_phase.name = "Verifying"
    /\ current_phase.results < MaxResults
    /\ current_phase' = [current_phase EXCEPT !.results = @ + 1]
    /\ UNCHANGED <<operation_history, now>>

transition_to_finalizing == transition("Verifying", "Finalizing", Nil, Nil)

(* What ends an operation: the phase becomes terminal and the last record   *)
(* is closed.                                                               *)
ended_phase(name) ==
    [name |-> name, op |-> current_phase.op, at |-> now,
     from |-> IF name = "Completed" THEN NONE ELSE current_phase.name,
     ids |-> Nil, config |-> Nil, results |-> 0]

ended_record(r, name, successful, error) ==
    [r EXCEPT !.final_phase = name, !.ended_at = now,
              !.successful = successful, !.error = error]

close(name, successful, error) ==
    /\ InProgress
    /\ current_phase' = ended_phase(name)
    /\ operation_history' =
            [operation_history EXCEPT ![Len(operation_history)] =
                ended_record(@, name, successful, error)]
    /\ UNCHANGED now

(* check_timeouts() returning true; when it returns false nothing changes.  *)
check_timeouts == TimedOut /\ close("Failed", FALSE, "Timeout")

(* Mutant of cancel_operation: the history is not written.                  *)
cancel_operation_unrecorded ==
    /\ InProgress
    /\ current_phase' = [current_phase EXCEPT !.name = "Canceled",
                                              !.from = current_phase.name]
    /\ UNCHANGED <<operation_history, now>>

cancel_operation == close("Canceled", FALSE, NONE)

(* Mutant of fail_operation: without the check that an operation runs.      *)
fail_operation_unguarded(error) ==
    /\ current_phase # NoPhase
    /\ current_phase' = [current_phase EXCEPT !.name = "Failed"]
    /\ operation_history' =
            [operation_history EXCEPT ![Len(operation_history)] =
                [@ EXCEPT !.final_phase = "Failed", !.ended_at = now,
                          !.successful = FALSE, !.error = error]]
    /\ UNCHANGED now

fail_operation(error) == close("Failed", FALSE, error)

complete_operation == close("Completed", TRUE, NONE)

(* The metadata entry rollback_operation derives from the PhaseData it      *)
(* finds for the phase that failed.                                         *)
RollbackKey == [p \in {"ResourceAllocating", "InstancePreparing", "Configuring"} |->
    CASE p = "ResourceAllocating" -> "resources_to_release"
      [] p = "InstancePreparing"  -> "configs_to_restore"
      [] p = "Configuring"        -> "config_to_restore"]

RollbackMetadata(from, r) ==
    {"rollback_status"} \cup
    {RollbackKey[p] : p \in {from} \cap r.phase_history \cap DOMAIN RollbackKey}

rollback_operation ==
    /\ current_phase.name = "Failed"
    /\ operation_history' =
            [operation_history EXCEPT ![Len(operation_history)].metadata =
                @ \cup RollbackMetadata(current_phase.from, LastRecord)]
    /\ UNCHANGED <<current_phase, now>>

(* The wall clock advances between calls.                                   *)
Tick ==
    /\ now < MaxTime
    /\ now' = now + 1
    /\ UNCHANGED <<current_phase, operation_history>>
-----------------------------------------------------------------------------
(* ScalingManager::new()                                                    *)
Init ==
    /\ current_phase = NoPhase
    /\ operation_history = <<>>
    /\ now = 0

Next ==
    \/ \E op \in Operations : start_operation(op)
    \/ transition_to_validating
    \/ transition_to_planning
    \/ transition_to_resource_allocating
    \/ \E ids \in InstanceIds : transition_to_instance_preparing(ids)
    \/ \E config \in Configs : transition_to_configuring(config)
    \/ transition_to_verifying
    \/ add_verification_result
    \/ transition_to_finalizing
    \/ check_timeouts
    \/ cancel_operation
    \/ \E error \in ErrorTypes \ {NONE, "Timeout"} : fail_operation(error)
    \/ complete_operation
    \/ rollback_operation
    \/ Tick

Spec == Init /\ [][Next]_mvars
-----------------------------------------------------------------------------
(* The record a reader of operation_history() sees last always describes    *)
(* the operation current_phase() is about: same operation, same phase; it   *)
(* is open exactly while the phase is active, successful exactly when the   *)
(* phase is Completed, and carries an error exactly when it is Failed.      *)
HistoryMirrorsPhase ==
    /\ (current_phase = NoPhase) <=> (operation_history = <<>>)
    /\ operation_history # <<>> =>
         /\ LastRecord.op = current_phase.op
         /\ LastRecord.final_phase = current_phase.name
         /\ (LastRecord.ended_at = NoTime) <=> InProgress
         /\ LastRecord.successful <=> (current_phase.name = "Completed")
         /\ (LastRecord.error # NONE) <=> (current_phase.name = "Failed")

(* Operations never overlap: every record but the last is closed in a       *)
(* terminal phase, and ended no later than its successor started, which is  *)
(* what start_operation's ConcurrentOperation error is for.                 *)
NoOverlap ==
    \A i \in 1 .. Len(operation_history) - 1 :
        /\ operation_history[i].final_phase \in TerminalPhases
        /\ operation_history[i].ended_at # NoTime
        /\ operation_history[i].ended_at <= operation_history[i + 1].started_at

(* Only an operation that failed is ever rolled back: the rollback entries  *)
(* of metadata appear on no record that completed, was canceled or is open. *)
RollbackOnlyFailed ==
    \A i \in 1 .. Len(operation_history) :
        operation_history[i].metadata # {} =>
            operation_history[i].final_phase = "Failed"

(* The outcome part of a record.                                            *)
Outcome(r) == <<r.op, r.started_at, r.ended_at, r.final_phase, r.successful, r.error>>

(* History is append-only: no step drops a record, and once a record is     *)
(* closed its outcome never changes again, although every method writes to  *)
(* the last record whatever its state.                                      *)
ClosedRecordsFrozen ==
    [][ /\ Len(operation_history') >= Len(operation_history)
        /\ \A i \in 1 .. Len(operation_history) :
             operation_history[i].ended_at # NoTime =>
                Outcome(operation_history'[i]) = Outcome(operation_history[i]) ]_mvars
-----------------------------------------------------------------------------
(* The number of each phase in the order of the transition_to_* methods.    *)
StageOf == [p \in ActivePhases |->
    CASE p = "Requested"          -> 1
      [] p = "Validating"         -> 2
      [] p = "Planning"           -> 3
      [] p = "ResourceAllocating" -> 4
      [] p = "InstancePreparing"  -> 5
      [] p = "Configuring"        -> 6
      [] p = "Verifying"          -> 7
      [] p = "Finalizing"         -> 8]

Stage == IF InProgress THEN StageOf[current_phase.name] ELSE 0

(* The outcomes of the operations that have ended, oldest first.            *)
Log == [i \in 1 .. Len(operation_history) - (IF InProgress THEN 1 ELSE 0) |->
            operation_history[i].final_phase]

Lifecycle == INSTANCE ScalingLifecycle
    WITH stage <- Stage, log <- Log, CompleteFrom <- 1 .. 8, Forgetful <- FALSE

(* The manager implements the abstract lifecycle: one operation at a time,  *)
(* phases in order and none skipped, every operation ended exactly once and *)
(* its outcome kept.  complete_operation accepts any active phase, so       *)
(* success may come from any stage.                                         *)
RefinesLifecycle == Lifecycle!Spec
=============================================================================
