--------------------------- MODULE InstanceCluster --------------------------
(***************************************************************************)
(* The InstanceCluster of form-state/src/instances.rs: the membership of a *)
(* cluster, its policy and template, and the driver that takes its         *)
(* ScalingManager through the phases of an operation.                      *)
(*                                                                         *)
(* process_scaling_phase, the health check, rollback and cancellation each *)
(* take &mut self and are one step; between two of them whoever holds the  *)
(* cluster may change its members, template and policy.  A cluster with no *)
(* manager and one with a fresh manager behave alike, so scaling_manager   *)
(* is the manager's own variables.  Left out: the attributes of a member   *)
(* that nothing here reads, metrics, cleanup task names, log lines and the *)
(* health_check_* entries run_automatic_health_checks adds to metadata.    *)
(***************************************************************************)
EXTENDS ScalingManager, FiniteSets

CONSTANTS
    BaseIds,        \* the instances that join and leave by themselves
    BaseIp,         \* the formnet address of each of them
    Policies,       \* the ScalingPolicy values a caller may set
    Octets,         \* the number of values of the last octet of an address
    AvailableCores, \* cpu_cores of check_available_resources
    MaxU32,         \* u32::MAX
    MaxChurn        \* bound of the changes made from outside; they and a second
                    \* operation are not explored together

VARIABLES
    members,    \* InstanceCluster.members
    template,   \* template_instance_id, Nil for None
    policy,     \* scaling_policy, Nil for None
    churn,      \* how often members, template or policy changed from outside
    start       \* history: the members the current operation started from, with
                \* the changes made from outside since, and churn at its start

cvars == <<members, template, policy, churn, start>>
vars == <<current_phase, operation_history, now, members, template, policy, churn, start>>

V6 == -1                            \* an address that has no dotted form
Ips == 0 .. Octets - 1 \cup {V6}
Member == [ip : Ips, hb : Time]     \* instance_formnet_ip, last_heartbeat
Policy == [min : Nat, max : Nat, out_cooldown : Nat, in_cooldown : Nat,
           last_out : Time, last_in : Time]

ASSUME ClusterAssumption ==
    /\ Octets \in Nat \ {0} /\ AvailableCores \in Nat
    /\ MaxU32 \in Nat \ {0} /\ MaxChurn \in Nat
    /\ Policies \subseteq Policy
    /\ BaseIp \in [BaseIds -> Ips]
    /\ IsFiniteSet(BaseIds)
    /\ 1 \in Time

U32(n) == n % (MaxU32 + 1)

Ids == DOMAIN members
Size == Cardinality(Ids)
HasTemplate == template # Nil /\ template \in Ids
Op == current_phase.op
OpIds(op) == IF op.ids = Nil THEN {} ELSE {op.ids[i] : i \in 1 .. Len(op.ids)}

(* The names given to new instances: format! is injective on its arguments. *)
inst(t, i) == <<"inst", t, i>>
replacement(old) == <<"replacement", old, now>>
clone(t, i) == <<"clone", t, now, i>>
spare(old) == <<"spare", old, now>>

(* ScalingOperation: three variants, a u32 target, the ids of instances that *)
(* joined by themselves, whose names look like no other's.                   *)
ASSUME OperationAssumption ==
    /\ \A op \in Operations :
          /\ op.type \in {"ScaleOut", "ScaleIn", "ReplaceInstances"}
          /\ op.target \in 0 .. MaxU32
          /\ op.ids = Nil \/ op.ids \in Seq(BaseIds)
    /\ \A id \in BaseIds, t \in Time : <<"replacement", id, t>> \notin BaseIds

ClusterTypeOK ==
    /\ members \in [Ids -> Member]
    /\ template \in BaseIds \cup {Nil}
    /\ policy = Nil \/ policy \in Policy
    /\ churn \in 0 .. MaxChurn
-----------------------------------------------------------------------------
(* is_in_scale_out_cooldown, is_in_scale_in_cooldown: a stamp of 0 means    *)
(* that no operation was recorded.                                          *)
in_cooldown(last, cooldown) == last # 0 /\ now - last < cooldown

(* select_instances_to_remove: the members with the oldest heartbeats, the  *)
(* template excepted.  Members with equal heartbeats come in the order of   *)
(* their names, which may be any.                                           *)
select_instances_to_remove(count) ==
    LET candidates == Ids \ {template}
    IN  {S \in SUBSET candidates :
            /\ Cardinality(S) = IF count < Cardinality(candidates)
                                  THEN count ELSE Cardinality(candidates)
            /\ \A a \in S, b \in candidates \ S : members[a].hb <= members[b].hb}

validate_scaling_operation(op) ==
    /\ policy # Nil
    /\ op.type = "ScaleOut" =>
         /\ op.target <= policy.max
         /\ op.target > Size
         /\ ~ in_cooldown(policy.last_out, policy.out_cooldown)
    /\ op.type = "ScaleIn" =>
         /\ op.target >= policy.min
         /\ op.target < Size
         /\ OpIds(op) \subseteq Ids
         /\ ~ in_cooldown(policy.last_in, policy.in_cooldown)
    /\ op.type = "ReplaceInstances" =>
         /\ OpIds(op) \subseteq Ids
         /\ template # Nil

(* u32 subtraction, unchecked in the release profile.                       *)
instances_to_add(op) == U32(op.target - Size)
instances_to_remove(op) == U32(Size - op.target)

plan_scaling_operation(op) ==
    /\ op.type = "ScaleOut" /\ instances_to_add(op) # 0 => HasTemplate
    /\ op.type = "ReplaceInstances" /\ OpIds(op) # {} => HasTemplate

(* The plan asks for at least one core for each new instance; what else it  *)
(* asks for comes from the template's metrics endpoint and may be too much. *)
resources_may_suffice(op) ==
    op.type = "ScaleOut" => instances_to_add(op) <= AvailableCores

resources_may_lack(op) ==
    \/ op.type = "ScaleOut" /\ instances_to_add(op) # 0
    \/ op.type = "ReplaceInstances" /\ OpIds(op) # {}

(* The lists of instance ids allocate_resources_for_operation may return;   *)
(* none when it returns an error.                                           *)
allocate_resources_for_operation(op) ==
    CASE op.type = "ScaleOut" ->
           IF template # Nil /\ plan_scaling_operation(op) /\ resources_may_suffice(op)
             THEN {{clone(template, i) : i \in 0 .. instances_to_add(op) - 1}}
             ELSE {}
      [] op.type = "ScaleIn" ->
           IF instances_to_remove(op) = 0 THEN {{}}
           ELSE IF op.ids # Nil
             THEN {ids \in {OpIds(op)} : ids \subseteq Ids /\ template \notin ids}
             ELSE {ids \in select_instances_to_remove(instances_to_remove(op)) :
                        Cardinality(ids) >= instances_to_remove(op)}
      [] op.type = "ReplaceInstances" ->
           IF /\ template # Nil
              /\ OpIds(op) \subseteq Ids
              /\ template \notin OpIds(op)
              /\ plan_scaling_operation(op)
             THEN {OpIds(op) \cup {spare(old) : old \in OpIds(op)}}
             ELSE {}

prepare_instances(op, ids) ==
    CASE op.type = "ScaleOut" -> HasTemplate /\ ids \cap Ids = {}
      [] op.type = "ScaleIn" -> ids \subseteq Ids /\ template \notin ids
      [] op.type = "ReplaceInstances" ->
           /\ template # Nil => HasTemplate
           /\ OpIds(op) \subseteq Ids
           /\ template \notin OpIds(op)
           /\ ids \cap Ids \subseteq OpIds(op)
-----------------------------------------------------------------------------
(* apply_configuration_changes, for each type of operation: the members it  *)
(* leaves and whether it returns Ok.  It changes the members first and      *)
(* compares their number with the target afterwards.                        *)
Unapplied == [members |-> members, ok |-> FALSE]

Applied(new, expected) == [members |-> new, ok |-> Cardinality(DOMAIN new) = expected]

(* BTreeMap::insert of each of the new members, which replaces a member of   *)
(* the same name.                                                            *)
joined(m, new) ==
    [id \in DOMAIN m \cup DOMAIN new |-> IF id \in DOMAIN new THEN new[id] ELSE m[id]]

(* Mutant of new_instances: the last octet is not reduced to its range.     *)
new_instances_unwrapped(n) ==
    [id \in {inst(template, i) : i \in 0 .. n - 1} |->
        [ip |-> members[template].ip + id[3] + 1, hb |-> now]]

new_instances(n) ==
    [id \in {inst(template, i) : i \in 0 .. n - 1} |->
        [ip |-> (members[template].ip + id[3] + 1) % Octets, hb |-> now]]

apply_scale_out(op) ==
    LET n == instances_to_add(op)
    IN  IF ~ HasTemplate \/ (n > 0 /\ members[template].ip = V6)
          THEN {Unapplied}
          ELSE {Applied(joined(members, new_instances(n)), op.target)}

(* Mutant of apply_scale_in: the template is not protected.                 *)
apply_scale_in_any(op) ==
    LET selections == IF op.ids # Nil THEN {OpIds(op)}
                      ELSE {S \in SUBSET Ids : Cardinality(S) = instances_to_remove(op)}
    IN  {IF sel \subseteq Ids
           THEN Applied([id \in Ids \ sel |-> members[id]], op.target)
           ELSE Unapplied : sel \in selections}

apply_scale_in(op) ==
    LET selections == IF op.ids # Nil THEN {OpIds(op)}
                      ELSE select_instances_to_remove(instances_to_remove(op))
    IN  {IF template \notin sel /\ sel \subseteq Ids
           THEN Applied([id \in Ids \ sel |-> members[id]], op.target)
           ELSE Unapplied : sel \in selections}

(* Mutant of replaced: the replacement takes the template's address.        *)
replaced_with_template_ip(ids) ==
    [id \in (Ids \ ids) \cup {replacement(old) : old \in ids} |->
        IF id \in {replacement(old) : old \in ids}
          THEN [ip |-> members[template].ip, hb |-> now]
          ELSE members[id]]

(* The replacement loop removes each of the old and inserts the new, under   *)
(* the old one's address.  No old one has the name of a new one, so the      *)
(* order of the rounds does not matter.                                      *)
replaced(ids) ==
    [id \in (Ids \ ids) \cup {replacement(old) : old \in ids} |->
        IF id \in {replacement(old) : old \in ids}
          THEN [ip |-> members[id[2]].ip, hb |-> now]
          ELSE members[id]]

apply_replace(op) ==
    IF HasTemplate /\ OpIds(op) \subseteq Ids /\ template \notin OpIds(op)
      THEN {Applied(replaced(OpIds(op)), Size)}
      ELSE {Unapplied}

apply_configuration_changes(op) ==
    CASE op.type = "ScaleOut" -> apply_scale_out(op)
      [] op.type = "ScaleIn" -> apply_scale_in(op)
      [] op.type = "ReplaceInstances" -> apply_replace(op)

verify_scaling_operation(op) ==
    IF op.type = "ReplaceInstances" THEN OpIds(op) \cap Ids = {} ELSE Size = op.target

(* Mutant of finalized_policy: the time of a scale-in is not recorded.      *)
finalized_policy_out_only(op) ==
    IF policy # Nil /\ op.type = "ScaleOut" THEN [policy EXCEPT !.last_out = now] ELSE policy

(* finalize_scaling_operation: start the cooldown.                          *)
finalized_policy(op) ==
    IF policy = Nil \/ op.type = "ReplaceInstances" THEN policy
    ELSE IF op.type = "ScaleOut" THEN [policy EXCEPT !.last_out = now]
    ELSE [policy EXCEPT !.last_in = now]
-----------------------------------------------------------------------------
(* start_scaling_state_machine, creating the manager if there is none.      *)
start_scaling_state_machine(op) ==
    /\ churn = 0 \/ operation_history = <<>>
    /\ start_operation(op)
    /\ start' = [members |-> members, churn |-> churn]
    /\ UNCHANGED <<members, template, policy, churn>>

(* process_scaling_phase looks for a timeout before anything else.          *)
process_timeout == check_timeouts /\ UNCHANGED cvars

(* Mutant of Processing: without the check for a timeout.                   *)
Processing_untimed(phase) == current_phase.name = phase

(* A phase that has not timed out: what process_scaling_phase goes on with. *)
Processing(phase) == current_phase.name = phase /\ ~ TimedOut

step_failed == fail_operation("StepFailed") /\ UNCHANGED cvars

process_requested ==
    /\ Processing("Requested")
    /\ transition_to_validating
    /\ UNCHANGED cvars

process_validating ==
    /\ Processing("Validating")
    /\ \/ /\ validate_scaling_operation(Op)
          /\ transition_to_planning
          /\ UNCHANGED cvars
       \/ ~ validate_scaling_operation(Op) /\ step_failed

(* Mutant of process_planning: an error leaves the operation where it is.   *)
process_planning_stuck ==
    /\ Processing("Planning")
    /\ plan_scaling_operation(Op)
    /\ transition_to_resource_allocating
    /\ UNCHANGED cvars

process_planning ==
    /\ Processing("Planning")
    /\ \/ /\ plan_scaling_operation(Op)
          /\ transition_to_resource_allocating
          /\ UNCHANGED cvars
       \/ ~ plan_scaling_operation(Op) /\ step_failed

process_resource_allocating ==
    /\ Processing("ResourceAllocating")
    /\ \/ /\ \E ids \in allocate_resources_for_operation(Op) :
                transition_to_instance_preparing(ids)
          /\ UNCHANGED cvars
       \/ /\ allocate_resources_for_operation(Op) = {} \/ resources_may_lack(Op)
          /\ step_failed

(* previous_config, the serialised cluster, is stored in the phase and read *)
(* by nothing: Configs stands for its values.                               *)
process_instance_preparing ==
    /\ Processing("InstancePreparing")
    /\ \/ /\ prepare_instances(Op, current_phase.ids)
          /\ \E config \in Configs : transition_to_configuring(config)
          /\ UNCHANGED cvars
       \/ ~ prepare_instances(Op, current_phase.ids) /\ step_failed

(* Mutant of process_configuring: the timeout is noticed after the changes. *)
process_configuring_late ==
    /\ current_phase.name = "Configuring"
    /\ \E result \in apply_configuration_changes(Op) :
         /\ members' = result.members
         /\ IF TimedOut THEN check_timeouts
            ELSE IF result.ok THEN transition_to_verifying ELSE fail_operation("StepFailed")
    /\ UNCHANGED <<template, policy, churn, start>>

process_configuring ==
    /\ Processing("Configuring")
    /\ \E result \in apply_configuration_changes(Op) :
         /\ members' = result.members
         /\ IF result.ok THEN transition_to_verifying ELSE fail_operation("StepFailed")
    /\ UNCHANGED <<template, policy, churn, start>>

(* Mutant of process_verifying: completes the operation at once.            *)
process_verifying_completes ==
    /\ Processing("Verifying")
    /\ \/ verify_scaling_operation(Op) /\ complete_operation /\ UNCHANGED cvars
       \/ ~ verify_scaling_operation(Op) /\ step_failed

process_verifying ==
    /\ Processing("Verifying")
    /\ \/ /\ verify_scaling_operation(Op)
          /\ transition_to_finalizing
          /\ UNCHANGED cvars
       \/ ~ verify_scaling_operation(Op) /\ step_failed

process_finalizing ==
    /\ Processing("Finalizing")
    /\ policy' = finalized_policy(Op)
    /\ complete_operation
    /\ UNCHANGED <<members, template, churn, start>>

process_scaling_phase ==
    \/ process_timeout
    \/ process_requested
    \/ process_validating
    \/ process_planning
    \/ process_resource_allocating
    \/ process_instance_preparing
    \/ process_configuring
    \/ process_verifying
    \/ process_finalizing

cancel_scaling_state_machine == cancel_operation /\ UNCHANGED cvars

(* Mutant of RolledBack: the record goes back to the phase that failed.     *)
RolledBack_to_phase(from, r) ==
    [r EXCEPT !.metadata = @ \cup RollbackMetadata(from, r) \cup {"cluster_rollback_status"},
              !.final_phase = from]

(* rollback_scaling_operation acts on the final_phase of the record, which  *)
(* is "Failed" whenever rollback_operation succeeds (HistoryMirrorsPhase):  *)
(* the arms that restore something belong to other values, so only the      *)
(* metadata changes.                                                        *)
RolledBack(from, r) ==
    [r EXCEPT !.metadata = @ \cup RollbackMetadata(from, r) \cup {"cluster_rollback_status"}]

rollback_scaling_operation ==
    /\ current_phase.name = "Failed"
    /\ operation_history' =
            [operation_history EXCEPT ![Len(operation_history)] =
                RolledBack(current_phase.from, @)]
    /\ UNCHANGED <<current_phase, now>>
    /\ UNCHANGED cvars
-----------------------------------------------------------------------------
check_resource_allocation_health(op) ==
    /\ op.type = "ScaleOut" =>
         /\ policy # Nil => op.target <= policy.max
         /\ op.target > Size => HasTemplate /\ op.target - Size <= AvailableCores
    /\ op.type = "ScaleIn" => (policy # Nil => Size > policy.min)
    /\ op.type = "ReplaceInstances" => Len(op.ids) <= AvailableCores

(* The ids of a scale-out are never shorter than the eight characters that  *)
(* are asked of them.                                                       *)
check_instance_preparation_health(op) ==
    /\ op.type = "ScaleIn" => template \notin OpIds(op)
    /\ op.type = "ReplaceInstances" => OpIds(op) \subseteq Ids /\ template \notin OpIds(op)

check_configuration_health(op) ==
    /\ op.type = "ScaleOut" => (policy # Nil => op.target <= policy.max) /\ HasTemplate
    /\ op.type = "ScaleIn" => /\ policy # Nil => op.target >= policy.min
                             /\ OpIds(op) \subseteq Ids
    /\ op.type = "ReplaceInstances" => OpIds(op) \subseteq Ids

Healthy ==
    /\ current_phase.name = "ResourceAllocating" => check_resource_allocation_health(Op)
    /\ current_phase.name = "InstancePreparing" => check_instance_preparation_health(Op)
    /\ current_phase.name = "Configuring" => check_configuration_health(Op)

(* fail_operation (or check_timeouts) followed by rollback_scaling_operation.*)
fail_and_roll_back(error) ==
    /\ InProgress
    /\ current_phase' = ended_phase("Failed")
    /\ operation_history' =
            [operation_history EXCEPT ![Len(operation_history)] =
                RolledBack(current_phase.name, ended_record(@, "Failed", FALSE, error))]
    /\ UNCHANGED now
    /\ UNCHANGED cvars

(* check_scaling_operation_health when it acts; run_automatic_health_checks *)
(* is the periodic call of it.                                              *)
check_scaling_operation_health ==
    \/ TimedOut /\ fail_and_roll_back("Timeout")
    \/ ~ TimedOut /\ InProgress /\ ~ Healthy /\ fail_and_roll_back("HealthCheckFailed")

(* scaling_manager is #[serde(skip)]: a cluster that was stored or sent and *)
(* read back has none, and neither does one given a new manager by          *)
(* init_scaling_manager.                                                    *)
lose_scaling_manager ==
    /\ churn < MaxChurn /\ Len(operation_history) <= 1
    /\ churn' = churn + 1
    /\ current_phase' = NoPhase
    /\ operation_history' = <<>>
    /\ UNCHANGED <<now, members, template, policy, start>>
-----------------------------------------------------------------------------
(* Changes from outside: the public insert, remove, members_mut and set_*   *)
(* methods, called by whoever holds the cluster.                            *)
Outside ==
    /\ churn < MaxChurn /\ Len(operation_history) <= 1
    /\ churn' = churn + 1
    /\ UNCHANGED <<current_phase, operation_history, now>>

insert(id) ==
    LET new == [i \in {id} |-> [ip |-> BaseIp[id], hb |-> now]]
    IN  /\ Outside
        /\ members' = joined(members, new)
        /\ start' = [start EXCEPT !.members = joined(@, new)]
        /\ UNCHANGED <<template, policy>>

remove(id) ==
    /\ Outside
    /\ id \in Ids
    /\ members' = [i \in Ids \ {id} |-> members[i]]
    /\ start' = [start EXCEPT !.members = [i \in DOMAIN @ \ {id} |-> @[i]]]
    /\ UNCHANGED <<template, policy>>

heartbeat(id) ==
    /\ Outside
    /\ id \in Ids
    /\ members' = [members EXCEPT ![id].hb = now]
    /\ start' = [start EXCEPT !.members =
                    [i \in DOMAIN @ |-> IF i = id THEN [@[i] EXCEPT !.hb = now] ELSE @[i]]]
    /\ UNCHANGED <<template, policy>>

set_scaling_policy(p) ==
    /\ Outside
    /\ p # policy
    /\ policy' = p
    /\ UNCHANGED <<members, template, start>>

set_template_instance_id(id) ==
    /\ Outside
    /\ id # template
    /\ template' = id
    /\ UNCHANGED <<members, policy, start>>
-----------------------------------------------------------------------------
(* A cluster of some of the base instances, with a template among them.     *)
ClusterInit ==
    /\ current_phase = NoPhase
    /\ operation_history = <<>>
    /\ now = 1
    /\ \E S \in SUBSET BaseIds :
         /\ members = [id \in S |-> [ip |-> BaseIp[id], hb |-> 0]]
         /\ template \in S
    /\ policy \in Policies
    /\ churn = 0
    /\ start = [members |-> members, churn |-> 0]

ClusterNext ==
    \/ \E op \in Operations : start_scaling_state_machine(op)
    \/ process_scaling_phase
    \/ cancel_scaling_state_machine
    \/ rollback_scaling_operation
    \/ check_scaling_operation_health
    \/ lose_scaling_manager
    \/ \E id \in BaseIds : insert(id)
    \/ \E id \in Ids : remove(id) \/ heartbeat(id)
    \/ \E p \in Policies \cup {Nil} : set_scaling_policy(p)
    \/ \E id \in BaseIds \cup {Nil} : set_template_instance_id(id)
    \/ Tick /\ UNCHANGED cvars

ClusterSpec == ClusterInit /\ [][ClusterNext]_vars
-----------------------------------------------------------------------------
Quiet == churn = start.churn

(* Until apply_configuration_changes runs, an operation leaves no trace in  *)
(* the membership: in every phase up to Configuring, and when it failed or  *)
(* was canceled there for another reason than that step's own error, the    *)
(* members are those it started from with the changes made from outside.    *)
EarlyEndLeavesNoTrace ==
    LET early == ActivePhases \ {"Verifying", "Finalizing"}
    IN  (\/ current_phase.name \in early
         \/ /\ current_phase.name \in {"Failed", "Canceled"}
            /\ current_phase.from \in early
            /\ ~ (current_phase.from = "Configuring" /\ LastRecord.error = "StepFailed"))
        => members = start.members

(* An operation that completes undisturbed did exactly what it was asked:   *)
(* the size is the target; a scale-out grew the cluster, not beyond the     *)
(* policy's maximum, and touched no member that was there; a scale-in       *)
(* shrank it, not below the minimum, and kept the others as they were; a    *)
(* replacement kept every other member and every address.                   *)
CompletedAsAsked ==
    current_phase.name = "Completed" /\ Quiet =>
        LET before == start.members
            kept == Ids \cap DOMAIN before
        IN  /\ template \in DOMAIN before => template \in Ids
            /\ \A id \in kept : members[id] = before[id]
            /\ Op.type = "ScaleOut" =>
                 /\ kept = DOMAIN before
                 /\ Size = Op.target
                 /\ Cardinality(DOMAIN before) < Size /\ Size <= policy.max
            /\ Op.type = "ScaleIn" =>
                 /\ kept = Ids
                 /\ Size = Op.target
                 /\ policy.min <= Size /\ Size < Cardinality(DOMAIN before)
            /\ Op.type = "ReplaceInstances" =>
                 /\ kept = DOMAIN before \ OpIds(Op)
                 /\ Size = Cardinality(DOMAIN before)
                 /\ {members[id].ip : id \in Ids} = {before[id].ip : id \in DOMAIN before}

(* Two operations of one kind that both succeeded under an unchanged policy *)
(* ended at least the cooldown of their kind apart, although the cooldown   *)
(* is checked in Validating and started in Finalizing.                      *)
CooldownBetweenSuccesses ==
    policy # Nil /\ churn = 0 =>
        \A i, j \in 1 .. Len(operation_history) :
            LET a == operation_history[i]
                b == operation_history[j]
            IN  /\ i < j /\ a.successful /\ b.successful
                /\ a.op.type = b.op.type /\ a.op.type # "ReplaceInstances"
                => b.ended_at - a.ended_at >= IF a.op.type = "ScaleOut"
                                                THEN policy.out_cooldown
                                                ELSE policy.in_cooldown

(* No step of the scaling machinery removes the template from the cluster;  *)
(* only a change from outside can.                                          *)
TemplateStays ==
    [][ HasTemplate /\ churn' = churn => template \in DOMAIN members' ]_vars

(* A phase whose time is up never advances: whichever of the driver, the    *)
(* health check and a cancellation comes first, the operation ends.         *)
NoLateAdvance ==
    [][ TimedOut /\ current_phase' # current_phase =>
            current_phase'.name \in {"Failed", "Canceled", NONE} ]_vars

ClusterLifecycle == INSTANCE ScalingLifecycle
    WITH stage <- Stage, log <- Log, CompleteFrom <- {8}, Forgetful <- TRUE

(* Driven by the cluster, the manager implements the lifecycle in which an  *)
(* operation succeeds only after all eight phases; the manager itself may   *)
(* be lost.                                                                 *)
ClusterRefinesLifecycle == ClusterLifecycle!Spec

(* process_scaling_phase "should be called periodically to advance the      *)
(* state machine".                                                          *)
FairClusterSpec == ClusterSpec /\ WF_vars(process_scaling_phase)

(* Called often enough, process_scaling_phase brings every operation to an  *)
(* end, whatever changes around it.                                         *)
OperationsEnd == InProgress ~> ~ InProgress
-----------------------------------------------------------------------------
(* What comments and documents say of the cluster and the code does not do. *)

(* rollback_scaling_operation: "Rolls back a failed scaling operation,      *)
(* restoring the cluster to its previous state".  Once a rollback is        *)
(* recorded, and nothing else changed, the members are as they were.        *)
RollbackRestores ==
    operation_history # <<>> /\ Quiet
        /\ "cluster_rollback_status" \in LastRecord.metadata => members = start.members
=============================================================================
