-------------------------- MODULE MembershipProofs --------------------------
(***************************************************************************)
(* The members of an InstanceCluster, for any instances, operations,       *)
(* policies and bounds: they are finitely many and well typed, and an      *)
(* operation that completes undisturbed did exactly what it was asked.     *)
(***************************************************************************)
EXTENDS ScalingProofs, FiniteSetTheorems

-----------------------------------------------------------------------------
(* Counting members.                                                         *)

(* A set that grows by as many as were added had none of them.               *)
LEMMA AddedAreNew ==
    ASSUME NEW A, IsFiniteSet(A), NEW B, IsFiniteSet(B), NEW n \in Nat,
           Cardinality(B) <= n, Cardinality(A \cup B) = Cardinality(A) + n
    PROVE  A \cap B = {}
  <1>1. IsFiniteSet(A \cap B)
    BY FS_Intersection
  <1>2. /\ Cardinality(A) \in Nat /\ Cardinality(B) \in Nat /\ Cardinality(A \cap B) \in Nat
    BY <1>1, FS_CardinalityType
  <1>3. Cardinality(A \cup B) = Cardinality(A) + Cardinality(B) - Cardinality(A \cap B)
    BY FS_Union
  <1>4. Cardinality(A \cap B) = 0
    BY <1>2, <1>3
  <1> QED
    BY <1>1, <1>4, FS_EmptySet

(* A set in which some are replaced and that stays as large as it was had    *)
(* none of the replacements.                                                 *)
LEMMA ReplacementsAreNew ==
    ASSUME NEW A, IsFiniteSet(A), NEW S \in SUBSET A, NEW R, IsFiniteSet(R),
           Cardinality(R) <= Cardinality(S), Cardinality((A \ S) \cup R) = Cardinality(A)
    PROVE  (A \ S) \cap R = {}
  <1>1. IsFiniteSet(S) /\ IsFiniteSet(A \ S) /\ A \cap S = S
    BY FS_Subset, FS_Difference
  <1>2. Cardinality(A) \in Nat /\ Cardinality(S) \in Nat
    BY <1>1, FS_CardinalityType
  <1>3. Cardinality(A \ S) = Cardinality(A) - Cardinality(S)
    <2>1. Cardinality(A \ S) = Cardinality(A) - Cardinality(A \cap S)
      BY FS_Difference, Zenon
    <2> QED
      BY <1>1, <2>1, Zenon
  <1>4. Cardinality((A \ S) \cup R) = Cardinality(A \ S) + Cardinality(S)
    BY <1>2, <1>3
  <1> QED
    BY <1>1, <1>2, <1>4, AddedAreNew

(* The names given to n new instances are n at most.                         *)
LEMMA NamesCounted ==
    ASSUME NEW t, NEW n \in Nat
    PROVE  /\ IsFiniteSet({inst(t, i) : i \in 0 .. n - 1})
           /\ Cardinality({inst(t, i) : i \in 0 .. n - 1}) <= n
  <1> DEFINE T == {inst(t, i) : i \in 0 .. n - 1}
             f == [i \in 0 .. n - 1 |-> inst(t, i)]
  <1>1. f \in Surjection(0 .. n - 1, T)
    BY DEF Surjection
  <1>2. IsFiniteSet(0 .. n - 1) /\ Cardinality(0 .. n - 1) = n
    BY FS_Interval
  <1> HIDE DEF T, f
  <1>3. IsFiniteSet(T) /\ Cardinality(T) <= n
    BY <1>1, <1>2, FS_Surjection
  <1> QED
    BY <1>3 DEF T

(* There are at most as many replacements as instances that are replaced.    *)
LEMMA ReplacementsCounted ==
    ASSUME NEW S, IsFiniteSet(S)
    PROVE  /\ IsFiniteSet({replacement(old) : old \in S})
           /\ Cardinality({replacement(old) : old \in S}) <= Cardinality(S)
  <1> DEFINE T == {replacement(old) : old \in S}
             f == [old \in S |-> replacement(old)]
  <1>1. f \in Surjection(S, T)
    BY DEF Surjection
  <1> HIDE DEF T, f
  <1>2. IsFiniteSet(T) /\ Cardinality(T) <= Cardinality(S)
    BY <1>1, FS_Surjection
  <1> QED
    BY <1>2 DEF T
-----------------------------------------------------------------------------
(* The types.                                                                *)

(* Finitely many members with an address and a heartbeat each.               *)
Membership(m) == m \in [DOMAIN m -> Member] /\ IsFiniteSet(DOMAIN m)

(* The new members of a scale-out wrap around within the last octet.         *)
LEMMA Wraps ==
    ASSUME NEW a \in Int
    PROVE  a % Octets \in 0 .. Octets - 1 /\ U32(a) \in Nat
  BY ClusterAssumption DEF U32

(* The size of the cluster is a number.                                      *)
LEMMA SizeType ==
    ASSUME Membership(members)
    PROVE  Size \in Nat
  BY FS_CardinalityType DEF Membership, Size, Ids

(* How many instances a scale-out adds, and a scale-in removes.              *)
LEMMA CountType ==
    ASSUME Membership(members), NEW op \in Operations
    PROVE  instances_to_add(op) \in Nat /\ instances_to_remove(op) \in Nat
  <1>1. op.target \in Int
    BY OperationAssumption, ClusterAssumption
  <1>2. op.target - Size \in Int /\ Size - op.target \in Int
    BY <1>1, SizeType
  <1> QED
    BY <1>2, Wraps DEF instances_to_add, instances_to_remove

(* insert keeps the members well typed.                                      *)
LEMMA JoinedType ==
    ASSUME NEW m, Membership(m), NEW new, Membership(new)
    PROVE  Membership(joined(m, new))
  <1>1. IsFiniteSet(DOMAIN m \cup DOMAIN new)
    BY FS_Union, Zenon DEF Membership
  <1> QED
    BY <1>1 DEF Membership, joined

(* So do the new members of a scale-out.                                     *)
LEMMA NewInstancesType ==
    ASSUME Membership(members), now \in Time, template \in Ids, NEW n \in Nat
    PROVE  /\ Membership(new_instances(n))
           /\ Cardinality(DOMAIN new_instances(n)) <= n
  <1> DEFINE T == {inst(template, i) : i \in 0 .. n - 1}
  <1>1. members[template].ip \in Int
    BY ClusterAssumption DEF Membership, Member, Ips, V6, Ids
  <1>2. ASSUME NEW id \in T
        PROVE  [ip |-> (members[template].ip + id[3] + 1) % Octets, hb |-> now] \in Member
    <2>1. PICK i \in 0 .. n - 1 : id = inst(template, i)
      OBVIOUS
    <2>2. id[3] \in Int
      BY <2>1 DEF inst
    <2>3. members[template].ip + id[3] + 1 \in Int
      BY <1>1, <2>2
    <2> QED
      BY <2>3, Wraps DEF Member, Ips
  <1>3. IsFiniteSet(T) /\ Cardinality(T) <= n
    BY NamesCounted
  <1>4. new_instances(n) = [id \in T |->
            [ip |-> (members[template].ip + id[3] + 1) % Octets, hb |-> now]]
    BY Zenon DEF new_instances
  <1> HIDE DEF T
  <1>5. DOMAIN new_instances(n) = T /\ new_instances(n) \in [T -> Member]
    BY <1>2, <1>4, Zenon
  <1> QED
    BY <1>3, <1>5, Zenon DEF Membership

(* And the members that replace others.                                      *)
LEMMA ReplacedType ==
    ASSUME Membership(members), now \in Time, NEW S \in SUBSET Ids
    PROVE  Membership(replaced(S))
  <1> DEFINE R == {replacement(old) : old \in S}
             D == (Ids \ S) \cup R
  <1>1. IsFiniteSet(D)
    <2>1. IsFiniteSet(S) /\ IsFiniteSet(Ids \ S)
      BY FS_Subset, FS_Difference DEF Membership, Ids
    <2>2. IsFiniteSet(R)
      BY <2>1, ReplacementsCounted
    <2> HIDE DEF R
    <2> QED
      BY <2>1, <2>2, FS_Union, Zenon
  <1>2. ASSUME NEW id \in R PROVE [ip |-> members[id[2]].ip, hb |-> now] \in Member
    <2>1. PICK old \in S : id = replacement(old)
      OBVIOUS
    <2>2. id[2] = old
      BY <2>1 DEF replacement
    <2> QED
      BY <2>2 DEF Membership, Member, Ids
  <1>3. ASSUME NEW id \in Ids PROVE members[id] \in Member
    BY DEF Membership, Ids
  <1>4. replaced(S) = [id \in D |-> IF id \in R THEN [ip |-> members[id[2]].ip, hb |-> now]
                                     ELSE members[id]]
    BY Zenon DEF replaced
  <1>5. ASSUME NEW id \in D
        PROVE  (IF id \in R THEN [ip |-> members[id[2]].ip, hb |-> now] ELSE members[id]) \in Member
    BY <1>2, <1>3, Zenon
  <1> HIDE DEF D, R
  <1>6. DOMAIN replaced(S) = D /\ replaced(S) \in [D -> Member]
    BY <1>4, <1>5, Zenon
  <1> QED
    BY <1>1, <1>6 DEF Membership

(* Whatever it returns, apply_configuration_changes leaves well-typed        *)
(* members.                                                                  *)
LEMMA AppliedType ==
    ASSUME Membership(members), now \in Time, NEW op \in Operations,
           NEW result \in apply_configuration_changes(op)
    PROVE  Membership(result.members)
  <1>1. op.type \in {"ScaleOut", "ScaleIn", "ReplaceInstances"}
    BY OperationAssumption
  <1>2. CASE result = Unapplied
    BY <1>2 DEF Unapplied
  <1>3. CASE op.type = "ScaleOut"
    <2>1. result \in apply_scale_out(op)
      BY <1>3, Zenon DEF apply_configuration_changes
    <2>2. result = Unapplied \/
            (HasTemplate /\ result = Applied(joined(members, new_instances(instances_to_add(op))), op.target))
      BY <2>1, Zenon DEF apply_scale_out
    <2>3. ASSUME NEW m, NEW n PROVE Applied(m, n).members = m
      BY DEF Applied
    <2>4. HasTemplate => Membership(joined(members, new_instances(instances_to_add(op))))
      <3>1. HasTemplate => Membership(new_instances(instances_to_add(op)))
        BY NewInstancesType, CountType, Zenon DEF HasTemplate
      <3> QED
        BY <3>1, JoinedType, Zenon
    <2> QED
      BY <1>2, <2>2, <2>3, <2>4, Zenon
  <1>4. CASE op.type = "ScaleIn"
    <2>1. result \in apply_scale_in(op)
      BY <1>4 DEF apply_configuration_changes
    <2>2. ASSUME NEW sel, NEW n
          PROVE  Membership(Applied([id \in Ids \ sel |-> members[id]], n).members)
      <3>1. IsFiniteSet(Ids \ sel)
        BY FS_Difference, Zenon DEF Membership, Ids
      <3> QED
        BY <3>1 DEF Applied, Membership, Ids
    <2> QED
      BY <1>2, <2>1, <2>2, Zenon DEF apply_scale_in
  <1>5. CASE op.type = "ReplaceInstances"
    <2>1. result \in apply_replace(op)
      BY <1>5 DEF apply_configuration_changes
    <2>2. result = Unapplied \/ (OpIds(op) \subseteq Ids /\ result = Applied(replaced(OpIds(op)), Size))
      BY <2>1, Zenon DEF apply_replace
    <2>3. ASSUME NEW m, NEW n PROVE Applied(m, n).members = m
      BY DEF Applied
    <2>4. OpIds(op) \subseteq Ids => Membership(replaced(OpIds(op)))
      BY ReplacedType
    <2> QED
      BY <1>2, <2>2, <2>3, <2>4, Zenon
  <1> QED
    BY <1>1, <1>3, <1>4, <1>5, Zenon

(* The type invariant; the proof of it needs that the members are finitely   *)
(* many, and so do the counts of every operation.                            *)
MembersInv == ClusterTypeOK /\ IsFiniteSet(Ids)

(* The invariant, in the parts that steps change together.                   *)
LEMMA MembersInvParts ==
    MembersInv <=> /\ Membership(members)
                   /\ template \in BaseIds \cup {Nil}
                   /\ policy = Nil \/ policy \in Policy
                   /\ churn \in 0 .. MaxChurn
  BY DEF MembersInv, Membership, ClusterTypeOK, Ids

(* A change from outside leaves well-typed members.                          *)
LEMMA ChangesType ==
    ASSUME Membership(members), now \in Time, Changes
    PROVE  Membership(members')
  <1>1. ASSUME NEW id \in BaseIds, insert(id) PROVE Membership(members')
    <2> DEFINE new == [i \in {id} |-> [ip |-> BaseIp[id], hb |-> now]]
    <2>1. IsFiniteSet({id})
      BY FS_Singleton
    <2>2. Membership(new)
      BY <2>1, ClusterAssumption, Zenon DEF Membership, Member
    <2>3. members' = joined(members, new)
      BY <1>1, Zenon DEF insert
    <2> HIDE DEF new
    <2> QED
      BY <2>2, <2>3, JoinedType, Zenon
  <1>2. ASSUME NEW id \in Ids, remove(id) PROVE Membership(members')
    <2>1. IsFiniteSet(Ids \ {id})
      BY FS_RemoveElement DEF Membership, Ids
    <2>2. members' = [i \in Ids \ {id} |-> members[i]]
      BY <1>2, Zenon DEF remove
    <2> QED
      BY <2>1, <2>2, Zenon DEF Membership, Ids
  <1>3. ASSUME NEW id \in Ids, heartbeat(id) PROVE Membership(members')
    BY <1>3 DEF heartbeat, Membership, Member, Ids
  <1> QED
    BY <1>1, <1>2, <1>3, Zenon DEF Changes, set_scaling_policy, set_template_instance_id

(* Every step of a cluster keeps its members, template and policy well typed.*)
LEMMA MembersStep ==
    ASSUME IInv, MembersInv, PolicyType', ClusterNext
    PROVE  MembersInv'
  <1>1. now \in Time /\ Membership(members)
    BY MembersInvParts DEF IInv, CoreType
  <1>2. Membership(members')
    <2>1. CASE members' = members
      BY <1>1, <2>1, Zenon
    <2>2. CASE InProgress /\ \E result \in apply_configuration_changes(Op) : members' = result.members
      <3>1. Op \in Operations
        BY <2>2 DEF IInv, CoreType, PhaseCore, InProgress, NoPhase, ActivePhases, NONE, Op
      <3> QED
        BY <1>1, <2>2, <3>1, AppliedType, Zenon
    <2>3. CASE Changes
      BY <1>1, <2>3, ChangesType, Zenon
    <2>4. CASE Moving
      <3>1. PICK s \in ActivePhases, t \in ActivePhases : Moves(s, t)
        BY <2>4 DEF Moving
      <3>2. InProgress
        BY <3>1 DEF Moves, transition, InProgress
      <3> QED
        BY <2>1, <2>2, <3>1, <3>2, Zenon DEF Moves
    <2>5. CASE Stopping
      BY <2>1, <2>2, <2>5, Zenon DEF Stopping, Stops
    <2> QED
      BY <2>1, <2>3, <2>4, <2>5, ClusterKinds, Zenon
      DEF start_scaling_state_machine, process_finalizing, Rolls, lose_scaling_manager, cvars
  <1>3. template' \in BaseIds \cup {Nil} /\ churn' \in 0 .. MaxChurn
    <2>1. CASE UNCHANGED <<template, churn>>
      BY <2>1, MembersInvParts, Zenon
    <2>2. CASE /\ churn < MaxChurn /\ churn' = churn + 1
               /\ template' = template \/ template' \in BaseIds \cup {Nil}
      BY <2>2, MembersInvParts, ClusterAssumption
    <2>3. CASE Changes \/ lose_scaling_manager
      BY <2>2, <2>3, Zenon DEF Changes, insert, remove, heartbeat, set_scaling_policy,
                               set_template_instance_id, Outside, lose_scaling_manager
    <2>4. CASE Moving \/ Stopping
      BY <2>1, <2>4, Zenon DEF Moving, Moves, Stopping, Stops
    <2> QED
      BY <2>1, <2>3, <2>4, ClusterKinds, Zenon
      DEF start_scaling_state_machine, process_finalizing, Rolls, cvars
  <1> QED
    BY <1>2, <1>3, Zenon DEF MembersInv, Membership, ClusterTypeOK, Ids, PolicyType

(* A new cluster has some of the instances that join by themselves.          *)
LEMMA MembersInit == ClusterInit => MembersInv
  <1> SUFFICES ASSUME ClusterInit PROVE MembersInv
    OBVIOUS
  <1>1. PICK S \in SUBSET BaseIds :
            members = [id \in S |-> [ip |-> BaseIp[id], hb |-> 0]] /\ template \in S
    BY DEF ClusterInit
  <1>2. IsFiniteSet(S)
    BY ClusterAssumption, FS_Subset, Zenon
  <1>3. Membership(members)
    BY <1>1, <1>2, ClusterAssumption, BoundAssumption DEF Membership, Member, Time
  <1> QED
    BY <1>1, <1>3, ClusterAssumption, MembersInvParts DEF ClusterInit

(* Finitely many well-typed members, in every reachable state.               *)
THEOREM MembersInvariant == ClusterSpec => []MembersInv
  <1>1. IInv /\ MembersInv /\ PolicyType' /\ [ClusterNext]_vars => MembersInv'
    <2>1. ASSUME MembersInv, UNCHANGED vars PROVE MembersInv'
      BY <2>1 DEF MembersInv, ClusterTypeOK, Ids, vars
    <2> QED
      BY <2>1, MembersStep, Zenon
  <1> QED
    BY <1>1, MembersInit, ManagerInvariant, PolicyInvariant, PTL DEF ClusterSpec

(* Scale-outs, replacements and changes from outside leave every member with *)
(* an address whose last octet is in range, although it is counted up from   *)
(* the template's, and with a heartbeat that is a time.                      *)
THEOREM ClusterTypeTheorem == ClusterSpec => []ClusterTypeOK
  <1>1. MembersInv => ClusterTypeOK
    BY DEF MembersInv
  <1> QED
    BY <1>1, MembersInvariant, PTL
-----------------------------------------------------------------------------
(* An operation that completes undisturbed.                                  *)

(* What validate_scaling_operation establishes of the sizes.                 *)
Allowed(op, pol, before) ==
    /\ op.type = "ScaleOut" => op.target <= pol.max /\ Cardinality(before) < op.target
    /\ op.type = "ScaleIn" => pol.min <= op.target /\ op.target < Cardinality(before)

(* What apply_configuration_changes makes of the members when it succeeds.   *)
Done(op, before, after, t) ==
    LET kept == DOMAIN after \cap DOMAIN before
    IN  /\ t \in DOMAIN before => t \in DOMAIN after
        /\ \A id \in kept : after[id] = before[id]
        /\ op.type = "ScaleOut" => kept = DOMAIN before /\ Cardinality(DOMAIN after) = op.target
        /\ op.type = "ScaleIn" => kept = DOMAIN after /\ Cardinality(DOMAIN after) = op.target
        /\ op.type = "ReplaceInstances" =>
              /\ kept = DOMAIN before \ OpIds(op)
              /\ Cardinality(DOMAIN after) = Cardinality(DOMAIN before)
              /\ {after[id].ip : id \in DOMAIN after} = {before[id].ip : id \in DOMAIN before}

(* An operation that nobody disturbs is, once it is validated, allowed by    *)
(* the policy as it is and, once it is applied, done to the members it       *)
(* started from.                                                             *)
AskedInv ==
    /\ start.churn \in Nat /\ start.churn <= churn
    /\ Quiet =>
         /\ current_phase.name \in Validated \cup {"Completed"} =>
                Allowed(Op, policy, DOMAIN start.members)
         /\ current_phase.name \in {"Verifying", "Finalizing", "Completed"} =>
                Done(Op, start.members, members, template)

(* What is applied is done: the number of members compared with the target   *)
(* shows that no name was taken.                                             *)
LEMMA AppliedIs ==
    ASSUME NEW m, NEW n
    PROVE  Applied(m, n).members = m /\ Applied(m, n).ok = (Cardinality(DOMAIN m) = n)
  BY DEF Applied

(* u32 subtraction of a smaller number.                                      *)
LEMMA NoWrap ==
    ASSUME NEW a \in 0 .. MaxU32, NEW b \in Nat, b < a
    PROVE  U32(a - b) = a - b
  BY ClusterAssumption DEF U32

(* A scale-out that ends with the target size overwrote no member.           *)
LEMMA DoneScaleOut ==
    ASSUME Membership(members), now \in Time, NEW op \in Operations, op.type = "ScaleOut",
           Size < op.target, NEW result \in apply_scale_out(op), result.ok
    PROVE  Done(op, members, result.members, template)
  <1> DEFINE n == instances_to_add(op)
             new == new_instances(n)
             after == joined(members, new)
  <1>1. HasTemplate /\ result = Applied(after, op.target)
    <2>1. Unapplied.ok = FALSE
      BY DEF Unapplied
    <2> QED
      BY <2>1, Zenon DEF apply_scale_out
  <1>2. Size \in Nat /\ op.target \in 0 .. MaxU32 /\ n \in Nat
    BY SizeType, CountType, OperationAssumption, Zenon
  <1>3. n = op.target - Size
    BY <1>2, NoWrap, Zenon DEF instances_to_add
  <1>4. /\ Membership(new) /\ IsFiniteSet(DOMAIN new) /\ Cardinality(DOMAIN new) <= n
    <2> HIDE DEF n
    <2> QED
      BY <1>1, <1>2, NewInstancesType, Zenon DEF HasTemplate, Membership
  <1> HIDE DEF n, new
  <1>5. result.members = after /\ Cardinality(DOMAIN after) = op.target
    <2> HIDE DEF after
    <2> QED
      BY <1>1, AppliedIs, Zenon
  <1>6. DOMAIN after = Ids \cup DOMAIN new
    BY DEF joined, Ids
  <1>7. Ids \cap DOMAIN new = {}
    <2>1. Cardinality(Ids \cup DOMAIN new) = Cardinality(Ids) + n
      BY <1>2, <1>3, <1>5, <1>6, ClusterAssumption DEF Size
    <2>2. IsFiniteSet(Ids)
      BY DEF Membership, Ids
    <2> QED
      BY <1>2, <1>4, <2>1, <2>2, AddedAreNew, Zenon
  <1>8. \A id \in Ids : after[id] = members[id]
    BY <1>6, <1>7, Zenon DEF joined, Ids
  <1> HIDE DEF after
  <1>9. DOMAIN after \cap DOMAIN members = DOMAIN members /\ DOMAIN members = Ids
    BY <1>6, Zenon DEF Ids
  <1>10. Done(op, members, after, template)
    BY <1>1, <1>5, <1>8, <1>9, ZenonT(40) DEF Done, HasTemplate
  <1> QED
    BY <1>5, <1>10, Zenon

(* A scale-in removes members and no template.                               *)
LEMMA DoneScaleIn ==
    ASSUME NEW op, op.type = "ScaleIn", NEW result \in apply_scale_in(op), result.ok
    PROVE  Done(op, members, result.members, template)
  <1>1. PICK sel : /\ template \notin sel
                   /\ result = Applied([id \in Ids \ sel |-> members[id]], op.target)
    <2>1. Unapplied.ok = FALSE
      BY DEF Unapplied
    <2> QED
      BY <2>1, Zenon DEF apply_scale_in
  <1> DEFINE after == [id \in Ids \ sel |-> members[id]]
  <1>2. /\ DOMAIN after = Ids \ sel /\ \A id \in Ids \ sel : after[id] = members[id]
        /\ result = Applied(after, op.target)
    BY <1>1
  <1> HIDE DEF after
  <1>3. result.members = after /\ Cardinality(DOMAIN after) = op.target
    BY <1>2, AppliedIs, ZenonT(40)
  <1>4. /\ DOMAIN after \cap DOMAIN members = DOMAIN after /\ DOMAIN members = Ids
        /\ template \in Ids => template \in DOMAIN after
    BY <1>1, <1>2, Zenon DEF Ids
  <1>5. Done(op, members, after, template)
    BY <1>2, <1>3, <1>4 DEF Done
  <1> QED
    BY <1>3, <1>5, Zenon

(* A replacement that keeps the size gave no replacement a name in use, and  *)
(* each the address of the one it replaces.                                  *)
LEMMA DoneReplace ==
    ASSUME Membership(members), now \in Time, NEW op \in Operations, op.type = "ReplaceInstances",
           NEW result \in apply_replace(op), result.ok
    PROVE  Done(op, members, result.members, template)
  <1> DEFINE S == OpIds(op)
             R == {replacement(old) : old \in S}
             after == replaced(S)
  <1>1. /\ HasTemplate /\ S \subseteq Ids /\ template \notin S
        /\ result = Applied(after, Size)
    <2>1. Unapplied.ok = FALSE
      BY DEF Unapplied
    <2> QED
      BY <2>1, Zenon DEF apply_replace
  <1>2. result.members = after /\ Cardinality(DOMAIN after) = Size
    <2> HIDE DEF after
    <2> QED
      BY <1>1, AppliedIs, Zenon
  <1>3. S \subseteq BaseIds
    BY OperationAssumption DEF OpIds
  <1>4. \A old \in BaseIds : replacement(old) \notin BaseIds
    BY OperationAssumption, Zenon DEF replacement
  <1>5. S \cap R = {}
    BY <1>3, <1>4, Zenon
  <1>6. /\ DOMAIN after = (Ids \ S) \cup R
        /\ \A id \in R : after[id] = [ip |-> members[id[2]].ip, hb |-> now]
        /\ \A id \in Ids \ S : id \notin R => after[id] = members[id]
    BY Zenon DEF replaced
  <1>7. \A old \in S : replacement(old) \in R /\ replacement(old)[2] = old
    BY DEF replacement
  <1>8. \A id \in R : \E old \in S : id = replacement(old)
    OBVIOUS
  <1>9. IsFiniteSet(Ids) /\ IsFiniteSet(S) /\ IsFiniteSet(R) /\ Cardinality(R) <= Cardinality(S)
    <2>1. IsFiniteSet(Ids) /\ IsFiniteSet(S)
      BY <1>1, FS_Subset, Zenon DEF Membership, Ids
    <2> QED
      BY <2>1, ReplacementsCounted, Zenon
  <1> HIDE DEF S, R, after
  <1>10. (Ids \ S) \cap R = {}
    BY <1>1, <1>2, <1>6, <1>9, ReplacementsAreNew, ZenonT(40) DEF Size
  <1>11. /\ DOMAIN after \cap Ids = Ids \ S
         /\ \A id \in Ids \ S : after[id] = members[id]
    BY <1>1, <1>5, <1>6, <1>10, Zenon
  <1>12. \A old \in S : replacement(old) \in R /\ after[replacement(old)].ip = members[old].ip
    BY <1>6, <1>7
  <1>13. {after[id].ip : id \in DOMAIN after} = {members[id].ip : id \in Ids}
    <2>1. ASSUME NEW id \in DOMAIN after PROVE \E i \in Ids : after[id].ip = members[i].ip
      <3>1. CASE id \in R
        BY <1>1, <1>8, <1>12, <3>1, Zenon
      <3>2. CASE id \in Ids \ S
        BY <1>11, <3>2, Zenon
      <3> QED
        BY <1>6, <3>1, <3>2, Zenon
    <2>2. ASSUME NEW id \in Ids PROVE \E i \in DOMAIN after : members[id].ip = after[i].ip
      <3>1. CASE id \in S
        <4>1. replacement(id) \in DOMAIN after /\ members[id].ip = after[replacement(id)].ip
          BY <1>6, <1>12, <3>1, Zenon
        <4> QED
          BY <4>1, Zenon
      <3>2. CASE id \notin S
        BY <1>6, <1>11, <3>2, Zenon
      <3> QED
        BY <3>1, <3>2, Zenon
    <2> QED
      BY <2>1, <2>2
  <1>14. Done(op, members, after, template)
    <2>1. template \in DOMAIN after /\ \A id \in DOMAIN after \cap Ids : after[id] = members[id]
      BY <1>1, <1>6, <1>11, Zenon DEF HasTemplate
    <2> QED
      BY <1>2, <1>11, <1>13, <2>1, Zenon DEF Done, S, Size, Ids
  <1> QED
    BY <1>2, <1>14, Zenon

(* Changes that were applied without an error are the ones that were asked for. *)
LEMMA AppliedDone ==
    ASSUME Membership(members), now \in Time, NEW op \in Operations,
           op.type = "ScaleOut" => Size < op.target,
           NEW result \in apply_configuration_changes(op), result.ok
    PROVE  Done(op, members, result.members, template)
  <1>1. op.type \in {"ScaleOut", "ScaleIn", "ReplaceInstances"}
    BY OperationAssumption
  <1>2. CASE op.type = "ScaleOut"
    BY <1>2, DoneScaleOut, Zenon DEF apply_configuration_changes
  <1>3. CASE op.type = "ScaleIn"
    <2>1. result \in apply_scale_in(op)
      BY <1>3 DEF apply_configuration_changes
    <2> QED
      BY <1>3, <2>1, DoneScaleIn, Zenon
  <1>4. CASE op.type = "ReplaceInstances"
    <2>1. result \in apply_replace(op)
      BY <1>4 DEF apply_configuration_changes
    <2> QED
      BY <1>4, <2>1, DoneReplace, Zenon
  <1> QED
    BY <1>1, <1>2, <1>3, <1>4, Zenon

(* AskedInv, in the parts that depend on the phase.                          *)
AllowedNow ==
    Quiet /\ current_phase.name \in Validated \cup {"Completed"} =>
        Allowed(Op, policy, DOMAIN start.members)

DoneNow ==
    Quiet /\ current_phase.name \in {"Verifying", "Finalizing", "Completed"} =>
        Done(Op, start.members, members, template)

(* The invariant, in the parts that steps change together.                   *)
LEMMA AskedParts ==
    AskedInv <=> /\ start.churn \in Nat /\ start.churn <= churn
                 /\ AllowedNow /\ DoneNow
  BY Zenon DEF AskedInv, AllowedNow, DoneNow

(* The next phase of an operation.                                           *)
LEMMA AskedMoves ==
    ASSUME IInv, MembersInv, EarlyEndLeavesNoTrace, AskedInv,
           NEW s \in ActivePhases, NEW t \in ActivePhases, Moves(s, t)
    PROVE  AskedInv'
  <1>1. /\ current_phase.name = s /\ current_phase'.name = t /\ Op' = Op
        /\ UNCHANGED <<template, policy, churn, start>>
    BY DEF Moves, transition, Op
  <1>2. Quiet' = Quiet
    BY <1>1, Zenon DEF Quiet
  <1>3. s \in Early => members = start.members
    BY <1>1, EarlyMeans, Zenon DEF Untouched
  <1>4. /\ t \in Validated => s = "Validating" \/ s \in Validated
        /\ t \in {"Verifying", "Finalizing"} => s \in {"Configuring", "Verifying"}
        /\ "Validating" \in Early /\ "Configuring" \in Early /\ "Configuring" \in Validated
        /\ t # "Completed"
    BY DEF Moves, StageOf, ActivePhases, Validated, Early
  <1>5. AllowedNow'
    <2> SUFFICES ASSUME Quiet, t \in Validated PROVE Allowed(Op, policy, DOMAIN start.members)
      BY <1>1, <1>2, <1>4, Zenon DEF AllowedNow
    <2>1. CASE s = "Validating"
      <3>1. validate_scaling_operation(Op) /\ members = start.members
        BY <1>3, <1>4, <2>1, Zenon DEF Moves
      <3>2. Allowed(Op, policy, Ids)
        BY <3>1, Zenon DEF validate_scaling_operation, Allowed, Size
      <3> QED
        BY <3>1, <3>2, Zenon DEF Ids
    <2>2. CASE s \in Validated
      BY <1>1, <2>2, AskedParts, Zenon DEF AllowedNow
    <2> QED
      BY <1>4, <2>1, <2>2, Zenon
  <1>6. DoneNow'
    <2> SUFFICES ASSUME Quiet, t \in {"Verifying", "Finalizing"}
                 PROVE  Done(Op, start.members, members', template)
      BY <1>1, <1>2, <1>4, Zenon DEF DoneNow
    <2>1. CASE s = "Configuring"
      <3>1. PICK result \in apply_configuration_changes(Op) : result.ok /\ members' = result.members
        BY <2>1, Zenon DEF Moves
      <3>2. members = start.members /\ Allowed(Op, policy, DOMAIN members)
        BY <1>1, <1>3, <1>4, <2>1, AskedParts, Zenon DEF AllowedNow
      <3>3. Op \in Operations /\ now \in Time
        BY <1>1 DEF IInv, CoreType, PhaseCore, NoPhase, ActivePhases, NONE, Op
      <3>4. Op.type = "ScaleOut" => Size < Op.target
        BY <3>2, Zenon DEF Allowed, Size, Ids
      <3> QED
        BY <3>1, <3>2, <3>3, <3>4, MembersInvParts, AppliedDone, Zenon
    <2>2. CASE s = "Verifying"
      <3>1. members' = members
        BY <2>2, Zenon DEF Moves
      <3> QED
        BY <1>1, <2>2, <3>1, AskedParts, Zenon DEF DoneNow
    <2> QED
      BY <1>4, <2>1, <2>2, Zenon
  <1> QED
    BY <1>1, <1>5, <1>6, AskedParts, Zenon DEF AskedInv, AllowedNow, DoneNow

(* finalize_scaling_operation changes nothing of a policy but the stamps.    *)
LEMMA AskedFinalizes ==
    ASSUME PolicyType, AskedInv, process_finalizing
    PROVE  AskedInv'
  <1>1. /\ current_phase.name = "Finalizing" /\ current_phase'.name = "Completed" /\ Op' = Op
        /\ UNCHANGED <<members, template, churn, start>> /\ policy' = finalized_policy(Op)
    BY DEF process_finalizing, Processing, complete_operation, close, ended_phase, Op
  <1>2. Quiet' = Quiet
    BY <1>1, Zenon DEF Quiet
  <1>3. Quiet => Allowed(Op, policy, DOMAIN start.members)
    BY <1>1, AskedParts, Zenon DEF AllowedNow, Validated, ActivePhases
  <1>4. policy' = policy \/ (policy'.min = policy.min /\ policy'.max = policy.max)
    BY <1>1, Zenon DEF finalized_policy, PolicyType, Policy
  <1>5. Quiet => Allowed(Op, policy', DOMAIN start.members)
    BY <1>3, <1>4, Zenon DEF Allowed
  <1>6. Quiet => Done(Op, start.members, members, template)
    BY <1>1, AskedParts, Zenon DEF DoneNow
  <1> QED
    BY <1>1, <1>2, <1>5, <1>6, AskedParts, Zenon DEF AskedInv

(* Every step of a cluster keeps AskedInv.                                   *)
LEMMA AskedStep ==
    ASSUME IInv, Counted, MembersInv, PolicyType, EarlyEndLeavesNoTrace, AskedInv, ClusterNext
    PROVE  AskedInv'
  <1> DEFINE Names == Validated \cup {"Completed", "Verifying", "Finalizing"}
  <1>0. start.churn \in Nat /\ start.churn <= churn /\ churn \in Nat
    BY AskedParts DEF Counted
  <1>1. ASSUME start'.churn \in Nat, start'.churn <= churn', current_phase'.name \notin Names
        PROVE  AskedInv'
    BY <1>1, Zenon DEF AskedInv
  <1>2. CASE \E op \in Operations : start_scaling_state_machine(op)
    <2>1. /\ start'.churn = churn /\ churn' = churn /\ current_phase'.name = "Requested"
      BY <1>2 DEF start_scaling_state_machine, start_operation, new_requested
    <2>2. "Requested" \notin Names
      BY DEF Validated, ActivePhases
    <2>3. start'.churn <= churn'
      BY <1>0, <2>1
    <2> QED
      BY <1>0, <1>1, <2>1, <2>2, <2>3, Zenon
  <1>3. CASE Moving
    BY <1>3, AskedMoves, Zenon DEF Moving
  <1>4. CASE Stopping
    <2>1. PICK name \in Outcomes, error \in ErrorTypes : Stops(name, error)
      BY <1>4, Zenon DEF Stopping
    <2>2. start' = start /\ churn' = churn /\ current_phase'.name = name
      BY <2>1 DEF Stops, ended_phase
    <2>3. name \notin Names
      BY DEF Outcomes, Validated, ActivePhases
    <2> QED
      BY <1>0, <1>1, <2>2, <2>3, Zenon
  <1>5. CASE process_finalizing
    BY <1>5, AskedFinalizes, Zenon
  <1>6. CASE UNCHANGED <<current_phase, members, template, policy, churn, start>>
    BY <1>6, Zenon DEF AskedInv, Quiet, Op
  <1>7. CASE lose_scaling_manager
    <2>1. start' = start /\ churn' = churn + 1 /\ current_phase'.name = NONE
      BY <1>7 DEF lose_scaling_manager, NoPhase
    <2>2. NONE \notin Names
      BY DEF NONE, Validated, ActivePhases
    <2>3. start.churn <= churn'
      BY <1>0, <2>1
    <2> QED
      BY <1>0, <1>1, <2>1, <2>2, <2>3, Zenon
  <1>8. CASE Changes
    <2>1. churn' = churn + 1
      BY <1>8, Zenon DEF Changes, insert, remove, heartbeat, set_scaling_policy,
                         set_template_instance_id, Outside
    <2>2. start' = start \/ \E m : start' = [start EXCEPT !.members = m]
      BY <1>8, Zenon DEF Changes, insert, remove, heartbeat, set_scaling_policy, set_template_instance_id
    <2>3. start'.churn = start.churn
      BY <2>2 DEF Counted
    <2>4. start'.churn \in Nat /\ start'.churn <= churn' /\ churn' # start'.churn
      BY <1>0, <2>1, <2>3
    <2> QED
      BY <2>4, Zenon DEF AskedInv, Quiet
  <1> QED
    BY <1>2, <1>3, <1>4, <1>5, <1>6, <1>7, <1>8, ClusterKinds, Zenon DEF Rolls, Marks, Tick, cvars

(* Whatever operations run one after another, whatever the policies and the  *)
(* names and addresses of the members: an operation that completes without a *)
(* change from outside since it started did exactly what it was asked.  That *)
(* new names are never in use is not assumed: it follows from the comparison *)
(* of the size with the target at the end of apply_configuration_changes.    *)
THEOREM CompletedTheorem == ClusterSpec => []CompletedAsAsked
  <1>1. ClusterInit => AskedInv
    BY DEF ClusterInit, AskedInv, NoPhase, NONE, Validated, ActivePhases
  <1>2. IInv /\ Counted /\ MembersInv /\ PolicyType /\ EarlyEndLeavesNoTrace /\ AskedInv /\ [ClusterNext]_vars
            => AskedInv'
    <2>1. ASSUME AskedInv, UNCHANGED vars PROVE AskedInv'
      BY <2>1, Zenon DEF AskedInv, Quiet, Op, vars
    <2> QED
      BY <2>1, AskedStep, Zenon
  <1>3. AskedInv => CompletedAsAsked
    <2> SUFFICES ASSUME AskedInv, current_phase.name = "Completed", Quiet PROVE CompletedAsAsked
      BY Zenon DEF CompletedAsAsked
    <2>1. Allowed(Op, policy, DOMAIN start.members) /\ Done(Op, start.members, members, template)
      BY Zenon DEF AskedInv
    <2> QED
      BY <2>1, Zenon DEF CompletedAsAsked, Allowed, Done, Size, Ids
  <1> QED
    BY <1>1, <1>2, <1>3, ManagerInvariant, CountedInvariant, MembersInvariant, PolicyInvariant,
       EarlyEndTheorem, PTL DEF ClusterSpec
=============================================================================
