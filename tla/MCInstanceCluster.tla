------------------------- MODULE MCInstanceCluster --------------------------
(* Three instances, one of them with an IPv6 address; a policy with room    *)
(* for one more; every kind of operation, with and without ids.             *)
EXTENDS InstanceCluster, TLC

CONSTANTS i1, i2, i3

\* The clock advances once, which is too late for two of the phases.
MCTimeouts == [p \in ActivePhases |-> IF p \in {"Validating", "Configuring"} THEN 0 ELSE 1]

MCBaseIp == (i1 :> 0) @@ (i2 :> 1) @@ (i3 :> V6)

MCOp(type, target, ids) == [type |-> type, target |-> target, ids |-> ids]

MCOperations ==
    {MCOp("ScaleOut", 2, Nil), MCOp("ScaleOut", 3, Nil), MCOp("ScaleIn", 1, Nil),
     MCOp("ScaleIn", 2, Nil), MCOp("ScaleIn", 2, <<i2, i3>>),
     MCOp("ReplaceInstances", 0, <<i2>>)}

MCPolicy ==
    [min |-> 1, max |-> 3, out_cooldown |-> 1, in_cooldown |-> 2, last_out |-> 0, last_in |-> 0]

MCPolicies == {MCPolicy}
=============================================================================
