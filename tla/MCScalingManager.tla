-------------------------- MODULE MCScalingManager --------------------------
(* Instantiates ScalingManager for TLC: different time limits per phase, so *)
(* that some phases time out at once and others never do within MaxTime.    *)
EXTENDS ScalingManager

MCTimeouts == [p \in ActivePhases |->
    CASE p \in {"Requested", "Validating", "Planning"} -> 0
      [] p \in {"ResourceAllocating", "InstancePreparing", "Verifying"} -> 1
      [] p \in {"Configuring", "Finalizing"} -> 2]
=============================================================================
