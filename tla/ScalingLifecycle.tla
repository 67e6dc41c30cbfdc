-------------------------- MODULE ScalingLifecycle --------------------------
(***************************************************************************)
(* What the scaling machinery promises its callers about operations, and   *)
(* nothing about how: at most one operation runs, it goes through the      *)
(* eight stages of the design one at a time and in order, it ends exactly  *)
(* once, with success only from a stage in CompleteFrom, and the log of    *)
(* outcomes only grows.  A machine that is not persisted may also forget   *)
(* everything (Forgetful).                                                 *)
(***************************************************************************)
EXTENDS Naturals, Sequences

CONSTANTS
    CompleteFrom,   \* the stages from which an operation may end in success
    Forgetful       \* may the machine be lost and start afresh?

VARIABLES
    stage,          \* 0 when nothing runs, else the number of the phase
    log             \* the outcomes of the operations that have ended

lvars == <<stage, log>>

Stages == 1 .. 8

Outcomes == {"Completed", "Failed", "Canceled"}

Start ==
    /\ stage = 0
    /\ stage' = 1
    /\ UNCHANGED log

Advance ==
    /\ stage \in Stages \ {8}
    /\ stage' = stage + 1
    /\ UNCHANGED log

End(outcome) ==
    /\ stage \in Stages
    /\ outcome = "Completed" => stage \in CompleteFrom
    /\ stage' = 0
    /\ log' = Append(log, outcome)

Forget ==
    /\ Forgetful
    /\ stage' = 0
    /\ log' = <<>>

Init == stage = 0 /\ log = <<>>

Next ==
    \/ Start
    \/ Advance
    \/ \E outcome \in Outcomes : End(outcome)
    \/ Forget

Spec == Init /\ [][Next]_lvars
=============================================================================
