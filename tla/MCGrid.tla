------------------------------- MODULE MCGrid -------------------------------
(* TLC instances of Grid: the broker's node and one other.                 *)
EXTENDS Grid

MCBudget(requests, detections, faults) ==
    [requests |-> requests, detections |-> detections, faults |-> faults]
MCBudgets == {MCBudget(2, 0, 1), MCBudget(1, 1, 0), MCBudget(0, 1, 1)}
MCBudgetsQuiet == {MCBudget(1, 1, 0)}
=============================================================================
