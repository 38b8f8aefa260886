------------------------------- MODULE MCV4Risk -------------------------------
EXTENDS V4Risk

\* The rules of config.yaml with its weights; shorter windows and thresholds.
MCRule(n, a, h, u, i) ==
    [r \in Rules |-> CASE r = "nginx_404_burst" -> n
                       [] r = "auth_fail_burst" -> a
                       [] r = "high_risk_path_burst" -> h
                       [] r = "unique_path_probe_burst" -> u
                       [] r = "immediate_block_hit" -> i]
MCWindow == MCRule(1, 2, 1, 1, 2)
MCThreshold == MCRule(2, 2, 1, 3, 1)
MCWeight == MCRule(60, 40, 30, 30, 80)

MCRequests == {[path |-> "login", status |-> "denied"],
               [path |-> "env", status |-> "ok"],
               [path |-> "health", status |-> "error"]}

MCBudget(l, c, o, f) ==
    [lines |-> l, calls |-> c, foreign |-> o, faults |-> f]
MCBudgets == {MCBudget(3, 0, 0, 0), MCBudget(2, 2, 0, 0), MCBudget(1, 1, 1, 1),
              MCBudget(0, 0, 2, 1)}
=============================================================================
