------------------------------ MODULE MCV4Fleet ------------------------------
EXTENDS V4Fleet

Budget(c, p, r, f) ==
    [commands |-> c, collects |-> p, requests |-> r, faults |-> f]

MCBudgets == {Budget(1, 1, 0, 1), Budget(2, 0, 0, 0), Budget(0, 2, 0, 1),
              Budget(0, 0, 3, 0), Budget(0, 0, 2, 1), Budget(0, 1, 1, 1),
              Budget(1, 0, 1, 0)}

\* Nothing tells the threads of the pool apart.
MCSymmetry == Permutations(Threads)
=============================================================================
