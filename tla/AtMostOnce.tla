----------------------------- MODULE AtMostOnce -----------------------------
(***************************************************************************)
(* What the dedupe of a node promises about the enforcement events of the  *)
(* grid (README-v5.md, "Anti-replay"): the handler of an event begins at   *)
(* most once and has its effect at most once, and never for an event that  *)
(* the node itself announced.  An event may also be lost.                  *)
(***************************************************************************)
EXTENDS Naturals

CONSTANTS Ids,  \* event ids
          Own   \* those announced by the node itself

VARIABLES begun,  \* id -> how often the handler accepted the event
          done    \* id -> how often it completed

Init == /\ begun = [id \in Ids |-> 0]
        /\ done = [id \in Ids |-> 0]

Begin(id) == /\ id \notin Own
             /\ begun[id] = 0
             /\ begun' = [begun EXCEPT ![id] = 1]
             /\ UNCHANGED done

Finish(id) == /\ begun[id] = 1
              /\ done[id] = 0
              /\ done' = [done EXCEPT ![id] = 1]
              /\ UNCHANGED begun

Next == \E id \in Ids : Begin(id) \/ Finish(id)

vars == <<begun, done>>

Spec == Init /\ [][Next]_vars
=============================================================================
