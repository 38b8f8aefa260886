------------------------------- MODULE MCOnce -------------------------------
(* TLC instances of what a node takes from outside once: the events of the  *)
(* bus (ReplayGuard) or the lines of a log (LogTail), one of them in each   *)
(* behaviour, since they share nothing.                                     *)
(* The bus: an enforcement event of a peer and one of this node, with the   *)
(* smallest retention that RetentionAssumption allows, and time for a prune *)
(* to forget an event whose copies still circulate.  The log: few pieces,   *)
(* chunks of two, inodes that recur.                                        *)
EXTENDS ReplayGuard, LogTail

CONSTANTS remote, local
MCIds == {remote, local}
MCOwn == {local}

VARIABLE input  \* which of the two this behaviour is about

onceVars == <<vars, tailVars, input>>

OnceInit ==
    /\ Init
    /\ TailInit
    /\ input \in {"bus", "log"}
    /\ input = "bus" => inode = Min(Inodes)

BusNext == input = "bus" /\ Next /\ UNCHANGED <<tailVars, input>>
LogNext == input = "log" /\ TailNext /\ UNCHANGED <<vars, input>>
LogPass == input = "log" /\ PassStep /\ UNCHANGED <<vars, input>>

\* authmon-detector.timer starts a pass every minute.
OnceSpec == /\ OnceInit
            /\ [][BusNext \/ LogNext]_onceVars
            /\ WF_onceVars(LogPass)
=============================================================================
