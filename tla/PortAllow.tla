----------------------------- MODULE PortAllow -----------------------------
(***************************************************************************)
(* The port exceptions of one node: table port_allowlist                   *)
(* (authmon/state.py), the ACCEPT rules in the kernel's INPUT chain        *)
(* (authmon/firewall.py), the handlers of the agent (agent/agent.py) and   *)
(* of the border API on the same node (api/api.py), which shares table and *)
(* kernel with the agent.                                                  *)
(*                                                                         *)
(* A worker is the agent (its startup and its MQTT thread never do this at *)
(* the same time) or one request of the API.  Nothing is locked across the *)
(* table and the kernel, so a step is one statement or one iptables        *)
(* command.  An API request whose publish failed stops before its first    *)
(* step here; the agent never sees the API's own events.  Left out: the    *)
(* DROP rules of the protected ports, which a reconcile appends behind the *)
(* ACCEPT rules that are always inserted in front.                         *)
(***************************************************************************)
EXTENDS Integers, FiniteSets

CONSTANTS
    Keys,          \* an address with a port and a protocol
    NoKey,
    Targets,       \* target_node values: "*", this node "here", others
    Requests,      \* API requests that may run at the same time
    FirewallFails, \* may an iptables command fail?
    MaxOps,        \* bound on operations
    MaxCrashes     \* bound on crashes and reboots

Workers == Requests \cup {"agent"}

ASSUME PortAssumption ==
    /\ IsFiniteSet(Keys) /\ NoKey \notin Keys
    /\ Targets \subseteq STRING
    /\ "agent" \notin Requests
    /\ FirewallFails \in BOOLEAN
    /\ MaxOps \in Nat /\ MaxCrashes \in Nat

VARIABLES
    rows,     \* table port_allowlist: <<target, key>>
    accept,   \* how many ACCEPT rules of a key the INPUT chain has
    pc,       \* where each worker is
    key,      \* the key it works on
    list,     \* the entries it has to re-apply
    ops, crashes,       \* how much of their bounds is used
    leakCause, missCause \* history: per key, why rule and row may differ

worker == <<pc, key, list>>
vars == <<rows, accept, worker, ops, crashes, leakCause, missCause>>

\* `_applies_here`; the alias "all" is "*" from the API's validator on.
AppliesHere(target) == target \in {"*", "here"}

\* The rows that port_allowlist_list returns for this node.
Listed == {r \in rows : AppliesHere(r[1])}
HasRow(k) == \E r \in Listed : r[2] = k

\* A key may have a row for the fleet and one for this node.
HasOther(target, k) == \E r \in Listed : r[2] = k /\ r[1] # target

\* The keys whose row or rule a worker may still change.
Touching(w) ==
    IF pc[w] = "start" THEN Keys
    ELSE IF pc[w] \in {"check", "insert"} THEN list[w] \cup ({key[w]} \cap Keys)
    ELSE IF pc[w] \in {"list", "find", "delete"} THEN {key[w]}
    ELSE {}

Untouched(k) == \A w \in Workers : k \notin Touching(w)
Overlap(k) == \E v, w \in Workers :
                  v # w /\ k \in Touching(v) /\ k \in Touching(w)
Running == pc["agent"] # "down"

(* History: the only events after which the properties allow rule and row  *)
(* to differ: two workers on a key at once, a failed command, the death of *)
(* a worker, and (missing rules) the removal of one of two rows of a key.  *)
(* A reboot removes leaked rules, a start adds missing ones.               *)
Causes(leaked, missed) ==
    /\ leakCause' = [k \in Keys |-> leakCause[k] \/ k \in leaked \/ Overlap(k)']
    /\ missCause' = [k \in Keys |-> missCause[k] \/ k \in missed \/ Overlap(k)']

Goto(w, label) == pc' = [pc EXCEPT ![w] = label]
Done(w) ==
    /\ Goto(w, "idle")
    /\ key' = [key EXCEPT ![w] = NoKey]

----------------------------------------------------------------------------
(* port_allow_add: the row, then on the target the rule.  The agent adds   *)
(* this one rule; the API re-applies every entry that applies here.        *)

AddRow(w, target, k) ==
    /\ pc[w] = "idle"
    /\ ops < MaxOps
    /\ ops' = ops + 1
    /\ rows' = rows \cup {<<target, k>>}
    /\ \/ /\ ~AppliesHere(target)
          /\ UNCHANGED worker
       \/ /\ AppliesHere(target) /\ w = "agent"
          /\ Goto(w, "check")
          /\ list' = [list EXCEPT ![w] = {k}]
          /\ UNCHANGED key
       \/ /\ AppliesHere(target) /\ w # "agent"
          /\ Goto(w, "list")
          /\ key' = [key EXCEPT ![w] = k]
          /\ UNCHANGED list
    /\ UNCHANGED <<accept, crashes>>
    /\ Causes({}, {})

\* Mutant: fleet-wide entries are not listed.
Entries_own == {r[2] : r \in {q \in rows : q[1] = "here"}}

Entries == {r[2] : r \in Listed}

\* port_allowlist_list, for the reconcile of an API add or of the start.
ReadEntries(w) ==
    /\ pc[w] \in {"list", "start"}
    /\ list' = [list EXCEPT ![w] = Entries]
    /\ key' = [key EXCEPT ![w] = NoKey]
    /\ Goto(w, "check")
    /\ UNCHANGED <<rows, accept, ops, crashes>>
    /\ Causes({}, {})

\* iptables -C: a command that fails reads as "no such rule".
Allowed(k) == accept[k] > 0

\* allow_port for the next entry: already there, or to be inserted.
Check(w) ==
    /\ pc[w] = "check"
    /\ \E k \in list[w] :
         \/ /\ Allowed(k)
            /\ list' = [list EXCEPT ![w] = @ \ {k}]
            /\ UNCHANGED <<pc, key>>
         \/ /\ ~Allowed(k) \/ FirewallFails
            /\ Goto(w, "insert")
            /\ key' = [key EXCEPT ![w] = k]
            /\ UNCHANGED list
    /\ UNCHANGED <<rows, accept, ops, crashes>>
    /\ Causes({}, {})

\* iptables -I.
Insert(w) ==
    /\ pc[w] = "insert"
    /\ list' = [list EXCEPT ![w] = @ \ {key[w]}]
    /\ key' = [key EXCEPT ![w] = NoKey]
    /\ Goto(w, "check")
    /\ UNCHANGED <<rows, ops, crashes>>
    /\ \/ /\ accept' = [accept EXCEPT ![key[w]] = @ + 1]
          /\ Causes({}, {})
       \/ /\ FirewallFails
          /\ UNCHANGED accept
          /\ Causes({}, {key[w]})

EndOfList(w) ==
    /\ pc[w] = "check" /\ list[w] = {}
    /\ Done(w)
    /\ UNCHANGED <<rows, accept, list, ops, crashes>>
    /\ Causes({}, {})

----------------------------------------------------------------------------
(* port_allow_remove: the row, then on the target every rule of the key,   *)
(* whichever row it was installed for.                                     *)

\* Mutant: the rules of a fleet-wide row stay.
Denies_own(target) == target = "here"

Denies(target) == AppliesHere(target)

RemoveRow(w, target, k) ==
    /\ pc[w] = "idle"
    /\ ops < MaxOps
    /\ ops' = ops + 1
    /\ rows' = rows \ {<<target, k>>}
    /\ IF Denies(target)
       THEN /\ Goto(w, "find")
            /\ key' = [key EXCEPT ![w] = k]
       ELSE UNCHANGED <<pc, key>>
    /\ UNCHANGED <<accept, list, crashes>>
    /\ Causes({}, IF AppliesHere(target) /\ HasOther(target, k) THEN {k} ELSE {})

\* deny_port, iptables -C: absent, or taken for absent.
Find(w) ==
    /\ pc[w] = "find"
    /\ UNCHANGED <<rows, accept, list, ops, crashes>>
    /\ \/ /\ accept[key[w]] > 0
          /\ Goto(w, "delete")
          /\ UNCHANGED key
          /\ Causes({}, {})
       \/ /\ accept[key[w]] = 0
          /\ Done(w)
          /\ Causes({}, {})
       \/ /\ accept[key[w]] > 0 /\ FirewallFails
          /\ Done(w)
          /\ Causes({key[w]}, {})

\* deny_port, iptables -D; an error ends the loop.
Delete(w) ==
    /\ pc[w] = "delete"
    /\ UNCHANGED <<rows, list, ops, crashes>>
    /\ \/ /\ accept[key[w]] > 0
          /\ accept' = [accept EXCEPT ![key[w]] = @ - 1]
          /\ Goto(w, "find")
          /\ UNCHANGED key
          /\ Causes({}, {})
       \/ /\ accept[key[w]] = 0
          /\ Done(w)
          /\ UNCHANGED accept
          /\ Causes({}, {})
       \/ /\ accept[key[w]] > 0 /\ FirewallFails
          /\ Done(w)
          /\ UNCHANGED accept
          /\ Causes({key[w]}, {})

----------------------------------------------------------------------------
(* Crashes and the start of the agent.  A reboot takes both processes and  *)
(* the rules.                                                              *)

Die(ws) ==
    /\ crashes < MaxCrashes
    /\ crashes' = crashes + 1
    /\ pc' = [w \in Workers |-> IF w \notin ws THEN pc[w]
                                ELSE IF w = "agent" THEN "down" ELSE "idle"]
    /\ key' = [w \in Workers |-> IF w \in ws THEN NoKey ELSE key[w]]
    /\ list' = [w \in Workers |-> IF w \in ws THEN {} ELSE list[w]]
    /\ UNCHANGED <<rows, ops>>

Crash(ws) ==
    /\ Die(ws)
    /\ UNCHANGED accept
    /\ Causes(UNION {Touching(w) : w \in ws}, UNION {Touching(w) : w \in ws})

Reboot ==
    /\ Die(Workers)
    /\ accept' = [k \in Keys |-> 0]
    /\ leakCause' = [k \in Keys |-> FALSE]
    /\ UNCHANGED missCause

Start ==
    /\ pc["agent"] = "down"
    /\ Goto("agent", "start")
    /\ UNCHANGED <<rows, accept, key, list, ops, crashes>>
    /\ missCause' = [k \in Keys |-> Overlap(k)']
    /\ leakCause' = [k \in Keys |-> leakCause[k] \/ Overlap(k)']

Init ==
    /\ rows = {}
    /\ accept = [k \in Keys |-> 0]
    /\ pc = [w \in Workers |-> "idle"]
    /\ key = [w \in Workers |-> NoKey]
    /\ list = [w \in Workers |-> {}]
    /\ ops = 0 /\ crashes = 0
    /\ leakCause = [k \in Keys |-> FALSE]
    /\ missCause = [k \in Keys |-> FALSE]

Next ==
    \/ \E w \in Workers :
          \/ \E k \in Keys, target \in Targets :
                AddRow(w, target, k) \/ RemoveRow(w, target, k)
          \/ ReadEntries(w) \/ Check(w) \/ Insert(w) \/ EndOfList(w)
          \/ Find(w) \/ Delete(w)
    \/ Running /\ Crash({"agent"})
    \/ Crash(Requests)
    \/ Reboot
    \/ Start

Spec == Init /\ [][Next]_vars

----------------------------------------------------------------------------
\* Types of all variables, and which of a worker's locals are set where.
TypeOK ==
    /\ rows \subseteq Targets \X Keys
    /\ accept \in [Keys -> Nat]
    /\ pc \in [Workers -> {"idle", "list", "check", "insert", "find", "delete",
                           "start", "down"}]
    /\ key \in [Workers -> Keys \cup {NoKey}]
    /\ list \in [Workers -> SUBSET Keys]
    /\ \A w \in Workers :
          /\ key[w] # NoKey <=> pc[w] \in {"list", "insert", "find", "delete"}
          /\ pc[w] = "insert" => key[w] \in list[w]
          /\ pc[w] \notin {"check", "insert"} => list[w] = {}
    /\ ops \in 0..MaxOps /\ crashes \in 0..MaxCrashes
    /\ {leakCause, missCause} \subseteq [Keys -> BOOLEAN]

\* Nobody keeps an access that was taken away: an ACCEPT rule has a row that
\* applies here once its workers are done (api.py:337, agent.py:205), unless
\* a recorded cause struck the key since the last reboot.
RuleHasRow ==
    \A k \in Keys : accept[k] > 0 /\ Untouched(k) => HasRow(k) \/ leakCause[k]

\* An exception that the table grants works: a row that applies here has its
\* rule (agent.py:413-417 after a reboot), unless a recorded cause struck
\* the key since the last start of the agent.
RowHasRule ==
    \A k \in Keys : Running /\ HasRow(k) /\ Untouched(k)
                       => accept[k] > 0 \/ missCause[k]
=============================================================================
