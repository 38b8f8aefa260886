----------------------------- MODULE V4Enforcers -----------------------------
(***************************************************************************)
(* The two version 4 programs that apply the topic to a kernel: the agent  *)
(* of a client host (7-iptables-agent), which keeps a whitelist file, and  *)
(* the listener of the border host (listen-to-mosquitto), which has none.  *)
(* Each handles one message at a time, in the callback of its MQTT client; *)
(* a lock file keeps a second instance out, and cron starts a dead one     *)
(* again.  Chains are the sets of addresses with a DROP rule: the only     *)
(* program that changes the chain of a host checks for the rule before it  *)
(* inserts one, and deletes until the check finds none.                    *)
(***************************************************************************)
EXTENDS V4Common

CONSTANT Private    \* the addresses of Ips in _PRIVATE_NETS

VARIABLES
    rules,          \* the addresses each enforcer's chain drops
    agent,          \* the agent's message handler
    skipped         \* ghost: addresses a chain lacks or keeps though the last
                    \* message the enforcer handled said otherwise

enforcerVars == <<rules, agent, skipped>>

AgentIdle == [pc |-> "idle", kind |-> "block", ip |-> CHOOSE ip \in Ips : TRUE,
              wl |-> {}]

EnforcersTypeOK ==
    /\ rules \in [Enforcers -> SUBSET Ips]
    /\ agent \in [pc: {"idle", "apply", "truncate", "fill", "unblock"},
                  kind: Kinds, ip: Ips, wl: SUBSET Ips]
    /\ skipped \in [Enforcers -> SUBSET Ips]

EnforcersInit ==
    /\ rules = [e \in Enforcers |-> {}]
    /\ agent = AgentIdle
    /\ skipped = [e \in Enforcers |-> {}]

-----------------------------------------------------------------------------
Take(e) == inbox' = [inbox EXCEPT ![e] = Tail(@)]

\* rule_exists and add_rule; a command that fails leaves the chain alone and
\* the message is over.
AddRule(e, ip) ==
    \/ /\ rules' = [rules EXCEPT ![e] = @ \cup {ip}]
       /\ skipped' = [skipped EXCEPT ![e] = @ \ {ip}]
       /\ UNCHANGED left
    \/ /\ Fault
       /\ skipped' = [skipped EXCEPT ![e] = @ \cup {ip}]
       /\ UNCHANGED rules

\* remove_rule: until no such rule is left, or a command fails.
RemoveRules(e, ip) ==
    \/ /\ rules' = [rules EXCEPT ![e] = @ \ {ip}]
       /\ skipped' = [skipped EXCEPT ![e] = @ \ {ip}]
       /\ UNCHANGED left
    \/ /\ Fault
       /\ skipped' = [skipped EXCEPT ![e] = @ \cup {ip}]
       /\ UNCHANGED rules

-----------------------------------------------------------------------------
\* 7-iptables-agent, on_message.

AgentReads == agent.pc = "idle" /\ online["agent"] /\ inbox["agent"] # <<>>

AgentIgnores ==
    /\ AgentReads
    /\ ~Trusted("agent", Head(inbox["agent"]))
    /\ Take("agent")
    /\ skipped' = [skipped EXCEPT !["agent"] = @ \cup {Head(inbox["agent"]).ip}]
    /\ UNCHANGED <<online, missed, listed, fileVars, left, rules, agent>>

\* Both kinds of message load the file first.
AgentTakes ==
    /\ AgentReads
    /\ LET m == Head(inbox["agent"]) IN
         /\ Trusted("agent", m)
         /\ NoteLoad(m.ip)
         /\ agent' = [pc |-> IF m.kind \in {"add", "remove"} THEN "truncate"
                                                             ELSE "apply",
                      kind |-> m.kind, ip |-> m.ip, wl |-> LoadWhitelist]
    /\ Take("agent")
    /\ UNCHANGED <<online, missed, listed, left, rules, skipped>>

\* Mutant: the whitelist is not consulted.
Refused_private_only == agent.ip \in Private

\* apply_action of a block: the private networks and the whitelist, as loaded,
\* refuse it.
Refused == agent.ip \in Private \/ agent.ip \in agent.wl

AgentApplies ==
    /\ agent.pc = "apply"
    /\ agent' = AgentIdle
    /\ IF agent.kind = "unblock" THEN RemoveRules("agent", agent.ip)
       ELSE IF Refused
            THEN /\ skipped' = [skipped EXCEPT !["agent"] = @ \cup {agent.ip}]
                 /\ UNCHANGED <<rules, left>>
            ELSE AddRule("agent", agent.ip)
    /\ UNCHANGED <<busVars, fileVars>>

AgentTruncates ==
    /\ agent.pc = "truncate"
    /\ TruncateWhitelist("agent", agent.wl)
    /\ agent' = [agent EXCEPT !.pc = "fill"]
    /\ UNCHANGED <<busVars, left, rules, skipped>>

\* Mutant: the operation remove is not carried out.
AgentList_adds_only == IF agent.kind = "add" THEN agent.wl \cup {agent.ip}
                                             ELSE agent.wl

AgentList == IF agent.kind = "add" THEN agent.wl \cup {agent.ip}
                                   ELSE agent.wl \ {agent.ip}

\* An address that was added loses its rule in the same message.
AgentFills ==
    /\ agent.pc = "fill"
    /\ FillWhitelist("agent", AgentList, agent.ip)
    /\ agent' = IF agent.kind = "add" THEN [agent EXCEPT !.pc = "unblock"]
                                      ELSE AgentIdle
    /\ UNCHANGED <<busVars, left, rules, skipped>>

AgentUnblocks ==
    /\ agent.pc = "unblock"
    /\ agent' = AgentIdle
    /\ RemoveRules("agent", agent.ip)
    /\ UNCHANGED <<busVars, fileVars>>

-----------------------------------------------------------------------------
\* Mutant: a whitelist_change is only printed.
ListenerApplies_prints_add(m) ==
    CASE m.kind = "block" -> AddRule("listener", m.ip)
      [] m.kind = "unblock" -> RemoveRules("listener", m.ip)
      [] OTHER -> UNCHANGED <<rules, skipped, left>>

\* listen-to-mosquitto, apply_action: no whitelist and no private networks.
ListenerApplies(m) ==
    CASE m.kind = "block" -> AddRule("listener", m.ip)
      [] m.kind \in {"unblock", "add"} -> RemoveRules("listener", m.ip)
      [] m.kind = "remove" -> UNCHANGED <<rules, skipped, left>>

ListenerHandles ==
    /\ online["listener"]
    /\ inbox["listener"] # <<>>
    /\ LET m == Head(inbox["listener"]) IN
         \/ Trusted("listener", m) /\ ListenerApplies(m)
         \/ /\ ~Trusted("listener", m)
            /\ skipped' = [skipped EXCEPT !["listener"] = @ \cup {m.ip}]
            /\ UNCHANGED <<rules, left>>
    /\ Take("listener")
    /\ UNCHANGED <<online, missed, listed, fileVars, agent>>

-----------------------------------------------------------------------------
\* What is queued for a dead client is lost, and so is what it was handling.
InHand(e) == {inbox[e][i].ip : i \in DOMAIN inbox[e]}
               \cup IF e = "agent" /\ agent.pc # "idle" THEN {agent.ip} ELSE {}

Disconnect(e) ==
    /\ online' = [online EXCEPT ![e] = FALSE]
    /\ inbox' = [inbox EXCEPT ![e] = <<>>]
    /\ missed' = [missed EXCEPT ![e] = @ \cup InHand(e)]
    /\ agent' = IF e = "agent" THEN AgentIdle ELSE agent
    /\ IF e = "agent" THEN AbandonWhitelist("agent") ELSE UNCHANGED fileVars

EnforcerDies(e) ==
    /\ online[e]
    /\ Fault
    /\ Disconnect(e)
    /\ UNCHANGED <<listed, rules, skipped>>

\* The chain is in memory only, and nothing writes it back.
HostReboots(e) ==
    /\ Fault
    /\ Disconnect(e)
    /\ rules' = [rules EXCEPT ![e] = {}]
    /\ skipped' = [skipped EXCEPT ![e] = @ \cup rules[e]]
    /\ UNCHANGED listed

EnforcerStarts(e) ==
    /\ ~online[e]
    /\ online' = [online EXCEPT ![e] = TRUE]
    /\ UNCHANGED <<inbox, missed, listed, fileVars, left, enforcerVars>>

Agent == AgentIgnores \/ AgentTakes \/ AgentApplies \/ AgentTruncates
           \/ AgentFills \/ AgentUnblocks
=============================================================================
