------------------------------ MODULE V4Common ------------------------------
(***************************************************************************)
(* What the version 4 programs share: the one topic of the broker, and the *)
(* whitelist file of a client host.                                        *)
(*                                                                         *)
(* Two programs of the fleet apply messages to a kernel: 7-iptables-agent  *)
(* on a client host and listen-to-mosquitto on the border host.  Both      *)
(* subscribe with a clean session, so the broker drops what is published   *)
(* while they are away.  The whitelist file is rewritten in place by the   *)
(* agent and by 8-manage-ip-lists with no lock: open(path, "w") empties it *)
(* and json.dump fills it again, and a reader that comes in between finds  *)
(* no valid JSON and takes the list for empty.                             *)
(***************************************************************************)
EXTENDS Naturals, Sequences, FiniteSets

CONSTANTS
    Ips,            \* the addresses the operators and the detectors name
    MaxClock,       \* bound: timestamps the programs of a host take
    Budgets         \* bounds: how many commands, collector passes, API requests
                    \* and faults a behaviour has; it starts with one of these

\* The clock of the bound has a timestamp for every command and every pass.
ASSUME CommonAssumption ==
    /\ Ips # {} /\ IsFiniteSet(Ips)
    /\ MaxClock \in Nat
    /\ Budgets \subseteq [{"commands", "collects", "requests", "faults"} -> Nat]
    /\ \A b \in Budgets : b["commands"] + b["collects"] <= MaxClock

VARIABLES
    inbox,          \* what the broker has still to hand to each enforcer
    online,         \* which enforcers are connected
    missed,         \* ghost: addresses an enforcer missed a message about, or
                    \* could not check one the other could
    listed,         \* ghost: addresses whose last whitelist_change was an add,
                    \* among those signed with the secret of all
    whitelist,      \* the file: is it valid JSON, and the addresses in it
    saving,         \* ghost: the programs that have emptied it and not closed it
    raced,          \* ghost: addresses the file may have wrong, because a program
                    \* died in it, saved over another, or saved a stale copy,
                    \* and that were not changed alone since
    left            \* what is left of the budget

busVars == <<inbox, online, missed, listed>>
fileVars == <<whitelist, saving, raced>>
commonVars == <<inbox, online, missed, listed, whitelist, saving, raced, left>>

Enforcers == {"agent", "listener"}

\* blocked_ip_change with its action, and whitelist_change with its operation.
\* signed: with the secret of AUTH_MONITOR_EVENT_HMAC, which both enforcers
\* check with; with one of AUTH_MONITOR_EVENT_HMACS_JSON, which the listener
\* takes too; or with none that they know.
Kinds == {"block", "unblock", "add", "remove"}
Secrets == {"all", "listener", "none"}
Messages == [kind: Kinds, ip: Ips, signed: Secrets]

\* The programs that write the whitelist file: 7-iptables-agent and
\* 8-manage-ip-lists.
Savers == {"agent", "mgr"}

CommonTypeOK ==
    /\ inbox \in [Enforcers -> Seq(Messages)]
    /\ online \in [Enforcers -> BOOLEAN]
    /\ missed \in [Enforcers -> SUBSET Ips]
    /\ listed \in SUBSET Ips
    /\ whitelist \in [valid: BOOLEAN, ips: SUBSET Ips]
    /\ saving \in SUBSET Savers
    /\ raced \in SUBSET Ips
    /\ left \in [{"commands", "collects", "requests", "faults"} -> Nat]

CommonInit ==
    /\ inbox = [e \in Enforcers |-> <<>>]
    /\ online = [e \in Enforcers |-> TRUE]
    /\ missed = [e \in Enforcers |-> {}]
    /\ listed = {}
    /\ whitelist = [valid |-> TRUE, ips |-> {}]
    /\ saving = {}
    /\ raced = {}
    /\ left \in Budgets

Spend(what) ==
    /\ left[what] > 0
    /\ left' = [left EXCEPT ![what] = @ - 1]

\* A failed command or publish, the death of a program, a reboot.
Fault == Spend("faults")

-----------------------------------------------------------------------------
\* verify_payload_signature, with the secrets of the program.
Trusted(e, m) == m.signed = "all" \/ m.signed = e

\* The broker keeps the order of the topic for every subscriber; a clean
\* session has no queue while its client is away.
Publish(m) ==
    /\ inbox' = [e \in Enforcers |->
                    IF online[e] THEN Append(inbox[e], m) ELSE inbox[e]]
    /\ missed' = [e \in Enforcers |->
                    IF online[e] /\ (m.signed = "none" \/ Trusted(e, m))
                    THEN missed[e] ELSE missed[e] \cup {m.ip}]
    /\ listed' = CASE m.signed = "all" /\ m.kind = "add" -> listed \cup {m.ip}
                   [] m.signed = "all" /\ m.kind = "remove" -> listed \ {m.ip}
                   [] OTHER -> listed
    /\ UNCHANGED online

\* Messages about these addresses never reach the broker.
PublishLost(ips) ==
    /\ missed' = [e \in Enforcers |-> missed[e] \cup ips]
    /\ UNCHANGED <<inbox, online, listed>>

-----------------------------------------------------------------------------
\* load_whitelist: no file, no access and no valid JSON all read as empty.
LoadWhitelist == IF whitelist.valid THEN whitelist.ips ELSE {}

\* A program that is about to change or to judge ip and reads an unfinished file
\* works on a list that is not there.
NoteLoad(ip) ==
    /\ raced' = IF whitelist.valid THEN raced ELSE raced \cup {ip}
    /\ UNCHANGED <<whitelist, saving>>

\* save_whitelist, first half: open(path, "w").  copy is what p loaded before:
\* where the file differs from it, somebody wrote in the meantime.
TruncateWhitelist(p, copy) ==
    /\ whitelist' = [valid |-> FALSE, ips |-> {}]
    /\ saving' = saving \cup {p}
    /\ raced' = IF whitelist.valid /\ saving = {}
                THEN raced \cup (copy \ whitelist.ips) \cup (whitelist.ips \ copy)
                ELSE Ips

\* Second half, of a change of ip: json.dump and close.  Over the longer text of
\* another program that finished in between, the new text leaves a tail that is
\* not JSON.  Who saved alone has ip right, whatever happened before.
FillWhitelist(p, new, ip) ==
    /\ saving' = saving \ {p}
    /\ \/ /\ whitelist' = [valid |-> TRUE, ips |-> new]
          /\ raced' = IF saving = {p} THEN raced \ {ip} ELSE Ips
       \/ /\ whitelist.valid
          /\ whitelist' = [valid |-> FALSE, ips |-> {}]
          /\ raced' = Ips

\* p ends while it saves.
AbandonWhitelist(p) ==
    /\ saving' = saving \ {p}
    /\ raced' = IF p \in saving THEN Ips ELSE raced
    /\ UNCHANGED whitelist
=============================================================================
