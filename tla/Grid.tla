-------------------------------- MODULE Grid --------------------------------
(***************************************************************************)
(* The fleet of version 5: the border API on the broker's node             *)
(* (api/api.py), the agents of all nodes (agent/agent.py) and the broker   *)
(* between them.  One handler is one step here: what the threads of a node *)
(* do to each other is AgentNode's subject, and a row stands for its       *)
(* kernel rule too.                                                        *)
(*                                                                         *)
(* Sessions are persistent and the broker keeps the order of one topic, so *)
(* every node has an inbox of the events it has still to handle.  The      *)
(* agent of the sender's node gets none: each publisher marks its event    *)
(* seen in the node's database before it publishes, the API as well.       *)
(***************************************************************************)
EXTENDS Naturals, Sequences, SequencesExt, FiniteSets

CONSTANTS
    Nodes,
    ApiNode,        \* the broker's node: the only one with an API
    Ips,            \* numbers, in the order of ORDER BY ip
    DefaultTtl, MaxAge,  \* default_ttl_seconds, max_event_age_seconds
    MaxSync,        \* max_sync_entries
    MaxClock,       \* bound: the last instant
    MaxQueue,       \* bound: events that wait for a node
    Budgets         \* bounds: requests to the API, detections, and faults; a
                    \* behaviour starts with one of them

ASSUME GridAssumption ==
    /\ ApiNode \in Nodes
    /\ Ips \subseteq Nat
    /\ {DefaultTtl, MaxSync, MaxQueue, MaxClock} \subseteq Nat \ {0}
    /\ MaxAge \in Nat
    /\ Budgets \subseteq [{"requests", "detections", "faults"} -> Nat]

VARIABLES
    clock,
    until,          \* per node and address: expires_at of the active row, or 0
    allowlist,      \* per node: the table, and the guard built from it
    outbox,         \* per node: detections enforced here, not yet published
    inbox,          \* per node: the events the broker holds for it
    left,           \* what is left of the budget
    orderedAt,      \* ghost: when a block of the address was last asked for, or 0
    lifted,         \* ghost: addresses whose last request was to let them in
    missed,         \* ghost: <<node, ip>> that did not get this done
    echoed          \* ghost: lifted addresses some node's sync still listed

nodeVars == <<until, allowlist>>
ghosts == <<orderedAt, lifted, missed, echoed>>
vars == <<clock, nodeVars, outbox, inbox, left, ghosts>>

Entries == [ip: Ips, expires: 1..(MaxClock + DefaultTtl)]
Commands == {"block", "unblock", "allow_add", "allow_remove"}
Events == [type: Commands, ip: Ips, ts: 0..MaxClock]
            \cup [type: {"sync_state"}, blocks: SUBSET Entries, ts: 0..MaxClock]

TypeOK ==
    /\ clock \in 1..MaxClock
    /\ until \in [Nodes -> [Ips -> 0..(MaxClock + DefaultTtl)]]
    /\ allowlist \in [Nodes -> SUBSET Ips]
    /\ outbox \in [Nodes -> SUBSET Ips]
    /\ inbox \in [Nodes -> Seq(Events)]
    /\ \A n \in Nodes : /\ Len(inbox[n]) <= MaxQueue
                        /\ \A i \in DOMAIN inbox[n] : inbox[n][i].ts <= clock
    /\ left \in [{"requests", "detections", "faults"} -> Nat]
    /\ orderedAt \in [Ips -> 0..clock]
    /\ echoed \subseteq lifted /\ lifted \subseteq Ips
    /\ missed \subseteq Nodes \X Ips

Init ==
    /\ clock = 1
    /\ until = [n \in Nodes |-> [ip \in Ips |-> 0]]
    /\ allowlist = [n \in Nodes |-> {}]
    /\ outbox = [n \in Nodes |-> {}]
    /\ inbox = [n \in Nodes |-> <<>>]
    /\ left \in Budgets
    /\ orderedAt = [ip \in Ips |-> 0]
    /\ lifted = {} /\ missed = {} /\ echoed = {}

Spend(what) == left[what] > 0 /\ left' = [left EXCEPT ![what] = @ - 1]

Tick ==
    /\ clock < MaxClock
    /\ clock' = clock + 1
    /\ UNCHANGED <<nodeVars, outbox, inbox, left, ghosts>>

\* publish_signed.  A publish that fails for good is none, or one the caller
\* takes for failed.
Publish(node, event) ==
    /\ \A n \in Nodes \ {node} : Len(inbox[n]) < MaxQueue
    /\ inbox' = [n \in Nodes |-> IF n = node THEN inbox[n]
                                 ELSE Append(inbox[n], event)]

\* A block was asked for, or an end of it.
NoteBlock(ip) ==
    /\ orderedAt' = [orderedAt EXCEPT ![ip] = clock]
    /\ lifted' = lifted \ {ip}
    /\ echoed' = echoed \ {ip}
    /\ UNCHANGED missed

NoteLift(ip) ==
    /\ lifted' = lifted \cup {ip}
    /\ echoed' = echoed \ {ip}
    /\ missed' = missed \ (Nodes \X {ip})
    /\ UNCHANGED orderedAt

-----------------------------------------------------------------------------
\* The API.  It changes nothing on its own node, and its guard, built once from
\* the configuration, refuses none of these addresses, whatever the allowlist.

Request(type, ip) ==
    /\ Spend("requests")
    /\ Publish(ApiNode, [type |-> type, ip |-> ip, ts |-> clock])
    /\ UNCHANGED <<clock, nodeVars, outbox>>

ApiBlock(ip) == Request("block", ip) /\ NoteBlock(ip)
ApiUnblock(ip) == Request("unblock", ip) /\ NoteLift(ip)
ApiAllowAdd(ip) == Request("allow_add", ip) /\ NoteLift(ip)
ApiAllowRemove(ip) == Request("allow_remove", ip) /\ UNCHANGED ghosts

-----------------------------------------------------------------------------
\* The agent.

\* enforce_block, after which the row ends at the given time.
Enforced(node, ends) ==
    [ip \in Ips |-> IF ends[ip] > 0 /\ ip \notin allowlist[node]
                    THEN ends[ip] ELSE until[node][ip]]

EffectiveTtl(ttl) == IF ttl > 0 THEN ttl ELSE DefaultTtl

Only(address, end) == [ip \in Ips |-> IF ip = address THEN end ELSE 0]

\* The detector reports whom no active row stops, the agent enforces it here.
Detect(node, ip) ==
    /\ until[node][ip] = 0
    /\ ip \notin allowlist[node]
    /\ Spend("detections")
    /\ until' = [until EXCEPT ![node] =
                   Enforced(node, Only(ip, clock + EffectiveTtl(DefaultTtl)))]
    /\ outbox' = [outbox EXCEPT ![node] = @ \cup {ip}]
    /\ NoteBlock(ip)
    /\ UNCHANGED <<clock, allowlist, inbox>>

\* Published when the broker is there, with the time of this moment.
PumpOut(node, ip) ==
    /\ ip \in outbox[node]
    /\ outbox' = [outbox EXCEPT ![node] = @ \ {ip}]
    /\ Publish(node, [type |-> "block", ip |-> ip, ts |-> clock])
    /\ NoteBlock(ip)
    /\ UNCHANGED <<clock, nodeVars, left>>

\* Mutant: a block that ends now is not expired yet.
Expired_before(node) == {ip \in Ips : until[node][ip] # 0 /\ until[node][ip] < clock}

Expired(node) == {ip \in Ips : until[node][ip] # 0 /\ until[node][ip] <= clock}

\* expire_blocks
Expire(node) ==
    /\ Expired(node) # {}
    /\ until' = [until EXCEPT ![node] =
                   [ip \in Ips |-> IF ip \in Expired(node) THEN 0 ELSE @[ip]]]
    /\ UNCHANGED <<clock, allowlist, outbox, inbox, left, ghosts>>

\* list_active_blocks, cut at max_sync_entries.
Active(node) == {ip \in Ips : until[node][ip] > clock}
Listed(node) ==
    {ip \in Active(node) : Cardinality({j \in Active(node) : j <= ip}) <= MaxSync}

\* An empty list is not modelled: it changes nothing where it arrives.
SendSync(node) ==
    /\ Listed(node) # {}
    /\ Publish(node, [type |-> "sync_state", ts |-> clock,
                      blocks |-> {[ip |-> ip, expires |-> until[node][ip]] :
                                    ip \in Listed(node)}])
    /\ echoed' = echoed \cup (lifted \cap Listed(node))
    /\ UNCHANGED <<clock, nodeVars, outbox, left, orderedAt, lifted, missed>>

-----------------------------------------------------------------------------
\* handle_event

Fresh(event) == clock <= event.ts + MaxAge

\* Mutant: the entries of a sync are applied whether they are over or not.
StillAhead_any(entry) == TRUE

StillAhead(entry) == entry.expires > clock

AlreadyActive(node, ip) == until[node][ip] # 0

\* What is left of an entry's time, counted from now.
Remaining(entry) == IF entry.expires > clock THEN entry.expires - clock ELSE 0

\* Mutant: the entry's end is taken for a time to live.
EndOf_as_ttl(entry) == clock + EffectiveTtl(entry.expires)

EndOf(entry) == clock + EffectiveTtl(Remaining(entry))

\* The ends an event asks for; a sync only fills gaps.
Ends(node, event) ==
    IF event.type = "block" THEN Only(event.ip, clock + EffectiveTtl(DefaultTtl))
    ELSE [ip \in Ips |->
            LET entries == {b \in event.blocks : b.ip = ip /\ StillAhead(b)} IN
            IF entries = {} \/ AlreadyActive(node, ip) THEN 0
            ELSE EndOf(CHOOSE b \in entries : TRUE)]

\* Mutant: an address that enters the allowlist is not unblocked.
Lifts_unblock_only(event) == event.type = "unblock"

Lifts(event) == event.type \in {"unblock", "allow_add"}

Rest(node) == [inbox EXCEPT ![node] = Tail(@)]

\* Too old: as if it had not come.
Reject(node) ==
    /\ inbox[node] # <<>>
    /\ LET event == Head(inbox[node]) IN
         /\ ~Fresh(event)
         /\ missed' = IF Lifts(event) THEN missed \cup {<<node, event.ip>>} ELSE missed
    /\ inbox' = Rest(node)
    /\ UNCHANGED <<clock, nodeVars, outbox, left, orderedAt, lifted, echoed>>

\* block and sync_state; the limiter or the firewall may refuse addresses.
HandleBlock(node) ==
    /\ inbox[node] # <<>>
    /\ LET event == Head(inbox[node])
           ends == Ends(node, event)
       IN /\ event.type \in {"block", "sync_state"}
          /\ Fresh(event)
          /\ \/ /\ until' = [until EXCEPT ![node] = Enforced(node, ends)]
                /\ UNCHANGED left
             \/ /\ Spend("faults")
                /\ \E ip \in Ips :
                     /\ ends[ip] > 0
                     /\ until' = [until EXCEPT ![node] =
                                    Enforced(node, [ends EXCEPT ![ip] = 0])]
    /\ inbox' = Rest(node)
    /\ UNCHANGED <<clock, allowlist, outbox, ghosts>>

\* unblock and allow_add; the firewall command may fail, and the row stays.
HandleLift(node) ==
    /\ inbox[node] # <<>>
    /\ LET event == Head(inbox[node]) IN
         /\ event.type \in {"unblock", "allow_add"}
         /\ Fresh(event)
         /\ allowlist' = IF event.type = "unblock" THEN allowlist
                         ELSE [allowlist EXCEPT ![node] = @ \cup {event.ip}]
         /\ \/ /\ until' = IF Lifts(event) THEN [until EXCEPT ![node][event.ip] = 0]
                           ELSE until
               /\ UNCHANGED <<left, missed>>
            \/ /\ Spend("faults")
               /\ missed' = missed \cup {<<node, event.ip>>}
               /\ UNCHANGED until
    /\ inbox' = Rest(node)
    /\ UNCHANGED <<clock, outbox, orderedAt, lifted, echoed>>

HandleAllowRemove(node) ==
    /\ inbox[node] # <<>>
    /\ LET event == Head(inbox[node]) IN
         /\ event.type = "allow_remove"
         /\ Fresh(event)
         /\ allowlist' = [allowlist EXCEPT ![node] = @ \ {event.ip}]
    /\ inbox' = Rest(node)
    /\ UNCHANGED <<clock, until, outbox, left, ghosts>>

Handle(node) == Reject(node) \/ HandleBlock(node) \/ HandleLift(node)
                  \/ HandleAllowRemove(node)

-----------------------------------------------------------------------------
\* The broker forgets what it held for a node that is offline.
Lose(node) ==
    /\ inbox[node] # <<>>
    /\ Spend("faults")
    /\ inbox' = [inbox EXCEPT ![node] = <<>>]
    /\ missed' = missed \cup {<<node, ip>> : ip \in
         {e.ip : e \in {e \in ToSet(inbox[node]) : e.type \in {"unblock", "allow_add"}}}}
    /\ UNCHANGED <<clock, nodeVars, outbox, orderedAt, lifted, echoed>>

Next ==
    \/ Tick
    \/ \E ip \in Ips : ApiBlock(ip) \/ ApiUnblock(ip) \/ ApiAllowAdd(ip)
                         \/ ApiAllowRemove(ip)
    \/ \E n \in Nodes :
         \/ \E ip \in Ips : Detect(n, ip) \/ PumpOut(n, ip)
         \/ Expire(n) \/ SendSync(n) \/ Handle(n) \/ Lose(n)

Spec == Init /\ [][Next]_vars

\* Every agent runs, sends its state every so often and gets what is held for it.
FairSpec == Spec /\ \A n \in Nodes : WF_vars(Expire(n)) /\ WF_vars(Handle(n))
                                       /\ WF_vars(SendSync(n))

-----------------------------------------------------------------------------
\* Blocks do not feed on themselves: what the nodes pass around in their syncs
\* ends when the last block asked for does, counted from the latest moment an
\* event about it was fresh enough, however late and however often it is told.
BlocksEnd ==
    \A n \in Nodes, ip \in Ips :
        until[n][ip] # 0 => /\ orderedAt[ip] # 0
                            /\ until[n][ip] <= orderedAt[ip] + MaxAge + DefaultTtl

LiftPending(node, ip) ==
    \E i \in DOMAIN inbox[node] : /\ inbox[node][i].type \in {"unblock", "allow_add"}
                                  /\ inbox[node][i].ip = ip

\* The operator's unblock or allow holds on every node that got it, other than
\* the API's own, until a block is asked for again or some node that still has
\* the row tells the others.
UnblockHolds ==
    \A n \in Nodes \ {ApiNode}, ip \in lifted \ echoed :
        ~LiftPending(n, ip) /\ <<n, ip>> \notin missed => until[n][ip] = 0

\* A block one node has, if it is among those its syncs list, reaches every
\* node, whatever was lost, refused or too old on the way, unless the node
\* exempts the address; "periodic state sync so offline nodes converge"
\* (agent.py:10).
BlockSpreads ==
    \A n \in Nodes, ip \in Ips : \A m \in Nodes \ {n} :
        ip \in Listed(n) ~> \/ ip \notin Listed(n)
                            \/ ip \in Active(m) \cup allowlist[m]

\* api.py:94 marks the API's event seen so that it is not applied again: "don't
\* re-apply our own echo".  Then an unblock all nodes have handled, with none
\* missing it and no detection waiting to be published, leaves the address
\* blocked nowhere.
UnblockReachesAll ==
    \A ip \in lifted :
        (\A n \in Nodes : /\ inbox[n] = <<>> /\ ip \notin outbox[n]
                          /\ <<n, ip>> \notin missed)
          => \A n \in Nodes : until[n][ip] = 0
=============================================================================
