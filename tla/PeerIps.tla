------------------------------ MODULE PeerIps ------------------------------
(***************************************************************************)
(* How the agents keep the addresses of each other's nodes exempt from     *)
(* blocking: table peer_ips (authmon/state.py), _check_own_ip,             *)
(* _handle_ip_change and the guard rebuilds of agent/agent.py.             *)
(*                                                                         *)
(* Every node runs the two threads of AgentNode.  A step is one committed  *)
(* statement, so that the process can die between two of them; OwnRetire   *)
(* and Reclaim belong to the db_lock hold of the step before, and LockFree *)
(* keeps the other thread out meanwhile.                                   *)
(*                                                                         *)
(* ip_change events of one node arrive in order and at most once           *)
(* (ReplayGuard), but any of them may be lost: publish_signed's error is   *)
(* only logged, and an event that waited too long is stale.  Events of     *)
(* different nodes arrive in any order.  Addresses that a configuration    *)
(* lists as peers are always exempt and play no part here.                 *)
(***************************************************************************)
EXTENDS Integers, Sequences, FiniteSets

CONSTANTS
    Nodes,
    NoIP,
    Home,        \* node -> the addresses it may be given
    Retain,      \* enforcement.peer_ip_retention_seconds
    MaxTime,     \* bound on the clock
    MaxMoves,    \* bound on changes of address, all nodes together
    MaxCrashes   \* bound on crashes, all nodes together

IPs == UNION {Home[n] : n \in Nodes}

ASSUME PeerAssumption ==
    /\ Nodes # {} /\ IsFiniteSet(Nodes) /\ IsFiniteSet(IPs)
    /\ NoIP \notin IPs
    /\ \A n \in Nodes : Home[n] # {}
    /\ Retain \in Nat \ {0}
    /\ {MaxTime, MaxMoves, MaxCrashes} \subseteq Nat

VARIABLES
    now,
    addr,     \* the source address a node really has
    peers,    \* table peer_ips of each node: <<node, ip>> -> row
    guard,    \* the peer part of self.guard, with the node's own address
    pc,       \* where each thread of each node is
    frame,    \* its locals
    wire,     \* wire[m][n]: ip_change events of m that n will receive
    moves, crashes,   \* how much of their bounds is used
    told,     \* history: the address of m that n last learnt from m
    been,     \* history: the addresses a node has had
    gap,      \* history: did n miss a part of what m should tell it?
    torn,     \* history: did n die inside a change of its own address?
    crossed,  \* history: did n's two threads rebuild the guard at once?
    evicted   \* history: addresses n retired that another node has or told it

world == <<now, addr, moves>>
daemon == <<pc, frame>>
history == <<told, been, gap, torn, crossed, evicted>>
vars == <<world, peers, guard, daemon, wire, crashes, history>>

Threads == {"main", "mqtt"}
Rows == Nodes \X IPs
NoRow == [status |-> "none", until |-> 0]
Active == [status |-> "active", until |-> 0]
Retiring(deadline) == [status |-> "retiring", until |-> deadline]
Work(from, to, node, list) ==
    [from |-> from, to |-> to, node |-> node, list |-> list]
Idle == Work(NoIP, NoIP, NoIP, {})

ActiveOf(n, m) == {ip \in IPs : peers[n][m, ip].status = "active"}

\* peer_ip_protected_set.
Protected(n) ==
    {ip \in IPs : \E m \in Nodes :
        \/ peers[n][m, ip].status = "active"
        \/ peers[n][m, ip].status = "retiring" /\ peers[n][m, ip].until > now}

Up(n) == pc[n]["main"] # "down"
LockFree(n) == pc[n]["main"] # "own_retire" /\ pc[n]["mqtt"] # "reclaim"
Rebuilding(n, t) == pc[n][t] \in {"build", "assign"}

Goto(n, t, label) == pc' = [pc EXCEPT ![n][t] = label]

\* main is back in its loop; the first time, paho's thread starts.
Resume(n) ==
    /\ pc' = [pc EXCEPT ![n] = [main |-> "loop",
                 mqtt |-> IF pc[n]["mqtt"] = "off" THEN "idle" ELSE pc[n]["mqtt"]]]
    /\ frame' = [frame EXCEPT ![n]["main"] = Idle]

\* The overlap that the guard properties excuse, seen in the next state.
Crossing ==
    crossed' = [n \in Nodes |->
                   \/ crossed[n] /\ Up(n)
                   \/ \A t \in Threads : Rebuilding(n, t)']

----------------------------------------------------------------------------
(* The statements of authmon/state.py on the table of node n.              *)

Upsert(n, m, ip) == [peers EXCEPT ![n][<<m, ip>>] = Active]

\* Every active row of the address, whichever node it belongs to.
RetireRows(n, ip) ==
    [peers EXCEPT ![n] = [r \in Rows |->
        IF r[2] = ip /\ peers[n][r].status = "active"
        THEN Retiring(now + Retain) ELSE peers[n][r]]]

\* On the word of m, n retires rows of other nodes too, or the last row that
\* kept an address another node had told it.
Evict(n, m, ip) ==
    evicted' = IF \E k \in Nodes \ {m} : ip \in ActiveOf(n, k) \/ told[n][k] = ip
               THEN [evicted EXCEPT ![n] = @ \cup {ip}] ELSE evicted

\* Mutant: retire_after is not reset.
CancelRows_keeps_deadline(n, ip) ==
    [peers EXCEPT ![n] = [r \in Rows |->
        IF r[2] = ip /\ peers[n][r].status = "retiring"
        THEN [peers[n][r] EXCEPT !.status = "active"] ELSE peers[n][r]]]

\* Every retiring row of the address, whichever node it belongs to.
CancelRows(n, ip) ==
    [peers EXCEPT ![n] = [r \in Rows |->
        IF r[2] = ip /\ peers[n][r].status = "retiring" THEN Active ELSE peers[n][r]]]

\* Mutant: the deadline is not looked at.
PruneRows_all(n) ==
    [peers EXCEPT ![n] = [r \in Rows |->
        IF peers[n][r].status = "retiring" THEN NoRow ELSE peers[n][r]]]

PruneRows(n) ==
    [peers EXCEPT ![n] = [r \in Rows |->
        IF peers[n][r].status = "retiring" /\ peers[n][r].until <= now
        THEN NoRow ELSE peers[n][r]]]

----------------------------------------------------------------------------
(* _check_own_ip, main thread: at startup before paho's thread exists,     *)
(* then every 300 s.                                                       *)

\* Reads the address of the host, then peer_ip_get_active: LIMIT 1 without
\* ORDER BY, so any of the node's active rows.
ReadOwnIp(n) ==
    /\ pc[n]["main"] \in {"start", "loop"}
    /\ LockFree(n)
    /\ \/ /\ ActiveOf(n, n) = {}
          /\ Goto(n, "main", "register")
          /\ frame' = [frame EXCEPT ![n]["main"] = Work(NoIP, addr[n], NoIP, {})]
       \/ \E stored \in ActiveOf(n, n) :
          \/ /\ stored = addr[n]
             /\ Resume(n)
          \/ /\ stored # addr[n]
             /\ Goto(n, "main", "own_upsert")
             /\ frame' = [frame EXCEPT ![n]["main"] =
                             Work(stored, addr[n], NoIP, {})]
    /\ UNCHANGED <<world, peers, guard, wire, crashes, told, been, gap, torn,
                   evicted>>
    /\ Crossing

\* No row of its own: nothing is announced.
Register(n) ==
    /\ pc[n]["main"] = "register"
    /\ LockFree(n)
    /\ peers' = Upsert(n, n, frame[n]["main"].to)
    /\ Goto(n, "main", "build")
    /\ UNCHANGED <<world, guard, frame, wire, crashes, told, been, gap, torn,
                   evicted>>
    /\ Crossing

OwnUpsert(n) ==
    /\ pc[n]["main"] = "own_upsert"
    /\ LockFree(n)
    /\ peers' = Upsert(n, n, frame[n]["main"].to)
    /\ Goto(n, "main", "own_retire")
    /\ UNCHANGED <<world, guard, frame, wire, crashes, told, been, gap, torn,
                   evicted>>
    /\ Crossing

\* Mutant: the old address is not retired.
OwnRetire_not(n) ==
    /\ pc[n]["main"] = "own_retire"
    /\ Goto(n, "main", "build")
    /\ UNCHANGED <<world, peers, guard, frame, wire, crashes, told, been,
                   gap, torn, evicted>>
    /\ Crossing

OwnRetire(n) ==
    /\ pc[n]["main"] = "own_retire"
    /\ peers' = RetireRows(n, frame[n]["main"].from)
    /\ Evict(n, n, frame[n]["main"].from)
    /\ Goto(n, "main", "build")
    /\ UNCHANGED <<world, guard, frame, wire, crashes, told, been, gap, torn>>
    /\ Crossing

\* publish_signed, whose error is only logged: the event reaches some of
\* the other nodes, perhaps none.
Announce(n) ==
    /\ pc[n]["main"] = "announce"
    /\ \E lucky \in SUBSET (Nodes \ {n}) :
         /\ wire' = [wire EXCEPT ![n] = [k \in Nodes |->
                IF k \in lucky
                THEN Append(wire[n][k], [old |-> frame[n]["main"].from,
                                         new |-> frame[n]["main"].to])
                ELSE wire[n][k]]]
         /\ gap' = [gap EXCEPT ![n] = [k \in Nodes |-> gap[n][k] \/ k \notin lucky]]
    /\ Resume(n)
    /\ UNCHANGED <<world, peers, guard, crashes, told, been, torn, evicted>>
    /\ Crossing

----------------------------------------------------------------------------
(* self.guard = self._build_guard(), on either thread.                     *)

Fetch(n, t, list) ==
    frame' = [frame EXCEPT ![n][t] = Work(@.from, @.to, @.node, list)]

BuildGuard(n, t) ==
    /\ pc[n][t] = "build"
    /\ LockFree(n)
    /\ Fetch(n, t, Protected(n) \cup {addr[n]})
    /\ Goto(n, t, "assign")
    /\ UNCHANGED <<world, peers, guard, wire, crashes, told, been, gap, torn,
                   evicted>>
    /\ Crossing

AssignGuard(n, t) ==
    /\ pc[n][t] = "assign"
    /\ guard' = [guard EXCEPT ![n] = frame[n][t].list]
    /\ \/ /\ t = "mqtt"
          /\ Goto(n, t, "idle")
          /\ frame' = [frame EXCEPT ![n][t] = Idle]
       \/ /\ t = "main" /\ frame[n][t].from # NoIP
          /\ Goto(n, t, "announce")
          /\ Fetch(n, t, {})
       \/ /\ t = "main" /\ frame[n][t].from = NoIP
          /\ Resume(n)
    /\ UNCHANGED <<world, peers, wire, crashes, told, been, gap, torn,
                   evicted>>
    /\ Crossing

----------------------------------------------------------------------------
(* _handle_ip_change, mqtt thread: claim the new address and cancel its    *)
(* retirement in one db_lock hold, retire the old one in the next.         *)

\* Mutant: the new address is not entered.
Claim_not(n, m) ==
    /\ pc[n]["mqtt"] = "idle"
    /\ LockFree(n)
    /\ wire[m][n] # <<>>
    /\ frame' = [frame EXCEPT ![n]["mqtt"] =
                    Work(Head(wire[m][n]).old, Head(wire[m][n]).new, m, {})]
    /\ wire' = [wire EXCEPT ![m][n] = Tail(@)]
    /\ Goto(n, "mqtt", "reclaim")
    /\ UNCHANGED <<world, peers, guard, crashes, told, been, gap, torn,
                   evicted>>
    /\ Crossing

Claim(n, m) ==
    /\ pc[n]["mqtt"] = "idle"
    /\ LockFree(n)
    /\ wire[m][n] # <<>>
    /\ LET event == Head(wire[m][n]) IN
         /\ peers' = Upsert(n, m, event.new)
         /\ evicted' = [evicted EXCEPT ![n] = @ \ {event.new}]
         /\ frame' = [frame EXCEPT ![n]["mqtt"] =
                         Work(event.old, event.new, m, {})]
    /\ wire' = [wire EXCEPT ![m][n] = Tail(@)]
    /\ Goto(n, "mqtt", "reclaim")
    /\ UNCHANGED <<world, guard, crashes, told, been, gap, torn>>
    /\ Crossing

Reclaim(n) ==
    /\ pc[n]["mqtt"] = "reclaim"
    /\ peers' = CancelRows(n, frame[n]["mqtt"].to)
    /\ Goto(n, "mqtt", "retire")
    /\ UNCHANGED <<world, guard, frame, wire, crashes, told, been, gap, torn,
                   evicted>>
    /\ Crossing

\* Mutant: the old address stays active.
RetirePeer_not(n) ==
    /\ pc[n]["mqtt"] = "retire"
    /\ LockFree(n)
    /\ told' = [told EXCEPT ![n][frame[n]["mqtt"].node] = frame[n]["mqtt"].to]
    /\ Goto(n, "mqtt", "build")
    /\ UNCHANGED <<world, peers, guard, frame, wire, crashes, been, gap,
                   torn, evicted>>
    /\ Crossing

\* Mutant: the guard is not rebuilt.
RetirePeer_no_rebuild(n) ==
    /\ pc[n]["mqtt"] = "retire"
    /\ LockFree(n)
    /\ peers' = RetireRows(n, frame[n]["mqtt"].from)
    /\ Evict(n, frame[n]["mqtt"].node, frame[n]["mqtt"].from)
    /\ told' = [told EXCEPT ![n][frame[n]["mqtt"].node] = frame[n]["mqtt"].to]
    /\ Goto(n, "mqtt", "idle")
    /\ UNCHANGED <<world, guard, frame, wire, crashes, been, gap, torn>>
    /\ Crossing

RetirePeer(n) ==
    /\ pc[n]["mqtt"] = "retire"
    /\ LockFree(n)
    /\ peers' = RetireRows(n, frame[n]["mqtt"].from)
    /\ Evict(n, frame[n]["mqtt"].node, frame[n]["mqtt"].from)
    /\ told' = [told EXCEPT ![n][frame[n]["mqtt"].node] = frame[n]["mqtt"].to]
    /\ Goto(n, "mqtt", "build")
    /\ UNCHANGED <<world, guard, frame, wire, crashes, been, gap, torn>>
    /\ Crossing

----------------------------------------------------------------------------
\* peer_ip_prune, main thread; the guard is not rebuilt.
Prune(n) ==
    /\ pc[n]["main"] = "loop"
    /\ LockFree(n)
    /\ peers' = PruneRows(n)
    /\ peers' # peers
    /\ UNCHANGED <<world, guard, daemon, wire, crashes, told, been, gap, torn,
                   evicted>>
    /\ Crossing

\* The provider gives a host another free address.
Move(n) ==
    /\ moves < MaxMoves
    /\ moves' = moves + 1
    /\ \E ip \in Home[n] \ {addr[m] : m \in Nodes} :
         /\ addr' = [addr EXCEPT ![n] = ip]
         /\ been' = [been EXCEPT ![n] = @ \cup {ip}]
    /\ UNCHANGED <<now, peers, guard, daemon, wire, crashes, told, gap, torn,
                   evicted>>
    /\ Crossing

Tick ==
    /\ now < MaxTime
    /\ now' = now + 1
    /\ UNCHANGED <<addr, moves, peers, guard, daemon, wire, crashes, told,
                   been, gap, torn, evicted>>
    /\ Crossing

\* An event being handled is lost (it is marked seen), and so is a change
\* that main has started to enter and not yet announced.
Crash(n) ==
    /\ Up(n)
    /\ crashes < MaxCrashes
    /\ crashes' = crashes + 1
    /\ pc' = [pc EXCEPT ![n] = [t \in Threads |-> "down"]]
    /\ frame' = [frame EXCEPT ![n] = [t \in Threads |-> Idle]]
    /\ guard' = [guard EXCEPT ![n] = {}]
    /\ torn' = [torn EXCEPT ![n] = @ \/ pc[n]["main"] = "own_retire"]
    /\ gap' = [m \in Nodes |-> [k \in Nodes |->
          \/ gap[m][k]
          \/ m = n /\ pc[n]["main"] \in {"own_retire", "build", "assign",
                                         "announce"}
                   /\ frame[n]["main"].from # NoIP
          \/ k = n /\ pc[n]["mqtt"] \in {"reclaim", "retire"}
                   /\ frame[n]["mqtt"].node = m]]
    /\ UNCHANGED <<world, peers, wire, told, been, evicted>>
    /\ Crossing

\* Agent.__init__ builds the guard; run() checks the own address first.
Start(n) ==
    /\ ~Up(n)
    /\ guard' = [guard EXCEPT ![n] = Protected(n) \cup {addr[n]}]
    /\ pc' = [pc EXCEPT ![n] = [main |-> "start", mqtt |-> "off"]]
    /\ UNCHANGED <<world, peers, frame, wire, crashes, told, been, gap, torn,
                   evicted>>
    /\ Crossing

Init ==
    /\ now = 0
    /\ addr \in [Nodes -> IPs]
    /\ \A n \in Nodes : addr[n] \in Home[n]
    /\ \A n, m \in Nodes : n # m => addr[n] # addr[m]
    /\ peers = [n \in Nodes |-> [r \in Rows |-> NoRow]]
    /\ guard = [n \in Nodes |-> {}]
    /\ pc = [n \in Nodes |-> [t \in Threads |-> "down"]]
    /\ frame = [n \in Nodes |-> [t \in Threads |-> Idle]]
    /\ wire = [m \in Nodes |-> [n \in Nodes |-> <<>>]]
    /\ moves = 0 /\ crashes = 0
    /\ told = [n \in Nodes |-> [m \in Nodes |-> NoIP]]
    /\ been = [n \in Nodes |-> {addr[n]}]
    /\ gap = [m \in Nodes |-> [n \in Nodes |-> FALSE]]
    /\ torn = [n \in Nodes |-> FALSE]
    /\ crossed = [n \in Nodes |-> FALSE]
    /\ evicted = [n \in Nodes |-> {}]

Next ==
    \/ \E n \in Nodes :
          \/ ReadOwnIp(n) \/ Register(n) \/ OwnUpsert(n) \/ OwnRetire(n)
          \/ Announce(n)
          \/ \E t \in Threads : BuildGuard(n, t) \/ AssignGuard(n, t)
          \/ \E m \in Nodes : Claim(n, m)
          \/ Reclaim(n) \/ RetirePeer(n)
          \/ Prune(n) \/ Move(n) \/ Crash(n) \/ Start(n)
    \/ Tick

Spec == Init /\ [][Next]_vars

----------------------------------------------------------------------------
\* Types of all variables; an active row has no deadline.
Label == {"down", "off", "start", "loop", "register", "own_upsert",
          "own_retire", "build", "assign", "announce", "idle", "reclaim",
          "retire"}
Row == {NoRow, Active} \cup {Retiring(d) : d \in 1..(MaxTime + Retain)}
Event == [old : IPs, new : IPs]

TypeOK ==
    /\ now \in 0..MaxTime /\ moves \in 0..MaxMoves
    /\ crashes \in 0..MaxCrashes
    /\ addr \in [Nodes -> IPs]
    /\ peers \in [Nodes -> [Rows -> Row]]
    /\ guard \in [Nodes -> SUBSET IPs]
    /\ pc \in [Nodes -> [Threads -> Label]]
    /\ frame \in [Nodes -> [Threads ->
                   [from : IPs \cup {NoIP}, to : IPs \cup {NoIP},
                    node : Nodes \cup {NoIP}, list : SUBSET IPs]]]
    /\ wire \in [Nodes -> [Nodes -> Seq(Event)]]
    /\ told \in [Nodes -> [Nodes -> IPs \cup {NoIP}]]
    /\ {been, evicted} \subseteq [Nodes -> SUBSET IPs]
    /\ gap \in [Nodes -> [Nodes -> BOOLEAN]]
    /\ {torn, crossed} \subseteq [Nodes -> BOOLEAN]

\* No other node ever had an address of m.
Exclusive(m) == \A k \in Nodes \ {m} : been[k] \cap been[m] = {}

\* While m stays at the address it last announced to n, n has that address in
\* the protected set: through earlier and later changes, lost announcements,
\* addresses that change hands, retention and pruning (state.py:393-404), but
\* for one that n retired on another node's word after m had claimed it
\* (agent.py:166-167).
PeerAddressKept ==
    \A n, m \in Nodes :
        n # m /\ told[n][m] = addr[m] /\ addr[m] \notin evicted[n]
            => addr[m] \in Protected(n)

\* The guard in memory exempts what the table exempts once the handler is
\* done (agent.py:168), but for two rebuilds that crossed.
GuardCoversPeers ==
    \A n \in Nodes :
        pc[n]["mqtt"] \in {"off", "idle"} /\ ~crossed[n]
            => \A m \in Nodes \ {n} : ActiveOf(n, m) \subseteq guard[n]

\* A node has one active address of its own (peer_ip_get_active, "the
\* current active IP for a node"), unless it died inside a change.
OneOwnAddress ==
    \A n \in Nodes :
        pc[n]["main"] = "loop" /\ Exclusive(n) /\ ~torn[n]
            => Cardinality(ActiveOf(n, n)) = 1

\* An address that m gave up does not stay exempt: n keeps no active row of
\* m but the one m announced last, if n got everything m announced.
StaleAddressRetires ==
    \A n, m \in Nodes :
        /\ n # m /\ ~gap[m][n] /\ Exclusive(m)
        /\ pc[n]["mqtt"] \notin {"reclaim", "retire"}
        => ActiveOf(n, m) \subseteq {told[n][m]}

\* Protection ends by time alone: no event, pruning, crash or change takes
\* an address out of the protected set before its retention is over
\* (state.py:363-372, "retiring with a deadline").
ProtectionEndsByTime ==
    [][\A n \in Nodes : ~(Protected(n) \subseteq Protected(n)')
                            => now' > now]_vars
=============================================================================
