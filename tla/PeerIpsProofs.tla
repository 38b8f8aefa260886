---------------------------- MODULE PeerIpsProofs ----------------------------
(***************************************************************************)
(* PeerIps for any nodes, addresses, retention, moves, losses and crashes: *)
(* the address a node announced last stays exempt, what it gave up does    *)
(* not, a node has one address of its own, the guard has what the table    *)
(* has, and nothing but time takes an address out of the protected set.    *)
(***************************************************************************)
EXTENDS PeerIps, SequenceTheorems, FiniteSetTheorems, TLAPS

Handling(n) == pc[n]["mqtt"] \in {"reclaim", "retire"}
AtRest(n) == pc[n]["main"] \in {"down", "start", "loop"}

\* n keeps an active row of the address.
Holds(n, ip) == \E k \in Nodes : peers[n][k, ip].status = "active"

\* What a thread works on, announces and hands over is a change of address, of
\* another node if the event is one.
Change(from, to) == from # NoIP /\ to # NoIP /\ from # to

MainChange(n) ==
    /\ AtRest(n) => frame[n]["main"].from = NoIP
    /\ ~AtRest(n) => /\ frame[n]["main"].to # NoIP
                     /\ frame[n]["main"].from # frame[n]["main"].to
    /\ pc[n]["main"] \in {"own_upsert", "own_retire", "announce"}
         => frame[n]["main"].from # NoIP

HandlerChange(n) ==
    Handling(n) => /\ Change(frame[n]["mqtt"].from, frame[n]["mqtt"].to)
                   /\ frame[n]["mqtt"].node \in Nodes \ {n}

WireChanges ==
    \A m, n \in Nodes : \A i \in DOMAIN wire[m][n] :
        m # n /\ wire[m][n][i].old # wire[m][n][i].new

ChangesOnly ==
    /\ \A n \in Nodes : MainChange(n) /\ HandlerChange(n)
    /\ WireChanges

\* The new address a handler entered is still there when it retires the old one.
ClaimHeld ==
    \A n \in Nodes :
        Handling(n) /\ frame[n]["mqtt"].to \notin evicted[n]
            => peers[n][frame[n]["mqtt"].node, frame[n]["mqtt"].to].status = "active"

\* Whoever it last heard an address from, n keeps an active row of it.
ToldHeld ==
    \A n, m \in Nodes :
        n # m /\ told[n][m] # NoIP /\ told[n][m] \notin evicted[n]
            => Holds(n, told[n][m])

PeerInv == TypeOK /\ ChangesOnly /\ ClaimHeld /\ ToldHeld

-----------------------------------------------------------------------------
(* Types.                                                                  *)

Frames == [from : IPs \cup {NoIP}, to : IPs \cup {NoIP},
           node : Nodes \cup {NoIP}, list : SUBSET IPs]

LEMMA WorkIsFrame ==
    ASSUME NEW from \in IPs \cup {NoIP}, NEW to \in IPs \cup {NoIP},
           NEW node \in Nodes \cup {NoIP}, NEW list \in SUBSET IPs
    PROVE  Work(from, to, node, list) \in Frames
BY DEF Work, Frames

LEMMA IdleIsFrame == Idle \in Frames
BY WorkIsFrame DEF Idle

LEMMA FetchTypes ==
    ASSUME frame \in [Nodes -> [Threads -> Frames]],
           NEW n \in Nodes, NEW t \in Threads, NEW list \in SUBSET IPs,
           Fetch(n, t, list)
    PROVE  frame' \in [Nodes -> [Threads -> Frames]]
<1> DEFINE new == Work(frame[n][t].from, frame[n][t].to, frame[n][t].node, list)
<1>1. new \in Frames
  <2>1. /\ frame[n][t].from \in IPs \cup {NoIP}
        /\ frame[n][t].to \in IPs \cup {NoIP}
        /\ frame[n][t].node \in Nodes \cup {NoIP}
    BY DEF Frames
  <2> QED
    BY <2>1, WorkIsFrame
<1>2. frame' = [frame EXCEPT ![n][t] = new]
  BY DEF Fetch
<1> HIDE DEF new
<1> QED
  BY <1>1, <1>2

LEMMA RowTypes ==
    ASSUME TypeOK
    PROVE  NoRow \in Row /\ Active \in Row /\ Retiring(now + Retain) \in Row
<1>1. now + Retain \in 1..(MaxTime + Retain)
  BY PeerAssumption DEF TypeOK
<1> QED
  BY <1>1 DEF Row

\* The statements leave rows in the tables.
LEMMA TableTypes ==
    ASSUME TypeOK, NEW n \in Nodes, NEW m \in Nodes, NEW ip
    PROVE  /\ Upsert(n, m, ip) \in [Nodes -> [Rows -> Row]]
           /\ RetireRows(n, ip) \in [Nodes -> [Rows -> Row]]
           /\ CancelRows(n, ip) \in [Nodes -> [Rows -> Row]]
           /\ PruneRows(n) \in [Nodes -> [Rows -> Row]]
<1>1. /\ NoRow \in Row /\ Active \in Row /\ Retiring(now + Retain) \in Row
      /\ peers \in [Nodes -> [Rows -> Row]]
  BY RowTypes DEF TypeOK
<1>2. Upsert(n, m, ip) \in [Nodes -> [Rows -> Row]]
  BY <1>1 DEF Upsert
<1>3. RetireRows(n, ip) \in [Nodes -> [Rows -> Row]]
  <2> HIDE DEF Retiring
  <2> QED BY <1>1 DEF RetireRows
<1>4. CancelRows(n, ip) \in [Nodes -> [Rows -> Row]]
  BY <1>1 DEF CancelRows
<1>5. PruneRows(n) \in [Nodes -> [Rows -> Row]]
  BY <1>1 DEF PruneRows
<1> QED
  BY <1>2, <1>3, <1>4, <1>5

LEMMA CrossingTypes ==
    ASSUME TypeOK, Crossing
    PROVE  crossed' \in [Nodes -> BOOLEAN]
BY Zenon DEF TypeOK, Crossing

LEMMA GotoTypes ==
    ASSUME TypeOK, NEW n \in Nodes, NEW t \in Threads, NEW label \in Label,
           Goto(n, t, label)
    PROVE  pc' \in [Nodes -> [Threads -> Label]]
BY DEF TypeOK, Goto

LEMMA ResumeTypes ==
    ASSUME TypeOK, NEW n \in Nodes, Resume(n)
    PROVE  /\ pc' \in [Nodes -> [Threads -> Label]]
           /\ frame' \in [Nodes -> [Threads -> Frames]]
<1>1. frame \in [Nodes -> [Threads -> Frames]]
  BY DEF TypeOK, Frames
<1>2. frame' \in [Nodes -> [Threads -> Frames]]
  BY <1>1, IdleIsFrame DEF Resume, Threads
<1>3. [main |-> "loop", mqtt |-> IF pc[n]["mqtt"] = "off" THEN "idle" ELSE pc[n]["mqtt"]]
        \in [Threads -> Label]
  BY DEF TypeOK, Threads, Label
<1>4. pc' \in [Nodes -> [Threads -> Label]]
  BY <1>3 DEF TypeOK, Resume
<1> QED
  BY <1>2, <1>4

LEMMA EvictTypes ==
    ASSUME TypeOK, NEW n \in Nodes, NEW m \in Nodes, NEW ip \in IPs,
           Evict(n, m, ip)
    PROVE  evicted' \in [Nodes -> SUBSET IPs]
BY DEF TypeOK, Evict

\* Announce, whoever is lucky.
LEMMA WireTypes ==
    ASSUME TypeOK, NEW n \in Nodes, NEW event \in Event, NEW lucky,
           wire' = [wire EXCEPT ![n] = [k \in Nodes |->
               IF k \in lucky THEN Append(wire[n][k], event) ELSE wire[n][k]]]
    PROVE  wire' \in [Nodes -> [Nodes -> Seq(Event)]]
<1>1. \A k \in Nodes : Append(wire[n][k], event) \in Seq(Event)
  BY DEF TypeOK
<1> QED
  BY <1>1 DEF TypeOK

-----------------------------------------------------------------------------
(* TypeOK, action by action.                                               *)

LEMMA MainTypes ==
    ASSUME PeerInv, NEW n \in Nodes,
           \/ ReadOwnIp(n) \/ Register(n) \/ OwnUpsert(n) \/ OwnRetire(n)
           \/ Announce(n) \/ Prune(n)
    PROVE  TypeOK'
<1> USE DEF PeerInv, world, daemon, Frames
<1>1. crossed' \in [Nodes -> BOOLEAN]
  BY CrossingTypes DEF ReadOwnIp, Register, OwnUpsert, OwnRetire, Announce, Prune
<1>2. \A label \in {"register", "own_upsert", "own_retire", "build"} :
        Goto(n, "main", label) => pc' \in [Nodes -> [Threads -> Label]]
  BY GotoTypes DEF Threads, Label
<1>3. addr[n] \in IPs /\ frame \in [Nodes -> [Threads -> Frames]]
  BY DEF TypeOK
<1>4. CASE ReadOwnIp(n)
  <2>1. CASE Resume(n)
    BY <1>1, <1>4, <2>1, ResumeTypes DEF ReadOwnIp, TypeOK
  <2>2. CASE ~Resume(n)
    <3>1. pc' \in [Nodes -> [Threads -> Label]]
      BY <1>2, <1>4, <2>2 DEF ReadOwnIp
    <3>2. PICK new \in Frames : frame' = [frame EXCEPT ![n]["main"] = new]
      BY <1>3, <1>4, <2>2, WorkIsFrame DEF ReadOwnIp, ActiveOf
    <3> QED
      BY <1>1, <1>3, <1>4, <3>1, <3>2 DEF ReadOwnIp, TypeOK
  <2> QED
    BY <2>1, <2>2
<1>5. CASE Register(n)
  BY <1>1, <1>2, <1>5, TableTypes DEF Register, TypeOK
<1>6. CASE OwnUpsert(n)
  BY <1>1, <1>2, <1>6, TableTypes DEF OwnUpsert, TypeOK
<1>7. CASE OwnRetire(n)
  <2>1. frame[n]["main"].from \in IPs
    BY <1>7 DEF OwnRetire, ChangesOnly, MainChange, TypeOK, Threads
  <2>2. evicted' \in [Nodes -> SUBSET IPs]
    BY <1>7, <2>1, EvictTypes DEF OwnRetire
  <2> QED
    BY <1>1, <1>2, <1>7, <2>2, TableTypes DEF OwnRetire, TypeOK
<1>8. CASE Announce(n)
  <2>1. [old |-> frame[n]["main"].from, new |-> frame[n]["main"].to] \in Event
    BY <1>8 DEF Announce, ChangesOnly, MainChange, AtRest, TypeOK, Threads, Event
  <2>2. wire' \in [Nodes -> [Nodes -> Seq(Event)]]
    <3> DEFINE event == [old |-> frame[n]["main"].from, new |-> frame[n]["main"].to]
    <3>1. PICK lucky : wire' = [wire EXCEPT ![n] = [k \in Nodes |->
               IF k \in lucky THEN Append(wire[n][k], event) ELSE wire[n][k]]]
      BY <1>8, Zenon DEF Announce
    <3>2. event \in Event
      BY <2>1
    <3> HIDE DEF event
    <3> QED
      BY <3>1, <3>2, WireTypes
  <2>3. gap' \in [Nodes -> [Nodes -> BOOLEAN]]
    <3>1. PICK lucky : gap' = [gap EXCEPT ![n] =
                          [k \in Nodes |-> gap[n][k] \/ k \notin lucky]]
      BY <1>8, Zenon DEF Announce
    <3>2. [k \in Nodes |-> gap[n][k] \/ k \notin lucky] \in [Nodes -> BOOLEAN]
      BY Zenon
    <3> QED
      BY <3>1, <3>2 DEF TypeOK
  <2> QED
    BY <1>1, <1>8, <2>2, <2>3, ResumeTypes DEF Announce, TypeOK
<1>9. CASE Prune(n)
  BY <1>1, <1>9, TableTypes DEF Prune, TypeOK
<1> QED
  BY <1>4, <1>5, <1>6, <1>7, <1>8, <1>9

LEMMA GuardTypes ==
    ASSUME PeerInv, NEW n \in Nodes, NEW t \in Threads,
           BuildGuard(n, t) \/ AssignGuard(n, t)
    PROVE  TypeOK'
<1> USE DEF PeerInv, world, Frames
<1>1. crossed' \in [Nodes -> BOOLEAN]
  BY CrossingTypes DEF BuildGuard, AssignGuard
<1>2. \A label \in {"assign", "idle", "announce"} :
        Goto(n, t, label) => pc' \in [Nodes -> [Threads -> Label]]
  BY GotoTypes DEF Label
<1>3. frame \in [Nodes -> [Threads -> Frames]]
  BY DEF TypeOK
<1>4. CASE BuildGuard(n, t)
  <2>1. Protected(n) \cup {addr[n]} \subseteq IPs
    BY DEF Protected, TypeOK
  <2> HIDE DEF Protected
  <2>2. frame' \in [Nodes -> [Threads -> Frames]]
    BY <1>3, <1>4, <2>1, FetchTypes DEF BuildGuard
  <2> QED
    BY <1>1, <1>2, <1>4, <2>2 DEF BuildGuard, TypeOK
<1>5. CASE AssignGuard(n, t)
  <2>1. guard' \in [Nodes -> SUBSET IPs]
    BY <1>3, <1>5 DEF AssignGuard, TypeOK
  <2>2. CASE Resume(n)
    BY <1>1, <1>5, <2>1, <2>2, ResumeTypes DEF AssignGuard, TypeOK
  <2>3. CASE ~Resume(n)
    <3>1. frame' \in [Nodes -> [Threads -> Frames]]
      <4>1. CASE frame' = [frame EXCEPT ![n][t] = Idle]
        BY <1>3, <4>1, IdleIsFrame
      <4>2. CASE Fetch(n, t, {})
        BY <1>3, <4>2, FetchTypes
      <4> QED
        BY <1>5, <2>3, <4>1, <4>2 DEF AssignGuard
    <3> QED
      BY <1>1, <1>2, <1>5, <2>1, <2>3, <3>1 DEF AssignGuard, TypeOK
  <2> QED
    BY <2>2, <2>3
<1> QED
  BY <1>4, <1>5

LEMMA HandlerTypes ==
    ASSUME PeerInv, NEW n \in Nodes,
           (\E m \in Nodes : Claim(n, m)) \/ Reclaim(n) \/ RetirePeer(n)
    PROVE  TypeOK'
<1> USE DEF PeerInv, world, Frames
<1>1. crossed' \in [Nodes -> BOOLEAN]
  BY CrossingTypes DEF Claim, Reclaim, RetirePeer
<1>2. \A label \in {"reclaim", "retire", "build"} :
        Goto(n, "mqtt", label) => pc' \in [Nodes -> [Threads -> Label]]
  BY GotoTypes DEF Threads, Label
<1>3. frame \in [Nodes -> [Threads -> Frames]] /\ frame[n]["mqtt"] \in Frames
  BY DEF TypeOK, Threads
<1>4. ASSUME NEW m \in Nodes, Claim(n, m)
      PROVE  TypeOK'
  <2>1. /\ Head(wire[m][n]) \in Event /\ Tail(wire[m][n]) \in Seq(Event)
    <3>1. wire[m][n] \in Seq(Event) /\ wire[m][n] # <<>>
      BY <1>4 DEF Claim, TypeOK
    <3> QED
      BY <3>1, HeadTailProperties
  <2>2. wire' \in [Nodes -> [Nodes -> Seq(Event)]]
    BY <1>4, <2>1 DEF Claim, TypeOK
  <2>3. frame' \in [Nodes -> [Threads -> Frames]]
    <3>1. PICK new \in Frames : frame' = [frame EXCEPT ![n]["mqtt"] = new]
      BY <1>3, <1>4, <2>1, WorkIsFrame DEF Claim, Event
    <3> QED
      BY <1>3, <3>1
  <2>4. evicted' \in [Nodes -> SUBSET IPs]
    BY <1>4 DEF Claim, TypeOK
  <2> QED
    BY <1>1, <1>2, <1>4, <2>2, <2>3, <2>4, TableTypes DEF Claim, TypeOK
<1>5. CASE Reclaim(n)
  BY <1>1, <1>2, <1>5, TableTypes DEF Reclaim, TypeOK
<1>6. CASE RetirePeer(n)
  <2>1. frame[n]["mqtt"].node \in Nodes /\ frame[n]["mqtt"].from \in IPs
    BY <1>3, <1>6 DEF RetirePeer, ChangesOnly, HandlerChange, Handling, Change
  <2>2. evicted' \in [Nodes -> SUBSET IPs]
    BY <1>6, <2>1, EvictTypes DEF RetirePeer
  <2>3. told' \in [Nodes -> [Nodes -> IPs \cup {NoIP}]]
    BY <1>3, <1>6 DEF RetirePeer, TypeOK
  <2> QED
    BY <1>1, <1>2, <1>6, <2>2, <2>3, TableTypes DEF RetirePeer, TypeOK
<1> QED
  BY <1>4, <1>5, <1>6

LEMMA WorldTypes ==
    ASSUME PeerInv, NEW n \in Nodes,
           Move(n) \/ Crash(n) \/ Start(n) \/ Tick
    PROVE  TypeOK'
<1> USE PeerAssumption DEF PeerInv, world, daemon, Frames
<1>1. crossed' \in [Nodes -> BOOLEAN]
  BY CrossingTypes DEF Move, Crash, Start, Tick
<1>2. CASE Move(n)
  <2>1. addr' \in [Nodes -> IPs] /\ been' \in [Nodes -> SUBSET IPs]
    <3>1. PICK ip \in Home[n] : /\ addr' = [addr EXCEPT ![n] = ip]
                                /\ been' = [been EXCEPT ![n] = been[n] \cup {ip}]
      BY <1>2 DEF Move
    <3>2. ip \in IPs
      BY <3>1 DEF IPs
    <3> QED
      BY <3>1, <3>2 DEF TypeOK
  <2> QED
    BY <1>1, <1>2, <2>1 DEF Move, TypeOK
<1>3. CASE Crash(n)
  <2>1. pc' \in [Nodes -> [Threads -> Label]]
    BY <1>3 DEF Crash, TypeOK, Label
  <2>2. frame' \in [Nodes -> [Threads -> Frames]]
    <3> HIDE DEF Frames
    <3> QED BY <1>3, IdleIsFrame DEF Crash, TypeOK, Frames
  <2>3. gap' \in [Nodes -> [Nodes -> BOOLEAN]]
    BY <1>3, Zenon DEF Crash
  <2>4. torn' \in [Nodes -> BOOLEAN]
    BY <1>3 DEF Crash, TypeOK
  <2>5. guard' \in [Nodes -> SUBSET IPs]
    BY <1>3 DEF Crash, TypeOK
  <2>6. crashes' \in 0..MaxCrashes
    BY <1>3 DEF Crash, TypeOK
  <2> QED
    BY <1>1, <1>3, <2>1, <2>2, <2>3, <2>4, <2>5, <2>6 DEF Crash, TypeOK
<1>4. CASE Start(n)
  <2>1. pc' \in [Nodes -> [Threads -> Label]]
    BY <1>4 DEF Start, TypeOK, Label, Threads
  <2>2. Protected(n) \cup {addr[n]} \subseteq IPs
    BY DEF Protected, TypeOK
  <2>3. guard' \in [Nodes -> SUBSET IPs]
    BY <1>4, <2>2 DEF Start, TypeOK
  <2> QED
    BY <1>1, <1>4, <2>1, <2>3 DEF Start, TypeOK
<1>5. CASE Tick
  <2>1. now' \in 0..MaxTime
    BY <1>5 DEF Tick, TypeOK
  <2> QED
    BY <1>1, <1>5, <2>1 DEF Tick, TypeOK
<1> QED
  BY <1>2, <1>3, <1>4, <1>5

-----------------------------------------------------------------------------
(* ChangesOnly, action by action.                                          *)

\* What a thread does at its next step, with the other left alone.
LEMMA OneThreadMoves ==
    ASSUME TypeOK, ChangesOnly, NEW n \in Nodes, NEW t \in Threads,
           NEW label, NEW new,
           pc' = [pc EXCEPT ![n][t] = label],
           frame' = [frame EXCEPT ![n][t] = new],
           t = "main" => MainChange(n)',
           t = "mqtt" => HandlerChange(n)'
    PROVE  \A k \in Nodes : MainChange(k)' /\ HandlerChange(k)'
<1>1. /\ \A k \in Nodes, u \in Threads :
            k # n \/ u # t => pc'[k][u] = pc[k][u] /\ frame'[k][u] = frame[k][u]
      /\ \A k \in Nodes : MainChange(k) /\ HandlerChange(k)
  BY DEF TypeOK, ChangesOnly
<1>2. ASSUME NEW k \in Nodes, k # n \/ t = "mqtt" PROVE MainChange(k)'
  BY <1>1, <1>2 DEF MainChange, AtRest, Threads
<1>3. ASSUME NEW k \in Nodes, k # n \/ t = "main" PROVE HandlerChange(k)'
  BY <1>1, <1>3 DEF HandlerChange, Handling, Threads
<1> QED
  BY <1>2, <1>3 DEF Threads

\* The same for a step that leaves the locals alone.
LEMMA OnlyLabelMoves ==
    ASSUME TypeOK, ChangesOnly, NEW n \in Nodes, NEW t \in Threads,
           NEW label, Goto(n, t, label), frame' = frame,
           t = "main" => MainChange(n)',
           t = "mqtt" => HandlerChange(n)'
    PROVE  \A k \in Nodes : MainChange(k)' /\ HandlerChange(k)'
<1>1. frame' = [frame EXCEPT ![n][t] = frame[n][t]]
  BY DEF TypeOK
<1> QED
  BY <1>1, OneThreadMoves DEF Goto

LEMMA ResumeChanges ==
    ASSUME TypeOK, ChangesOnly, NEW n \in Nodes, Resume(n)
    PROVE  \A k \in Nodes : MainChange(k)' /\ HandlerChange(k)'
<1>1. /\ \A k \in Nodes \ {n} : pc'[k] = pc[k] /\ frame'[k] = frame[k]
      /\ \A k \in Nodes : MainChange(k) /\ HandlerChange(k)
  BY DEF TypeOK, ChangesOnly, Resume
<1>2. /\ pc'[n]["main"] = "loop" /\ frame'[n]["main"].from = NoIP
      /\ frame'[n]["mqtt"] = frame[n]["mqtt"]
      /\ pc'[n]["mqtt"] = pc[n]["mqtt"] \/ pc'[n]["mqtt"] = "idle"
  BY DEF TypeOK, Resume, Threads, Idle, Work
<1>3. ASSUME NEW k \in Nodes \ {n} PROVE MainChange(k)' /\ HandlerChange(k)'
  BY <1>1 DEF MainChange, HandlerChange, AtRest, Handling
<1>4. MainChange(n)' /\ HandlerChange(n)'
  BY <1>1, <1>2 DEF MainChange, HandlerChange, AtRest, Handling
<1> QED
  BY <1>3, <1>4

LEMMA MainChanges ==
    ASSUME PeerInv, NEW n \in Nodes,
           \/ ReadOwnIp(n) \/ Register(n) \/ OwnUpsert(n) \/ OwnRetire(n)
           \/ Announce(n) \/ Prune(n)
    PROVE  ChangesOnly'
<1> USE DEF PeerInv, daemon
<1>1. MainChange(n) /\ WireChanges /\ "main" \in Threads /\ addr[n] \in IPs
  BY DEF ChangesOnly, Threads, TypeOK
<1>2. CASE ReadOwnIp(n)
  <2>1. WireChanges'
    BY <1>1, <1>2 DEF ReadOwnIp, WireChanges
  <2>2. CASE Resume(n)
    BY <2>1, <2>2, ResumeChanges DEF ChangesOnly
  <2>3. CASE ~Resume(n)
    <3>1. PICK label \in {"register", "own_upsert"}, from \in IPs \cup {NoIP} :
            /\ Goto(n, "main", label)
            /\ frame' = [frame EXCEPT ![n]["main"] = Work(from, addr[n], NoIP, {})]
            /\ from # addr[n] /\ (label = "own_upsert" => from # NoIP)
      BY <1>1, <1>2, <2>3, PeerAssumption DEF ReadOwnIp, ActiveOf
    <3>2. /\ frame'[n]["main"] = Work(from, addr[n], NoIP, {})
          /\ pc'[n]["main"] = label
      BY <3>1 DEF Goto, TypeOK, Threads
    <3>3. MainChange(n)'
      BY <1>1, <3>1, <3>2, PeerAssumption DEF MainChange, AtRest, Work
    <3> QED
      BY <1>1, <2>1, <3>1, <3>3, OneThreadMoves DEF Goto, ChangesOnly
  <2> QED
    BY <2>2, <2>3
<1>3. CASE Register(n) \/ OwnUpsert(n) \/ OwnRetire(n)
  <2>1. PICK label \in {"build", "own_retire"} :
          /\ Goto(n, "main", label) /\ frame' = frame /\ wire' = wire
          /\ label = "own_retire" => pc[n]["main"] = "own_upsert"
          /\ ~AtRest(n)
    BY <1>3 DEF Register, OwnUpsert, OwnRetire, AtRest
  <2>2. pc'[n]["main"] = label
    BY <2>1 DEF Goto, TypeOK, Threads
  <2>3. MainChange(n)'
    BY <1>1, <2>1, <2>2 DEF MainChange, AtRest
  <2>4. WireChanges'
    BY <1>1, <2>1 DEF WireChanges
  <2> QED
    BY <1>1, <2>1, <2>3, <2>4, OnlyLabelMoves DEF ChangesOnly
<1>4. CASE Announce(n)
  <2> DEFINE event == [old |-> frame[n]["main"].from, new |-> frame[n]["main"].to]
  <2>1. PICK lucky \in SUBSET (Nodes \ {n}) :
             wire' = [wire EXCEPT ![n] = [k \in Nodes |->
               IF k \in lucky THEN Append(wire[n][k], event) ELSE wire[n][k]]]
    BY <1>4, Zenon DEF Announce
  <2>2. event.old # event.new
    BY <1>1, <1>4 DEF Announce, MainChange, AtRest
  <2> HIDE DEF event
  <2>3. ASSUME NEW m \in Nodes, NEW k \in Nodes, NEW i \in DOMAIN wire'[m][k]
        PROVE  m # k /\ wire'[m][k][i].old # wire'[m][k][i].new
    <3>1. wire[m][k] \in Seq(Event)
      BY DEF TypeOK
    <3>2. CASE m = n /\ k \in lucky
      <4>1. wire'[m][k] = Append(wire[m][k], event)
        BY <2>1, <3>2 DEF TypeOK
      <4>2. \/ wire'[m][k][i] = event
            \/ /\ i \in DOMAIN wire[m][k]
               /\ wire'[m][k][i] = wire[m][k][i]
        BY <3>1, <4>1
      <4> QED
        BY <1>1, <2>2, <3>2, <4>2 DEF WireChanges
    <3>3. CASE ~(m = n /\ k \in lucky)
      <4>1. wire'[m][k] = wire[m][k]
        BY <2>1, <3>3 DEF TypeOK
      <4> QED
        BY <1>1, <4>1 DEF WireChanges
    <3> QED
      BY <3>2, <3>3
  <2> QED
    BY <1>4, <2>3, ResumeChanges DEF Announce, ChangesOnly, WireChanges
<1>5. CASE Prune(n)
  BY <1>5 DEF Prune, ChangesOnly, MainChange, HandlerChange, WireChanges, AtRest,
              Handling
<1> QED
  BY <1>2, <1>3, <1>4, <1>5

LEMMA GuardChanges ==
    ASSUME PeerInv, NEW n \in Nodes, NEW t \in Threads,
           BuildGuard(n, t) \/ AssignGuard(n, t)
    PROVE  ChangesOnly'
<1> USE DEF PeerInv
<1>1. MainChange(n) /\ WireChanges /\ WireChanges'
  BY DEF ChangesOnly, BuildGuard, AssignGuard, WireChanges
<1>2. CASE Resume(n)
  BY <1>1, <1>2, ResumeChanges DEF ChangesOnly
<1>3. CASE ~Resume(n)
  <2>1. PICK label, new :
          /\ label \in {"assign", "announce", "idle"}
          /\ pc[n][t] \in {"build", "assign"}
          /\ Goto(n, t, label) /\ frame' = [frame EXCEPT ![n][t] = new]
          /\ label = "idle" => t = "mqtt"
          /\ t = "main" => new.from = frame[n][t].from /\ new.to = frame[n][t].to
          /\ label = "announce" => frame[n]["main"].from # NoIP
    BY <1>3 DEF BuildGuard, AssignGuard, Fetch, Work
  <2>2. pc'[n][t] = label /\ frame'[n][t] = new
    BY <2>1 DEF Goto, TypeOK
  <2>3. t = "main" => MainChange(n)'
    BY <1>1, <2>1, <2>2 DEF MainChange, AtRest
  <2>4. t = "mqtt" => HandlerChange(n)'
    BY <2>1, <2>2 DEF HandlerChange, Handling
  <2> QED
    BY <1>1, <2>1, <2>3, <2>4, OneThreadMoves DEF Goto, ChangesOnly
<1> QED
  BY <1>2, <1>3

LEMMA HandlerChanges ==
    ASSUME PeerInv, NEW n \in Nodes,
           (\E m \in Nodes : Claim(n, m)) \/ Reclaim(n) \/ RetirePeer(n)
    PROVE  ChangesOnly'
<1> USE DEF PeerInv
<1>1. HandlerChange(n) /\ WireChanges /\ "mqtt" \in Threads
  BY DEF ChangesOnly, Threads
<1>2. ASSUME NEW m \in Nodes, Claim(n, m)
      PROVE  ChangesOnly'
  <2> DEFINE event == Head(wire[m][n])
             new == Work(event.old, event.new, m, {})
  <2>1. wire[m][n] \in Seq(Event) /\ wire[m][n] # <<>>
    BY <1>2 DEF Claim, TypeOK
  <2>2. event = wire[m][n][1] /\ 1 \in DOMAIN wire[m][n] /\ event \in Event
    BY <2>1, HeadTailProperties
  <2>3. Change(event.old, event.new) /\ m # n
    BY <1>1, <2>2, PeerAssumption DEF WireChanges, Change, Event
  <2>4. WireChanges'
    <3> SUFFICES ASSUME NEW l \in Nodes, NEW k \in Nodes, NEW i \in DOMAIN wire'[l][k]
                 PROVE  l # k /\ wire'[l][k][i].old # wire'[l][k][i].new
      BY DEF WireChanges
    <3>1. CASE l = m /\ k = n
      <4>1. wire'[l][k] = Tail(wire[l][k])
        BY <1>2, <3>1 DEF Claim, TypeOK
      <4>2. i + 1 \in DOMAIN wire[l][k] /\ wire'[l][k][i] = wire[l][k][i + 1]
        BY <2>1, <3>1, <4>1
      <4> QED
        BY <1>1, <4>2 DEF WireChanges
    <3>2. CASE ~(l = m /\ k = n)
      <4>1. wire'[l][k] = wire[l][k]
        BY <1>2, <3>2 DEF Claim, TypeOK
      <4> QED
        BY <1>1, <4>1 DEF WireChanges
    <3> QED
      BY <3>1, <3>2
  <2>5. Goto(n, "mqtt", "reclaim") /\ frame' = [frame EXCEPT ![n]["mqtt"] = new]
    BY <1>2 DEF Claim
  <2>6. frame'[n]["mqtt"] = new
    BY <2>5 DEF TypeOK, Threads
  <2>7. HandlerChange(n)'
    BY <2>3, <2>6 DEF HandlerChange, Work
  <2> HIDE DEF event, new
  <2> QED
    BY <1>1, <2>4, <2>5, <2>7, OneThreadMoves DEF Goto, ChangesOnly
<1>3. CASE Reclaim(n) \/ RetirePeer(n)
  <2>1. PICK label : Goto(n, "mqtt", label) /\ frame' = frame /\ wire' = wire
    BY <1>3 DEF Reclaim, RetirePeer
  <2>2. Handling(n)
    BY <1>3 DEF Reclaim, RetirePeer, Handling
  <2>3. HandlerChange(n)'
    BY <1>1, <2>1, <2>2 DEF HandlerChange
  <2> QED
    BY <1>1, <2>1, <2>3, OnlyLabelMoves DEF ChangesOnly, WireChanges
<1> QED
  BY <1>2, <1>3

LEMMA WorldChanges ==
    ASSUME PeerInv, NEW n \in Nodes,
           Move(n) \/ Crash(n) \/ Start(n) \/ Tick
    PROVE  ChangesOnly'
<1> USE DEF PeerInv, daemon
<1>1. WireChanges' /\ \A k \in Nodes : MainChange(k) /\ HandlerChange(k)
  BY DEF Move, Crash, Start, Tick, ChangesOnly, WireChanges
<1>2. CASE Move(n) \/ Tick
  BY <1>1, <1>2 DEF Move, Tick, ChangesOnly, MainChange, HandlerChange, AtRest, Handling
<1>3. CASE Crash(n)
  <2>1. \A k \in Nodes \ {n} : pc'[k] = pc[k] /\ frame'[k] = frame[k]
    BY <1>3 DEF Crash, TypeOK
  <2>2. \A t \in Threads : pc'[n][t] = "down" /\ frame'[n][t] = Idle
    BY <1>3 DEF Crash, TypeOK
  <2>3. MainChange(n)' /\ HandlerChange(n)'
    BY <2>2 DEF MainChange, HandlerChange, AtRest, Handling, Threads, Idle, Work
  <2>4. \A k \in Nodes \ {n} : MainChange(k)' /\ HandlerChange(k)'
    BY <1>1, <2>1 DEF MainChange, HandlerChange, AtRest, Handling
  <2> QED
    BY <1>1, <2>3, <2>4 DEF ChangesOnly
<1>4. CASE Start(n)
  <2>1. \A k \in Nodes \ {n} : pc'[k] = pc[k]
    BY <1>4 DEF Start, TypeOK
  <2>2. pc'[n]["main"] = "start" /\ pc'[n]["mqtt"] = "off" /\ frame' = frame
    BY <1>4 DEF Start, TypeOK
  <2>3. AtRest(n)
    BY <1>4 DEF Start, Up, AtRest
  <2>4. MainChange(n)' /\ HandlerChange(n)'
    BY <1>1, <2>2, <2>3 DEF MainChange, HandlerChange, AtRest, Handling
  <2>5. \A k \in Nodes \ {n} : MainChange(k)' /\ HandlerChange(k)'
    BY <1>1, <2>1, <2>2 DEF MainChange, HandlerChange, AtRest, Handling
  <2> QED
    BY <1>1, <2>4, <2>5 DEF ChangesOnly
<1> QED
  BY <1>2, <1>3, <1>4

-----------------------------------------------------------------------------
(* ClaimHeld and ToldHeld.                                                 *)

\* What a handler works on.
LEMMA HandledChange ==
    ASSUME TypeOK, ChangesOnly, NEW l \in Nodes, Handling(l)
    PROVE  /\ frame[l]["mqtt"].node \in Nodes \ {l}
           /\ frame[l]["mqtt"].from \in IPs /\ frame[l]["mqtt"].to \in IPs
           /\ frame[l]["mqtt"].from # frame[l]["mqtt"].to
<1>1. /\ frame[l]["mqtt"].node \in Nodes \ {l}
      /\ Change(frame[l]["mqtt"].from, frame[l]["mqtt"].to)
  BY DEF ChangesOnly, HandlerChange
<1>2. /\ frame[l]["mqtt"].from \in IPs \cup {NoIP}
      /\ frame[l]["mqtt"].to \in IPs \cup {NoIP}
  BY DEF TypeOK, Threads
<1> QED
  BY <1>1, <1>2 DEF Change

\* No active row is lost, but those of one address at one node.
RowsStay(n, gone) ==
    \A l, k \in Nodes, ip \in IPs :
        /\ peers[l][k, ip].status = "active"
        /\ ~(l = n /\ ip = gone)
        => peers'[l][k, ip].status = "active"

\* Nobody starts to handle an event.
HandlersQuiet ==
    \A l \in Nodes : Handling(l)' => /\ Handling(l)
                                     /\ frame'[l]["mqtt"] = frame[l]["mqtt"]

LEMMA StatementsKeepRows ==
    ASSUME TypeOK, NEW n \in Nodes, NEW m \in Nodes, NEW ip, NEW gone,
           \/ peers' = peers
           \/ peers' = Upsert(n, m, ip)
           \/ peers' = RetireRows(n, ip) /\ gone = ip
           \/ peers' = CancelRows(n, ip)
           \/ peers' = PruneRows(n)
    PROVE  RowsStay(n, gone)
<1> SUFFICES ASSUME NEW l \in Nodes, NEW k \in Nodes, NEW x \in IPs,
                    peers[l][<<k, x>>].status = "active", ~(l = n /\ x = gone)
             PROVE  peers'[l][<<k, x>>].status = "active"
  BY DEF RowsStay
<1>1. peers \in [Nodes -> [Rows -> Row]] /\ <<k, x>> \in Rows
  BY DEF TypeOK, Rows
<1>2. CASE peers' = Upsert(n, m, ip)
  BY <1>1, <1>2 DEF Upsert, Active
<1>3. CASE peers' = RetireRows(n, ip) /\ gone = ip
  <2>1. CASE l = n
    <3>1. peers'[l][<<k, x>>] = peers[l][<<k, x>>]
      <4> HIDE DEF Retiring
      <4> QED BY <1>1, <1>3, <2>1 DEF RetireRows
    <3> QED
      BY <3>1
  <2>2. CASE l # n
    BY <1>1, <1>3, <2>2 DEF RetireRows
  <2> QED
    BY <2>1, <2>2
<1>4. CASE peers' = CancelRows(n, ip)
  BY <1>1, <1>4 DEF CancelRows, Active
<1>5. CASE peers' = PruneRows(n)
  BY <1>1, <1>5 DEF PruneRows
<1> QED
  BY <1>2, <1>3, <1>4, <1>5

\* What evicted grows by.
LEMMA EvictEffect ==
    ASSUME TypeOK, NEW n \in Nodes, NEW m \in Nodes, NEW ip \in IPs, Evict(n, m, ip)
    PROVE  /\ \A l \in Nodes : evicted[l] \subseteq evicted'[l]
           /\ \A k \in Nodes \ {m} :
                 peers[n][<<k, ip>>].status = "active" \/ told[n][k] = ip
                   => ip \in evicted'[n]
<1> DEFINE owned == \E k \in Nodes \ {m} : ip \in ActiveOf(n, k) \/ told[n][k] = ip
           grown == [evicted EXCEPT ![n] = evicted[n] \cup {ip}]
<1>1. evicted' = IF owned THEN grown ELSE evicted
  BY DEF Evict
<1>2. /\ \A l \in Nodes : evicted[l] \subseteq grown[l]
      /\ ip \in grown[n]
  BY DEF TypeOK
<1>3. \A k \in Nodes \ {m} :
        peers[n][<<k, ip>>].status = "active" \/ told[n][k] = ip => owned
  BY DEF ActiveOf
<1> HIDE DEF owned, grown
<1> QED
  BY <1>1, <1>2, <1>3

\* While the history says that what n retired was no other node's, both stand.
LEMMA HeldWhenRowsStay ==
    ASSUME PeerInv, NEW n \in Nodes, NEW m \in Nodes, NEW gone,
           RowsStay(n, gone), HandlersQuiet, told' = told,
           \/ evicted' = evicted /\ gone \notin IPs
           \/ Evict(n, m, gone) /\ m = n /\ gone \in IPs
    PROVE  ClaimHeld' /\ ToldHeld'
<1> USE DEF PeerInv
<1>1. \A l \in Nodes : evicted[l] \subseteq evicted'[l]
  BY EvictEffect
<1>2. ASSUME NEW k \in Nodes \ {n}, gone \in IPs,
             peers[n][<<k, gone>>].status = "active" \/ told[n][k] = gone
      PROVE  gone \in evicted'[n]
  BY <1>2, EvictEffect
<1>3. ClaimHeld'
  <2> SUFFICES ASSUME NEW l \in Nodes, Handling(l)',
                      frame'[l]["mqtt"].to \notin evicted'[l]
               PROVE  peers'[l][<<frame'[l]["mqtt"].node, frame'[l]["mqtt"].to>>].status
                        = "active"
    BY DEF ClaimHeld
  <2> DEFINE k == frame[l]["mqtt"].node
             ip == frame[l]["mqtt"].to
  <2>1. Handling(l) /\ k = frame'[l]["mqtt"].node /\ ip = frame'[l]["mqtt"].to
    BY DEF HandlersQuiet
  <2>2. k \in Nodes \ {l} /\ ip \in IPs
    BY <2>1, HandledChange
  <2>3. peers[l][<<k, ip>>].status = "active"
    BY <1>1, <2>1 DEF ClaimHeld
  <2>4. ~(l = n /\ ip = gone)
    BY <1>2, <2>1, <2>2, <2>3
  <2>5. peers'[l][<<k, ip>>].status = "active"
    BY <2>2, <2>3, <2>4 DEF RowsStay
  <2> QED
    BY <2>1, <2>5
<1>4. ToldHeld'
  <2> SUFFICES ASSUME NEW l \in Nodes, NEW k \in Nodes \ {l}, told[l][k] # NoIP,
                      told[l][k] \notin evicted'[l]
               PROVE  \E j \in Nodes : peers'[l][<<j, told[l][k]>>].status = "active"
    BY DEF ToldHeld, Holds
  <2>1. told[l][k] \in IPs
    BY DEF TypeOK
  <2>2. PICK j \in Nodes : peers[l][<<j, told[l][k]>>].status = "active"
    BY <1>1 DEF ToldHeld, Holds
  <2>3. ~(l = n /\ told[l][k] = gone)
    BY <1>2, <2>1
  <2> QED
    BY <2>1, <2>2, <2>3 DEF RowsStay
<1> QED
  BY <1>3, <1>4

LEMMA MainHeld ==
    ASSUME PeerInv, NEW n \in Nodes,
           \/ ReadOwnIp(n) \/ Register(n) \/ OwnUpsert(n) \/ OwnRetire(n)
           \/ Announce(n) \/ Prune(n)
    PROVE  ClaimHeld' /\ ToldHeld'
<1> USE DEF PeerInv, daemon, history
<1>1. HandlersQuiet
  <2>1. \/ Resume(n)
        \/ /\ \E label : Goto(n, "main", label)
           /\ \/ frame' = frame
              \/ \E new : frame' = [frame EXCEPT ![n]["main"] = new]
        \/ pc' = pc /\ frame' = frame
    BY DEF ReadOwnIp, Register, OwnUpsert, OwnRetire, Announce, Prune
  <2>2. CASE Resume(n)
    BY <2>2 DEF Resume, HandlersQuiet, Handling, TypeOK, Threads
  <2>3. CASE ~Resume(n)
    <3>1. \A l \in Nodes : frame'[l]["mqtt"] = frame[l]["mqtt"]
      <4>1. ASSUME NEW new, frame' = [frame EXCEPT ![n]["main"] = new]
            PROVE  \A l \in Nodes : frame'[l]["mqtt"] = frame[l]["mqtt"]
        BY <4>1 DEF TypeOK, Threads
      <4> QED
        BY <2>1, <2>3, <4>1
    <3>2. \A l \in Nodes : pc'[l]["mqtt"] = pc[l]["mqtt"]
      <4>1. ASSUME NEW label, Goto(n, "main", label)
            PROVE  \A l \in Nodes : pc'[l]["mqtt"] = pc[l]["mqtt"]
        BY <4>1 DEF Goto, TypeOK, Threads
      <4> QED
        BY <2>1, <2>3, <4>1
    <3> QED
      BY <3>1, <3>2 DEF HandlersQuiet, Handling
  <2> QED
    BY <2>2, <2>3
<1>2. told' = told
  BY DEF ReadOwnIp, Register, OwnUpsert, OwnRetire, Announce, Prune
<1>3. CASE OwnRetire(n)
  <2> DEFINE gone == frame[n]["main"].from
  <2>1. gone \in IPs /\ Evict(n, n, gone) /\ peers' = RetireRows(n, gone)
    BY <1>3 DEF OwnRetire, ChangesOnly, MainChange, TypeOK, Threads
  <2> HIDE DEF gone
  <2>2. RowsStay(n, gone)
    BY <2>1, StatementsKeepRows
  <2> QED
    BY <1>1, <1>2, <2>1, <2>2, HeldWhenRowsStay
<1>4. CASE ~OwnRetire(n)
  <2>1. evicted' = evicted
    BY <1>4 DEF ReadOwnIp, Register, OwnUpsert, Announce, Prune
  <2>2. \/ peers' = peers \/ peers' = PruneRows(n)
        \/ peers' = Upsert(n, n, frame[n]["main"].to)
    BY <1>4 DEF ReadOwnIp, Register, OwnUpsert, Announce, Prune
  <2>3. RowsStay(n, NoIP)
    BY <2>2, StatementsKeepRows
  <2> QED
    BY <1>1, <1>2, <2>1, <2>3, HeldWhenRowsStay, PeerAssumption
<1> QED
  BY <1>3, <1>4

LEMMA GuardHeld ==
    ASSUME PeerInv, NEW n \in Nodes, NEW t \in Threads,
           BuildGuard(n, t) \/ AssignGuard(n, t)
    PROVE  ClaimHeld' /\ ToldHeld'
<1> USE DEF PeerInv
<1>1. HandlersQuiet
  <2>1. CASE Resume(n)
    BY <2>1 DEF Resume, HandlersQuiet, Handling, TypeOK, Threads
  <2>2. CASE ~Resume(n)
    <3>1. PICK label, new :
            /\ label \in {"assign", "announce", "idle"}
            /\ Goto(n, t, label) /\ frame' = [frame EXCEPT ![n][t] = new]
      BY <2>2 DEF BuildGuard, AssignGuard, Fetch
    <3> QED
      BY <3>1 DEF Goto, HandlersQuiet, Handling, TypeOK, Threads
  <2> QED
    BY <2>1, <2>2
<1>2. told' = told /\ evicted' = evicted /\ peers' = peers
  BY DEF BuildGuard, AssignGuard
<1> QED
  BY <1>1, <1>2, StatementsKeepRows, HeldWhenRowsStay, PeerAssumption

LEMMA WorldHeld ==
    ASSUME PeerInv, NEW n \in Nodes,
           Move(n) \/ Crash(n) \/ Start(n) \/ Tick
    PROVE  ClaimHeld' /\ ToldHeld'
<1> USE DEF PeerInv, daemon, world
<1>1. HandlersQuiet
  <2>1. CASE Move(n) \/ Tick
    BY <2>1 DEF Move, Tick, HandlersQuiet, Handling
  <2>2. CASE Crash(n)
    <3>1. \A l \in Nodes \ {n} : pc'[l] = pc[l] /\ frame'[l] = frame[l]
      BY <2>2 DEF Crash, TypeOK
    <3>2. pc'[n]["mqtt"] = "down"
      BY <2>2 DEF Crash, TypeOK, Threads
    <3> QED
      BY <3>1, <3>2 DEF HandlersQuiet, Handling
  <2>3. CASE Start(n)
    <3>1. \A l \in Nodes \ {n} : pc'[l] = pc[l]
      BY <2>3 DEF Start, TypeOK
    <3>2. pc'[n]["mqtt"] = "off" /\ frame' = frame
      BY <2>3 DEF Start, TypeOK
    <3> QED
      BY <3>1, <3>2 DEF HandlersQuiet, Handling
  <2> QED
    BY <2>1, <2>2, <2>3
<1>2. told' = told /\ evicted' = evicted /\ peers' = peers
  BY DEF Move, Crash, Start, Tick
<1> QED
  BY <1>1, <1>2, StatementsKeepRows, HeldWhenRowsStay, PeerAssumption

LEMMA ClaimKeepsHeld ==
    ASSUME PeerInv, NEW n \in Nodes, NEW m \in Nodes, Claim(n, m)
    PROVE  ClaimHeld' /\ ToldHeld'
<1> USE DEF PeerInv
<1> DEFINE old == Head(wire[m][n]).old
           new == Head(wire[m][n]).new
<1>1. new \in IPs
  <2>1. wire[m][n] \in Seq(Event) /\ wire[m][n] # <<>>
    BY DEF Claim, TypeOK
  <2>2. Head(wire[m][n]) \in Event
    BY <2>1, HeadTailProperties
  <2> QED
    BY <2>2 DEF Event
<1>2. /\ peers' = Upsert(n, m, new)
      /\ evicted' = [evicted EXCEPT ![n] = evicted[n] \ {new}]
      /\ frame' = [frame EXCEPT ![n]["mqtt"] = Work(old, new, m, {})]
      /\ told' = told /\ Goto(n, "mqtt", "reclaim")
  BY DEF Claim
<1> HIDE DEF old, new
<1>3. RowsStay(n, NoIP)
  BY <1>2, StatementsKeepRows
<1>4. peers'[n][<<m, new>>].status = "active"
  BY <1>1, <1>2 DEF Upsert, TypeOK, Rows, Active
<1>5. frame'[n]["mqtt"].node = m /\ frame'[n]["mqtt"].to = new
  BY <1>2 DEF TypeOK, Threads, Work
<1>6. \A l \in Nodes \ {n} : /\ frame'[l] = frame[l] /\ pc'[l] = pc[l]
                             /\ evicted'[l] = evicted[l]
  BY <1>2 DEF TypeOK, Goto
<1>7. evicted'[n] = evicted[n] \ {new}
  BY <1>2 DEF TypeOK
<1>8. ClaimHeld'
  <2> SUFFICES ASSUME NEW l \in Nodes \ {n}, Handling(l)',
                      frame'[l]["mqtt"].to \notin evicted'[l]
               PROVE  peers'[l][<<frame'[l]["mqtt"].node, frame'[l]["mqtt"].to>>].status
                        = "active"
    BY <1>4, <1>5 DEF ClaimHeld
  <2>1. Handling(l)
    BY <1>6 DEF Handling
  <2>2. frame[l]["mqtt"].node \in Nodes /\ frame[l]["mqtt"].to \in IPs
    BY <2>1, HandledChange
  <2> DEFINE k == frame[l]["mqtt"].node
             ip == frame[l]["mqtt"].to
  <2>3. peers[l][<<k, ip>>].status = "active"
    BY <1>6, <2>1 DEF ClaimHeld
  <2>4. peers'[l][<<k, ip>>].status = "active"
    BY <1>3, <2>2, <2>3 DEF RowsStay
  <2> QED
    BY <1>6, <2>4
<1>9. ToldHeld'
  <2> SUFFICES ASSUME NEW l \in Nodes, NEW k \in Nodes \ {l}, told[l][k] # NoIP,
                      told[l][k] \notin evicted'[l]
               PROVE  \E j \in Nodes : peers'[l][<<j, told[l][k]>>].status = "active"
    <3>1. told' = told
      BY <1>2
    <3> QED
      BY <3>1 DEF ToldHeld, Holds
  <2>1. CASE l = n /\ told[l][k] = new
    BY <1>4, <2>1
  <2>2. CASE ~(l = n /\ told[l][k] = new)
    <3>1. told[l][k] \in IPs /\ told[l][k] \notin evicted[l]
      <4>1. told[l][k] \in IPs
        BY DEF TypeOK
      <4>2. CASE l = n
        BY <1>7, <2>2, <4>1, <4>2
      <4>3. CASE l # n
        BY <1>6, <4>1, <4>3
      <4> QED
        BY <4>2, <4>3
    <3>2. PICK j \in Nodes : peers[l][<<j, told[l][k]>>].status = "active"
      BY <3>1 DEF ToldHeld, Holds
    <3> QED
      BY <1>3, <3>1, <3>2, PeerAssumption DEF RowsStay
  <2> QED
    BY <2>1, <2>2
<1> QED
  BY <1>8, <1>9

LEMMA ReclaimKeepsHeld ==
    ASSUME PeerInv, NEW n \in Nodes, Reclaim(n)
    PROVE  ClaimHeld' /\ ToldHeld'
<1> USE DEF PeerInv
<1>1. HandlersQuiet
  BY DEF Reclaim, Goto, HandlersQuiet, Handling, TypeOK, Threads
<1>2. RowsStay(n, NoIP)
  BY StatementsKeepRows DEF Reclaim
<1> QED
  BY <1>1, <1>2, HeldWhenRowsStay, PeerAssumption DEF Reclaim

LEMMA RetireKeepsHeld ==
    ASSUME PeerInv, NEW n \in Nodes, RetirePeer(n)
    PROVE  ClaimHeld' /\ ToldHeld'
<1> USE DEF PeerInv
<1> DEFINE m == frame[n]["mqtt"].node
           gone == frame[n]["mqtt"].from
           new == frame[n]["mqtt"].to
<1>1. /\ m \in Nodes \ {n} /\ gone \in IPs /\ new \in IPs /\ gone # new
      /\ Handling(n)
  <2>1. Handling(n)
    BY DEF RetirePeer, Handling
  <2> QED
    BY <2>1, HandledChange
<1>2. /\ peers' = RetireRows(n, gone) /\ Evict(n, m, gone)
      /\ told' = [told EXCEPT ![n][m] = new]
      /\ Goto(n, "mqtt", "build") /\ frame' = frame
  BY DEF RetirePeer
<1>3. new \notin evicted[n] => peers[n][<<m, new>>].status = "active"
  BY <1>1 DEF ClaimHeld
<1> HIDE DEF m, gone, new
<1>4. RowsStay(n, gone)
  BY <1>1, <1>2, StatementsKeepRows
<1>5. \A l \in Nodes : evicted[l] \subseteq evicted'[l]
  BY <1>2 DEF Evict, TypeOK
<1>6. \A k \in Nodes \ {m} : told[n][k] = gone => gone \in evicted'[n]
  BY <1>1, <1>2 DEF Evict, TypeOK
<1>7. \A l \in Nodes : Handling(l)' => l # n /\ Handling(l)
  BY <1>2 DEF Goto, Handling, TypeOK, Threads
<1>8. ClaimHeld'
  <2> SUFFICES ASSUME NEW l \in Nodes \ {n}, Handling(l),
                      frame[l]["mqtt"].to \notin evicted[l]
               PROVE  peers'[l][<<frame[l]["mqtt"].node, frame[l]["mqtt"].to>>].status
                        = "active"
    BY <1>2, <1>5, <1>7 DEF ClaimHeld
  <2>1. frame[l]["mqtt"].node \in Nodes /\ frame[l]["mqtt"].to \in IPs
    BY HandledChange
  <2> QED
    BY <1>4, <2>1 DEF ClaimHeld, RowsStay
<1>9. ToldHeld'
  <2> SUFFICES ASSUME NEW l \in Nodes, NEW k \in Nodes \ {l}, told'[l][k] # NoIP,
                      told'[l][k] \notin evicted'[l]
               PROVE  \E j \in Nodes : peers'[l][<<j, told'[l][k]>>].status = "active"
    BY DEF ToldHeld, Holds
  <2>1. CASE l = n /\ k = m
    <3>1. told'[l][k] = new
      BY <1>1, <1>2, <2>1 DEF TypeOK
    <3>2. peers[n][<<m, new>>].status = "active"
      BY <1>3, <1>5, <2>1, <3>1
    <3> QED
      BY <1>1, <1>4, <2>1, <3>1, <3>2 DEF RowsStay
  <2>2. CASE ~(l = n /\ k = m)
    <3>1. told'[l][k] = told[l][k]
      BY <1>2, <2>2 DEF TypeOK
    <3> DEFINE ip == told[l][k]
    <3>2. ip \in IPs /\ ip \notin evicted[l]
      BY <1>5, <3>1 DEF TypeOK
    <3>3. PICK j \in Nodes : peers[l][<<j, ip>>].status = "active"
      BY <3>2, PeerAssumption DEF ToldHeld, Holds
    <3>4. ~(l = n /\ ip = gone)
      BY <1>6, <2>2, <3>1
    <3>5. peers'[l][<<j, ip>>].status = "active"
      BY <1>4, <3>2, <3>3, <3>4 DEF RowsStay
    <3> QED
      BY <3>1, <3>5
  <2> QED
    BY <2>1, <2>2
<1> QED
  BY <1>8, <1>9

-----------------------------------------------------------------------------
(* The invariant.                                                          *)

LEMMA InitInv == Init => PeerInv
<1> SUFFICES ASSUME Init PROVE PeerInv
  OBVIOUS
<1>1. TypeOK
  <2>1. "down" \in Label /\ Idle \in Frames /\ NoRow \in Row
    BY IdleIsFrame DEF Label, Row
  <2>2. /\ peers \in [Nodes -> [Rows -> Row]]
        /\ pc \in [Nodes -> [Threads -> Label]]
        /\ frame \in [Nodes -> [Threads -> Frames]]
    BY <2>1 DEF Init
  <2>3. wire \in [Nodes -> [Nodes -> Seq(Event)]]
    <3>1. <<>> \in Seq(Event)
      OBVIOUS
    <3> QED
      BY <3>1 DEF Init
  <2>4. {been, evicted} \subseteq [Nodes -> SUBSET IPs]
    BY DEF Init
  <2> QED
    BY <2>2, <2>3, <2>4, PeerAssumption DEF Init, TypeOK, Frames
<1>2. ChangesOnly
  BY DEF Init, ChangesOnly, MainChange, HandlerChange, WireChanges, AtRest, Handling,
         Idle, Work, Threads
<1>3. ClaimHeld /\ ToldHeld
  BY DEF Init, ClaimHeld, ToldHeld, Handling, Threads
<1> QED
  BY <1>1, <1>2, <1>3 DEF PeerInv

LEMMA StutterStep == PeerInv /\ UNCHANGED vars => PeerInv'
<1> SUFFICES ASSUME PeerInv, UNCHANGED vars PROVE PeerInv'
  OBVIOUS
<1> USE DEF vars, world, daemon, history
<1>1. TypeOK'
  BY DEF PeerInv, TypeOK
<1>2. ChangesOnly'
  BY DEF PeerInv, ChangesOnly, MainChange, HandlerChange, WireChanges, AtRest, Handling
<1>3. ClaimHeld' /\ ToldHeld'
  BY DEF PeerInv, ClaimHeld, ToldHeld, Holds, Handling
<1> QED
  BY <1>1, <1>2, <1>3 DEF PeerInv

LEMMA StepInv == PeerInv /\ [Next]_vars => PeerInv'
<1> SUFFICES ASSUME PeerInv, [Next]_vars PROVE PeerInv'
  OBVIOUS
<1>1. ASSUME NEW n \in Nodes,
             \/ ReadOwnIp(n) \/ Register(n) \/ OwnUpsert(n) \/ OwnRetire(n)
             \/ Announce(n) \/ Prune(n)
      PROVE  PeerInv'
  BY <1>1, MainTypes, MainChanges, MainHeld DEF PeerInv
<1>2. ASSUME NEW n \in Nodes, NEW t \in Threads, BuildGuard(n, t) \/ AssignGuard(n, t)
      PROVE  PeerInv'
  BY <1>2, GuardTypes, GuardChanges, GuardHeld DEF PeerInv
<1>3. ASSUME NEW n \in Nodes,
             (\E m \in Nodes : Claim(n, m)) \/ Reclaim(n) \/ RetirePeer(n)
      PROVE  PeerInv'
  <2>1. TypeOK' /\ ChangesOnly'
    BY <1>3, HandlerTypes, HandlerChanges
  <2>2. ClaimHeld' /\ ToldHeld'
    BY <1>3, ClaimKeepsHeld, ReclaimKeepsHeld, RetireKeepsHeld
  <2> QED
    BY <2>1, <2>2 DEF PeerInv
<1>4. ASSUME NEW n \in Nodes, Move(n) \/ Crash(n) \/ Start(n) \/ Tick
      PROVE  PeerInv'
  BY <1>4, WorldTypes, WorldChanges, WorldHeld DEF PeerInv
<1>5. CASE UNCHANGED vars
  BY <1>5, StutterStep
<1> QED
  BY <1>1, <1>2, <1>3, <1>4, <1>5, PeerAssumption DEF Next

-----------------------------------------------------------------------------
(* PeerAddressKept, and what every later proof starts from.                *)

LEMMA AlwaysInv == Spec => []PeerInv
BY InitInv, StepInv, PTL DEF Spec

\* The types, of every node's table and of what waits on the wire.
THEOREM TypeInvariance == Spec => []TypeOK
<1>1. PeerInv => TypeOK
  BY DEF PeerInv
<1> QED
  BY <1>1, AlwaysInv, PTL

\* The address a node announced last stays exempt at whoever heard it, through
\* lost announcements, later changes, crashes and pruning (agent.py:79-113,
\* 154-169, state.py:363-381, 460-466).
THEOREM PeerAddressKeptHolds == Spec => []PeerAddressKept
<1>1. PeerInv => PeerAddressKept
  <2> SUFFICES ASSUME PeerInv, NEW n \in Nodes, NEW m \in Nodes, n # m,
                      told[n][m] = addr[m], addr[m] \notin evicted[n]
               PROVE  addr[m] \in Protected(n)
    BY DEF PeerAddressKept
  <2>1. addr[m] \in IPs /\ addr[m] # NoIP
    BY PeerAssumption DEF PeerInv, TypeOK
  <2>2. Holds(n, addr[m])
    BY <2>1 DEF PeerInv, ToldHeld
  <2> QED
    BY <2>1, <2>2 DEF Holds, Protected
<1> QED
  BY <1>1, AlwaysInv, PTL

\* No statement on the table takes an address out of the protected set.
LEMMA StatementsProtect ==
    ASSUME TypeOK, NEW n \in Nodes, NEW m \in Nodes, NEW ip,
           \/ peers' = peers
           \/ peers' = Upsert(n, m, ip)
           \/ peers' = RetireRows(n, ip)
           \/ peers' = CancelRows(n, ip)
           \/ peers' = PruneRows(n),
           now' = now
    PROVE  \A l \in Nodes : Protected(l) \subseteq Protected(l)'
<1> SUFFICES ASSUME NEW l \in Nodes, NEW k \in Nodes, NEW x \in IPs,
                    \/ peers[l][<<k, x>>].status = "active"
                    \/ /\ peers[l][<<k, x>>].status = "retiring"
                       /\ peers[l][<<k, x>>].until > now
             PROVE  \/ peers'[l][<<k, x>>].status = "active"
                    \/ /\ peers'[l][<<k, x>>].status = "retiring"
                       /\ peers'[l][<<k, x>>].until > now
  BY DEF Protected
<1>1. peers \in [Nodes -> [Rows -> Row]] /\ <<k, x>> \in Rows
  BY DEF TypeOK, Rows
<1>2. now \in Nat /\ MaxTime \in Nat /\ Retain \in Nat /\ Retain > 0
  BY PeerAssumption DEF TypeOK
<1>3. peers[l][<<k, x>>].until \in Nat
  <2>1. peers[l][<<k, x>>] \in Row
    BY <1>1
  <2> QED
    <3>1. CASE peers[l][<<k, x>>] \in {NoRow, Active}
      BY <3>1 DEF NoRow, Active
    <3>2. CASE \E d \in 1..(MaxTime + Retain) : peers[l][<<k, x>>] = Retiring(d)
      BY <1>2, <3>2 DEF Retiring
    <3> QED
      BY <2>1, <3>1, <3>2 DEF Row
<1>4. CASE peers' = Upsert(n, m, ip)
  BY <1>1, <1>4 DEF Upsert, Active
<1>5. CASE peers' = RetireRows(n, ip)
  <2>1. peers'[l][<<k, x>>] \in {peers[l][<<k, x>>], Retiring(now + Retain)}
    <3> HIDE DEF Retiring
    <3> QED BY <1>1, <1>5 DEF RetireRows
  <2>2. now + Retain > now
    BY <1>2
  <2> QED
    BY <2>1, <2>2 DEF Retiring
<1>6. CASE peers' = CancelRows(n, ip)
  BY <1>1, <1>6 DEF CancelRows, Active
<1>7. CASE peers' = PruneRows(n)
  <2>1. CASE l = n
    <3>1. \/ peers'[l][<<k, x>>] = peers[l][<<k, x>>]
          \/ /\ peers[l][<<k, x>>].status = "retiring"
             /\ peers[l][<<k, x>>].until <= now
      BY <1>1, <1>7, <2>1 DEF PruneRows
    <3> QED
      BY <1>2, <1>3, <3>1
  <2>2. CASE l # n
    BY <1>1, <1>7, <2>2 DEF PruneRows
  <2> QED
    BY <2>1, <2>2
<1> QED
  BY <1>4, <1>5, <1>6, <1>7

\* Nothing but time ends the protection of an address: no event, crash, pruning or
\* change of hands does (state.py:363-381, 393-404, 460-466).
THEOREM ProtectionEndsByTimeHolds == Spec => ProtectionEndsByTime
<1>1. ASSUME PeerInv, [Next]_vars
      PROVE  \A n \in Nodes : ~(Protected(n) \subseteq Protected(n)') => now' > now
  <2>1. CASE Tick
    BY <1>1, <2>1 DEF PeerInv, TypeOK, Tick
  <2>2. CASE ~Tick
    <3>1. ASSUME NEW n \in Nodes,
                 \/ ReadOwnIp(n) \/ Register(n) \/ OwnUpsert(n) \/ OwnRetire(n)
                 \/ Announce(n) \/ Prune(n) \/ Reclaim(n) \/ RetirePeer(n)
                 \/ Move(n) \/ Crash(n) \/ Start(n)
          PROVE  \A l \in Nodes : Protected(l) \subseteq Protected(l)'
      <4>1. now' = now
        BY <3>1 DEF ReadOwnIp, Register, OwnUpsert, OwnRetire, Announce, Prune, Reclaim,
                    RetirePeer, Move, Crash, Start, world
      <4>2. \E ip : \/ peers' = peers
                    \/ peers' = Upsert(n, n, ip)
                    \/ peers' = RetireRows(n, ip)
                    \/ peers' = CancelRows(n, ip)
                    \/ peers' = PruneRows(n)
        BY <3>1 DEF ReadOwnIp, Register, OwnUpsert, OwnRetire, Announce, Prune, Reclaim,
                    RetirePeer, Move, Crash, Start
      <4> QED
        BY <1>1, <4>1, <4>2, StatementsProtect DEF PeerInv
    <3>2. ASSUME NEW n \in Nodes, NEW m \in Nodes, Claim(n, m)
          PROVE  \A l \in Nodes : Protected(l) \subseteq Protected(l)'
      BY <1>1, <3>2, StatementsProtect DEF PeerInv, Claim, world
    <3>3. ASSUME NEW n \in Nodes, NEW t \in Threads, BuildGuard(n, t) \/ AssignGuard(n, t)
          PROVE  \A l \in Nodes : Protected(l) \subseteq Protected(l)'
      BY <1>1, <3>3, StatementsProtect DEF PeerInv, BuildGuard, AssignGuard, world
    <3>4. CASE UNCHANGED vars
      BY <3>4 DEF vars, world, Protected
    <3> QED
      BY <1>1, <2>2, <3>1, <3>2, <3>3, <3>4 DEF Next
  <2> QED
    BY <2>1, <2>2
<1> QED
  BY <1>1, AlwaysInv, PTL DEF Spec, ProtectionEndsByTime

-----------------------------------------------------------------------------
(* GuardCoversPeers.  The handler alone makes rows of other nodes active,  *)
(* and it assigns a guard afterwards that has them.                        *)

\* What other nodes' active rows keep.
PeerActive(n) ==
    {ip \in IPs : \E m \in Nodes \ {n} : peers[n][<<m, ip>>].status = "active"}

\* Unless the threads rebuilt at once, a thread that has read the table will
\* assign a guard as good as the one it replaces.
GuardFollows(n) ==
    /\ \E t \in Threads : ~Rebuilding(n, t)
    /\ pc[n]["mqtt"] \in {"off", "idle"} =>
         /\ PeerActive(n) \subseteq guard[n]
         /\ pc[n]["main"] = "assign"
              => PeerActive(n) \subseteq frame[n]["main"].list
    /\ pc[n]["mqtt"] = "assign" => PeerActive(n) \subseteq frame[n]["mqtt"].list

NodeGuard(n) ==
    /\ pc[n]["main"] = "down" <=> pc[n]["mqtt"] = "down"
    /\ crossed[n] \/ GuardFollows(n)
GuardInv == \A n \in Nodes : NodeGuard(n)

LEMMA CrossingMeans ==
    ASSUME Crossing, NEW n \in Nodes, ~crossed'[n]
    PROVE  /\ ~crossed[n] \/ ~Up(n)
           /\ \E t \in Threads : ~Rebuilding(n, t)'
BY DEF Crossing

LEMMA StatementsAddNone ==
    ASSUME TypeOK, NEW n \in Nodes, NEW ip,
           \/ peers' = peers
           \/ peers' = Upsert(n, n, ip)
           \/ peers' = RetireRows(n, ip)
           \/ peers' = PruneRows(n),
           NEW l \in Nodes
    PROVE  PeerActive(l)' \subseteq PeerActive(l)
<1> SUFFICES ASSUME NEW k \in Nodes \ {l}, NEW x \in IPs,
                    peers'[l][<<k, x>>].status = "active"
             PROVE  peers[l][<<k, x>>].status = "active"
  BY DEF PeerActive
<1>1. peers \in [Nodes -> [Rows -> Row]] /\ <<k, x>> \in Rows
  BY DEF TypeOK, Rows
<1>2. CASE peers' = Upsert(n, n, ip)
  BY <1>1, <1>2 DEF Upsert
<1>3. CASE peers' = RetireRows(n, ip)
  <2>1. peers'[l][<<k, x>>] \in {peers[l][<<k, x>>], Retiring(now + Retain)}
    <3> HIDE DEF Retiring
    <3> QED BY <1>1, <1>3 DEF RetireRows
  <2> QED
    BY <2>1 DEF Retiring
<1>4. CASE peers' = PruneRows(n)
  <2>1. peers'[l][<<k, x>>] \in {peers[l][<<k, x>>], NoRow}
    BY <1>1, <1>4 DEF PruneRows
  <2> QED
    BY <2>1 DEF NoRow
<1> QED
  BY <1>2, <1>3, <1>4

LEMMA PeerActiveProtected ==
    ASSUME NEW n \in Nodes
    PROVE  /\ PeerActive(n) \subseteq Protected(n)
           /\ \A m \in Nodes \ {n} : ActiveOf(n, m) \subseteq PeerActive(n)
BY DEF PeerActive, ActiveOf, Protected

\* A node that does not move.
LEMMA StillGuarded ==
    ASSUME NEW l \in Nodes, NodeGuard(l), Crossing,
           pc'[l] = pc[l], frame'[l] = frame[l], guard'[l] = guard[l],
           PeerActive(l)' \subseteq PeerActive(l)
    PROVE  NodeGuard(l)'
<1> SUFFICES ASSUME ~crossed'[l] PROVE GuardFollows(l)'
  BY DEF NodeGuard
<1>1. /\ ~crossed[l] \/ ~Up(l)
      /\ \E t \in Threads : ~Rebuilding(l, t)'
  BY CrossingMeans
<1>2. CASE ~crossed[l]
  BY <1>1, <1>2 DEF NodeGuard, GuardFollows
<1>3. CASE ~Up(l)
  BY <1>1, <1>3 DEF NodeGuard, GuardFollows, Up
<1> QED
  BY <1>1, <1>2, <1>3

\* main of a node that runs moves.
LEMMA MainGuarded ==
    ASSUME NEW n \in Nodes, NodeGuard(n), Crossing,
           pc[n]["main"] # "down", pc'[n]["main"] # "down",
           \/ pc'[n]["mqtt"] = pc[n]["mqtt"]
           \/ pc[n]["mqtt"] = "off" /\ pc'[n]["mqtt"] = "idle",
           frame'[n]["mqtt"] = frame[n]["mqtt"],
           \/ guard'[n] = guard[n]
           \/ pc[n]["main"] = "assign" /\ guard'[n] = frame[n]["main"].list,
           PeerActive(n)' \subseteq PeerActive(n),
           pc'[n]["main"] = "assign"
             => PeerActive(n) \subseteq frame'[n]["main"].list
    PROVE  NodeGuard(n)'
<1> SUFFICES ASSUME ~crossed'[n] PROVE GuardFollows(n)'
  BY DEF NodeGuard
<1>1. GuardFollows(n) /\ \E t \in Threads : ~Rebuilding(n, t)'
  BY CrossingMeans DEF NodeGuard, Up
<1> QED
  BY <1>1 DEF GuardFollows

\* The handler of a node moves and has still to assign the guard.
LEMMA HandlerGuarded ==
    ASSUME NEW n \in Nodes, NodeGuard(n), Crossing,
           pc[n]["mqtt"] # "down", pc'[n]["main"] = pc[n]["main"],
           pc'[n]["mqtt"] \in {"reclaim", "retire", "build", "assign"},
           pc'[n]["mqtt"] = "assign"
             => PeerActive(n)' \subseteq frame'[n]["mqtt"].list
    PROVE  NodeGuard(n)'
<1>1. pc'[n]["main"] # "down" /\ Up(n)
  BY DEF NodeGuard, Up
<1> SUFFICES ASSUME ~crossed'[n] PROVE GuardFollows(n)'
  BY <1>1 DEF NodeGuard
<1>2. \E t \in Threads : ~Rebuilding(n, t)'
  BY CrossingMeans
<1> QED
  BY <1>2 DEF GuardFollows

\* What main moves, and what the handler moves.
MainMove(n) ==
    \/ ReadOwnIp(n) \/ Register(n) \/ OwnUpsert(n) \/ OwnRetire(n)
    \/ Announce(n) \/ Prune(n)
    \/ BuildGuard(n, "main") \/ AssignGuard(n, "main")
HandlerMove(n) ==
    \/ \E m \in Nodes : Claim(n, m)
    \/ Reclaim(n) \/ RetirePeer(n)
    \/ BuildGuard(n, "mqtt") \/ AssignGuard(n, "mqtt")
WorldMove(n) == Move(n) \/ Crash(n) \/ Start(n) \/ Tick

LEMMA MainMoves ==
    ASSUME PeerInv, NEW n \in Nodes, MainMove(n)
    PROVE  /\ pc[n]["main"] # "down"
           /\ \A l \in Nodes \ {n} : pc'[l] = pc[l] /\ frame'[l] = frame[l]
           /\ \/ pc'[n]["mqtt"] = pc[n]["mqtt"]
              \/ pc[n]["mqtt"] = "off" /\ pc'[n]["mqtt"] = "idle"
           /\ frame'[n]["mqtt"] = frame[n]["mqtt"]
           /\ pc'[n]["main"] # "down"
           /\ pc'[n]["main"] = "assign" => BuildGuard(n, "main")
<1> USE DEF PeerInv, daemon, Threads, MainMove
<1>1. /\ pc \in [Nodes -> [Threads -> Label]]
      /\ frame \in [Nodes -> [Threads -> Frames]]
  BY DEF TypeOK, Frames
<1>2. \/ Prune(n) /\ pc' = pc /\ frame' = frame
      \/ Resume(n)
      \/ \E label \in Label \ {"down"} :
           /\ Goto(n, "main", label)
           /\ frame' = frame \/ \E new : frame' = [frame EXCEPT ![n]["main"] = new]
           /\ label = "assign" => BuildGuard(n, "main")
  BY DEF ReadOwnIp, Register, OwnUpsert, OwnRetire, Announce, Prune,
         BuildGuard, AssignGuard, Label, Fetch
<1>3. pc[n]["main"] # "down" /\ (Prune(n) => pc[n]["main"] = "loop")
  BY DEF ReadOwnIp, Register, OwnUpsert, OwnRetire, Announce, Prune,
         BuildGuard, AssignGuard
<1>4. CASE pc' = pc /\ frame' = frame /\ Prune(n)
  BY <1>1, <1>3, <1>4
<1>5. CASE Resume(n)
  BY <1>1, <1>3, <1>5 DEF Resume
<1>6. ASSUME NEW label \in Label \ {"down"}, Goto(n, "main", label),
             frame' = frame \/ \E new : frame' = [frame EXCEPT ![n]["main"] = new]
      PROVE  /\ \A l \in Nodes \ {n} : pc'[l] = pc[l] /\ frame'[l] = frame[l]
             /\ pc'[n]["mqtt"] = pc[n]["mqtt"]
             /\ frame'[n]["mqtt"] = frame[n]["mqtt"]
             /\ pc'[n]["main"] = label
  BY <1>1, <1>6 DEF Goto
<1> QED
  BY <1>2, <1>3, <1>4, <1>5, <1>6

LEMMA HandlerMoves ==
    ASSUME PeerInv, NEW n \in Nodes, HandlerMove(n)
    PROVE  /\ \A l \in Nodes \ {n} : pc'[l] = pc[l] /\ frame'[l] = frame[l]
           /\ pc'[n]["main"] = pc[n]["main"] /\ frame'[n]["main"] = frame[n]["main"]
           /\ pc'[n]["mqtt"] \in {"reclaim", "retire", "build", "assign", "idle"}
           /\ pc'[n]["mqtt"] = "assign" => BuildGuard(n, "mqtt")
           /\ pc'[n]["mqtt"] = "idle" => AssignGuard(n, "mqtt")
<1> USE DEF PeerInv, Threads, HandlerMove
<1>1. /\ pc \in [Nodes -> [Threads -> Label]]
      /\ frame \in [Nodes -> [Threads -> Frames]]
  BY DEF TypeOK, Frames
<1>2. \E label \in {"reclaim", "retire", "build", "assign", "idle"} :
         /\ Goto(n, "mqtt", label)
         /\ frame' = frame \/ \E new : frame' = [frame EXCEPT ![n]["mqtt"] = new]
         /\ label = "assign" => BuildGuard(n, "mqtt")
         /\ label = "idle" => AssignGuard(n, "mqtt")
  BY DEF Claim, Reclaim, RetirePeer, BuildGuard, AssignGuard, Fetch
<1> QED
  BY <1>1, <1>2 DEF Goto

LEMMA MainStepGuarded ==
    ASSUME PeerInv, GuardInv, NEW n \in Nodes,
           MainMove(n)
    PROVE  GuardInv'
<1> USE DEF PeerInv, daemon, Threads, MainMove
<1>1. /\ pc \in [Nodes -> [Threads -> Label]]
      /\ frame \in [Nodes -> [Threads -> Frames]]
      /\ guard \in [Nodes -> SUBSET IPs]
  BY DEF TypeOK, Frames
<1>2. Crossing
  BY DEF ReadOwnIp, Register, OwnUpsert, OwnRetire, Announce, Prune,
         BuildGuard, AssignGuard
<1>3. \A l \in Nodes : PeerActive(l)' \subseteq PeerActive(l)
  <2>1. \E ip : \/ peers' = peers
                \/ peers' = Upsert(n, n, ip)
                \/ peers' = RetireRows(n, ip)
                \/ peers' = PruneRows(n)
    BY DEF ReadOwnIp, Register, OwnUpsert, OwnRetire, Announce, Prune,
           BuildGuard, AssignGuard
  <2> QED
    BY <2>1, StatementsAddNone
<1>5. /\ pc[n]["main"] # "down"
      /\ \A l \in Nodes \ {n} : pc'[l] = pc[l] /\ frame'[l] = frame[l]
      /\ \/ pc'[n]["mqtt"] = pc[n]["mqtt"]
         \/ pc[n]["mqtt"] = "off" /\ pc'[n]["mqtt"] = "idle"
      /\ frame'[n]["mqtt"] = frame[n]["mqtt"]
      /\ pc'[n]["main"] # "down"
      /\ pc'[n]["main"] = "assign" => BuildGuard(n, "main")
  BY MainMoves
<1>6. /\ \A l \in Nodes \ {n} : guard'[l] = guard[l]
      /\ \/ guard'[n] = guard[n]
         \/ pc[n]["main"] = "assign" /\ guard'[n] = frame[n]["main"].list
  BY <1>1 DEF ReadOwnIp, Register, OwnUpsert, OwnRetire, Announce, Prune,
         BuildGuard, AssignGuard
<1>7. BuildGuard(n, "main") => PeerActive(n) \subseteq frame'[n]["main"].list
  <2>1. BuildGuard(n, "main")
          => frame'[n]["main"].list = Protected(n) \cup {addr[n]}
    BY <1>1 DEF BuildGuard, Fetch, Work
  <2> QED
    BY <2>1, PeerActiveProtected
<1>8. NodeGuard(n)'
  BY <1>2, <1>3, <1>5, <1>6, <1>7, MainGuarded DEF GuardInv
<1>9. \A l \in Nodes \ {n} : NodeGuard(l)'
  BY <1>2, <1>3, <1>5, <1>6, StillGuarded DEF GuardInv
<1> QED
  BY <1>8, <1>9 DEF GuardInv

LEMMA HandlerStepGuarded ==
    ASSUME PeerInv, GuardInv, NEW n \in Nodes,
           HandlerMove(n)
    PROVE  GuardInv'
<1> USE DEF PeerInv, Threads, HandlerMove
<1>1. /\ pc \in [Nodes -> [Threads -> Label]]
      /\ frame \in [Nodes -> [Threads -> Frames]]
      /\ guard \in [Nodes -> SUBSET IPs]
      /\ peers \in [Nodes -> [Rows -> Row]]
  BY DEF TypeOK, Frames
<1>2. Crossing /\ pc[n]["mqtt"] # "down"
  BY DEF Claim, Reclaim, RetirePeer, BuildGuard, AssignGuard
<1>4. /\ \A l \in Nodes \ {n} : pc'[l] = pc[l] /\ frame'[l] = frame[l]
      /\ pc'[n]["main"] = pc[n]["main"] /\ frame'[n]["main"] = frame[n]["main"]
      /\ pc'[n]["mqtt"] \in {"reclaim", "retire", "build", "assign", "idle"}
      /\ pc'[n]["mqtt"] = "assign" => BuildGuard(n, "mqtt")
      /\ pc'[n]["mqtt"] = "idle" => AssignGuard(n, "mqtt")
  BY HandlerMoves
<1>5. \A l \in Nodes \ {n} : peers'[l] = peers[l] /\ guard'[l] = guard[l]
  BY <1>1 DEF Claim, Reclaim, RetirePeer, BuildGuard, AssignGuard, Upsert,
              CancelRows, RetireRows
<1>6. \A l \in Nodes \ {n} : PeerActive(l)' = PeerActive(l)
  BY <1>5 DEF PeerActive
<1>7. \A l \in Nodes \ {n} : NodeGuard(l)'
  BY <1>2, <1>4, <1>5, <1>6, StillGuarded DEF GuardInv
<1>8. CASE ~AssignGuard(n, "mqtt")
  <2>1. BuildGuard(n, "mqtt") => PeerActive(n)' \subseteq frame'[n]["mqtt"].list
    <3>1. BuildGuard(n, "mqtt")
            => /\ frame'[n]["mqtt"].list = Protected(n) \cup {addr[n]}
               /\ peers' = peers
      BY <1>1 DEF BuildGuard, Fetch, Work
    <3> QED
      BY <3>1, PeerActiveProtected DEF PeerActive
  <2>2. NodeGuard(n)'
    BY <1>2, <1>4, <1>8, <2>1, HandlerGuarded DEF GuardInv
  <2> QED
    BY <1>7, <2>2 DEF GuardInv
<1>9. CASE AssignGuard(n, "mqtt")
  <2>1. /\ pc[n]["mqtt"] = "assign" /\ guard'[n] = frame[n]["mqtt"].list
        /\ pc'[n]["mqtt"] = "idle" /\ peers' = peers
    BY <1>1, <1>9 DEF AssignGuard, Goto
  <2>2. pc[n]["main"] # "down"
    BY <1>2 DEF GuardInv, NodeGuard
  <2>3. ASSUME ~crossed'[n] PROVE GuardFollows(n)'
    <3>1. GuardFollows(n) /\ \E t \in Threads : ~Rebuilding(n, t)'
      BY <1>2, <2>2, <2>3, CrossingMeans DEF GuardInv, NodeGuard, Up
    <3>2. PeerActive(n)' = PeerActive(n)
      BY <2>1 DEF PeerActive
    <3>3. pc'[n]["main"] # "assign"
      BY <1>4, <2>1, <3>1 DEF GuardFollows, Rebuilding
    <3> QED
      BY <2>1, <3>1, <3>2, <3>3 DEF GuardFollows
  <2>4. NodeGuard(n)'
    BY <1>4, <2>1, <2>2, <2>3 DEF NodeGuard
  <2> QED
    BY <1>7, <2>4 DEF GuardInv
<1> QED
  BY <1>8, <1>9

LEMMA WorldGuarded ==
    ASSUME PeerInv, GuardInv, NEW n \in Nodes,
           WorldMove(n)
    PROVE  GuardInv'
<1> USE DEF PeerInv, daemon, world, Threads, WorldMove
<1>1. /\ pc \in [Nodes -> [Threads -> Label]]
      /\ frame \in [Nodes -> [Threads -> Frames]]
      /\ guard \in [Nodes -> SUBSET IPs]
  BY DEF TypeOK, Frames
<1>2. Crossing /\ peers' = peers
  BY DEF Move, Crash, Start, Tick
<1>3. \A l \in Nodes : PeerActive(l)' = PeerActive(l)
  BY <1>2 DEF PeerActive
<1>4. CASE Move(n) \/ Tick
  <2>1. pc' = pc /\ frame' = frame /\ guard' = guard
    BY <1>4 DEF Move, Tick
  <2> QED
    BY <1>2, <1>3, <2>1, StillGuarded DEF GuardInv
<1>5. CASE Crash(n)
  <2>1. /\ \A l \in Nodes \ {n} : pc'[l] = pc[l] /\ frame'[l] = frame[l]
                                  /\ guard'[l] = guard[l]
        /\ \A t \in Threads : pc'[n][t] = "down"
    BY <1>1, <1>5 DEF Crash
  <2>2. NodeGuard(n)'
    BY <2>1 DEF NodeGuard, GuardFollows, Rebuilding
  <2>3. \A l \in Nodes \ {n} : NodeGuard(l)'
    BY <1>2, <1>3, <2>1, StillGuarded DEF GuardInv
  <2> QED
    BY <2>2, <2>3 DEF GuardInv
<1>6. CASE Start(n)
  <2>1. /\ \A l \in Nodes \ {n} : pc'[l] = pc[l] /\ guard'[l] = guard[l]
        /\ frame' = frame
        /\ pc'[n]["main"] = "start" /\ pc'[n]["mqtt"] = "off"
        /\ guard'[n] = Protected(n) \cup {addr[n]}
    BY <1>1, <1>6 DEF Start
  <2>2. NodeGuard(n)'
    BY <1>3, <2>1, PeerActiveProtected DEF NodeGuard, GuardFollows, Rebuilding
  <2>3. \A l \in Nodes \ {n} : NodeGuard(l)'
    BY <1>2, <1>3, <2>1, StillGuarded DEF GuardInv
  <2> QED
    BY <2>2, <2>3 DEF GuardInv
<1> QED
  BY <1>4, <1>5, <1>6

LEMMA NextMoves ==
    ASSUME Next
    PROVE  \E n \in Nodes : MainMove(n) \/ HandlerMove(n) \/ WorldMove(n)
BY PeerAssumption DEF Next, MainMove, HandlerMove, WorldMove, Threads

LEMMA GuardStep ==
    ASSUME PeerInv, GuardInv, [Next]_vars
    PROVE  GuardInv'
<1>1. CASE UNCHANGED vars
  BY <1>1 DEF vars, world, daemon, history, GuardInv, NodeGuard, GuardFollows,
              PeerActive, Rebuilding
<1>2. CASE Next
  BY <1>2, NextMoves, MainStepGuarded, HandlerStepGuarded, WorldGuarded
<1> QED
  BY <1>1, <1>2

LEMMA AlwaysGuard == Spec => []GuardInv
<1>1. Init => GuardInv
  BY DEF Init, GuardInv, NodeGuard, GuardFollows, Rebuilding, Threads
<1>2. PeerInv /\ GuardInv /\ [Next]_vars => GuardInv'
  BY GuardStep
<1> QED
  BY <1>1, <1>2, AlwaysInv, PTL DEF Spec

\* The guard in memory exempts the other nodes' active addresses once the handler
\* is done, unless two rebuilds crossed (agent.py:168).
THEOREM GuardCoversPeersHolds == Spec => []GuardCoversPeers
<1>1. GuardInv => GuardCoversPeers
  BY PeerActiveProtected DEF GuardInv, NodeGuard, GuardFollows, GuardCoversPeers
<1> QED
  BY <1>1, AlwaysGuard, PTL

-----------------------------------------------------------------------------
(* OneOwnAddress.  What a node tells and enters for itself are addresses   *)
(* it had, so no other node's event touches its rows as long as no other   *)
(* node had them.                                                          *)

Act(n, m) == {ip \in IPs : peers[n][<<m, ip>>].status = "active"}

LEMMA ActIsActive ==
    ASSUME NEW n \in Nodes, NEW m \in Nodes
    PROVE  ActiveOf(n, m) = Act(n, m)
BY DEF Act, ActiveOf

\* What the statements do to the active rows.
LEMMA UpsertAct ==
    ASSUME TypeOK, NEW n \in Nodes, NEW m \in Nodes, NEW ip \in IPs,
           peers' = Upsert(n, m, ip), NEW l \in Nodes, NEW k \in Nodes
    PROVE  Act(l, k)' = IF l = n /\ k = m THEN Act(l, k) \cup {ip} ELSE Act(l, k)
<1>1. peers \in [Nodes -> [Rows -> Row]] /\ \A x \in IPs : <<k, x>> \in Rows
  BY DEF TypeOK, Rows
<1>2. ASSUME NEW x \in IPs
      PROVE  peers'[l][<<k, x>>] =
                IF l = n /\ k = m /\ x = ip THEN Active ELSE peers[l][<<k, x>>]
  BY <1>1 DEF Upsert
<1> QED
  BY <1>2 DEF Act, Active

LEMMA RetireAct ==
    ASSUME TypeOK, NEW n \in Nodes, NEW ip,
           peers' = RetireRows(n, ip), NEW l \in Nodes, NEW k \in Nodes
    PROVE  Act(l, k)' = IF l = n THEN Act(l, k) \ {ip} ELSE Act(l, k)
<1>1. peers \in [Nodes -> [Rows -> Row]] /\ \A x \in IPs : <<k, x>> \in Rows
  BY DEF TypeOK, Rows
<1>2. ASSUME NEW x \in IPs
      PROVE  peers'[l][<<k, x>>] =
                IF l = n /\ x = ip /\ peers[l][<<k, x>>].status = "active"
                THEN Retiring(now + Retain) ELSE peers[l][<<k, x>>]
  <2> HIDE DEF Retiring
  <2> QED BY <1>1 DEF RetireRows
<1>3. Retiring(now + Retain).status = "retiring"
  BY DEF Retiring
<1> HIDE DEF Retiring
<1> QED
  BY <1>2, <1>3 DEF Act

LEMMA CancelAct ==
    ASSUME TypeOK, NEW n \in Nodes, NEW ip,
           peers' = CancelRows(n, ip), NEW l \in Nodes, NEW k \in Nodes
    PROVE  /\ l # n \/ peers[l][<<k, ip>>].status = "none" => Act(l, k)' = Act(l, k)
           /\ Act(l, k)' \subseteq Act(l, k) \cup {ip}
<1>1. peers \in [Nodes -> [Rows -> Row]] /\ \A x \in IPs : <<k, x>> \in Rows
  BY DEF TypeOK, Rows
<1>2. ASSUME NEW x \in IPs
      PROVE  peers'[l][<<k, x>>] =
                IF l = n /\ x = ip /\ peers[l][<<k, x>>].status = "retiring"
                THEN Active ELSE peers[l][<<k, x>>]
  BY <1>1 DEF CancelRows
<1> QED
  BY <1>2 DEF Act, Active

LEMMA PruneAct ==
    ASSUME TypeOK, NEW n \in Nodes, peers' = PruneRows(n),
           NEW l \in Nodes, NEW k \in Nodes
    PROVE  Act(l, k)' = Act(l, k)
<1>1. peers \in [Nodes -> [Rows -> Row]] /\ \A x \in IPs : <<k, x>> \in Rows
  BY DEF TypeOK, Rows
<1>2. ASSUME NEW x \in IPs
      PROVE  \/ peers'[l][<<k, x>>] = peers[l][<<k, x>>]
             \/ peers[l][<<k, x>>].status = "retiring" /\ peers'[l][<<k, x>>] = NoRow
  BY <1>1 DEF PruneRows
<1> QED
  BY <1>2 DEF Act, NoRow

\* A row is entered by an upsert alone.
LEMMA UpsertEnters ==
    ASSUME TypeOK, NEW n \in Nodes, NEW m \in Nodes, NEW ip, peers' = Upsert(n, m, ip),
           NEW l \in Nodes, NEW k \in Nodes, NEW x \in IPs,
           peers'[l][<<k, x>>].status # "none"
    PROVE  peers[l][<<k, x>>].status # "none" \/ (k = m /\ x = ip)
<1>1. peers \in [Nodes -> [Rows -> Row]] /\ <<k, x>> \in Rows
  BY DEF TypeOK, Rows
<1> QED
  BY <1>1 DEF Upsert

LEMMA OthersEnterNone ==
    ASSUME TypeOK, NEW n \in Nodes, NEW ip,
           \/ peers' = peers
           \/ peers' = RetireRows(n, ip)
           \/ peers' = CancelRows(n, ip)
           \/ peers' = PruneRows(n),
           NEW l \in Nodes, NEW k \in Nodes, NEW x \in IPs,
           peers'[l][<<k, x>>].status # "none"
    PROVE  peers[l][<<k, x>>].status # "none"
<1>1. peers \in [Nodes -> [Rows -> Row]] /\ <<k, x>> \in Rows
  BY DEF TypeOK, Rows
<1>2. CASE peers' = RetireRows(n, ip)
  <2>1. \/ peers'[l][<<k, x>>] = peers[l][<<k, x>>]
        \/ peers[l][<<k, x>>].status = "active"
    <3> HIDE DEF Retiring
    <3> QED BY <1>1, <1>2 DEF RetireRows
  <2> QED
    BY <2>1
<1>3. CASE peers' = CancelRows(n, ip)
  <2>1. \/ peers'[l][<<k, x>>] = peers[l][<<k, x>>]
        \/ peers[l][<<k, x>>].status = "retiring"
    BY <1>1, <1>3 DEF CancelRows
  <2> QED
    BY <2>1
<1>4. CASE peers' = PruneRows(n)
  <2>1. peers'[l][<<k, x>>] \in {peers[l][<<k, x>>], NoRow}
    BY <1>1, <1>4 DEF PruneRows
  <2> QED
    BY <2>1 DEF NoRow
<1> QED
  BY <1>2, <1>3, <1>4

LocalsBeen(n) ==
    /\ addr[n] \in been[n]
    /\ ~AtRest(n) => frame[n]["main"].to \in been[n]
    /\ frame[n]["main"].from # NoIP => frame[n]["main"].from \in been[n]
    /\ Handling(n) => /\ frame[n]["mqtt"].from \in been[frame[n]["mqtt"].node]
                      /\ frame[n]["mqtt"].to \in been[frame[n]["mqtt"].node]
RowsBeen ==
    \A l, k \in Nodes, x \in IPs :
        peers[l][<<k, x>>].status # "none" => x \in been[k]
WireBeen ==
    \A m, n \in Nodes : \A i \in DOMAIN wire[m][n] :
        wire[m][n][i].old \in been[m] /\ wire[m][n][i].new \in been[m]

\* Whatever anybody keeps, works on or sends of a node is an address it had.
BeenInv == RowsBeen /\ WireBeen /\ \A n \in Nodes : LocalsBeen(n)

LEMMA MainBeen ==
    ASSUME PeerInv, BeenInv, NEW n \in Nodes, MainMove(n)
    PROVE  BeenInv'
<1> USE DEF PeerInv, daemon, world, Threads
<1>1. /\ frame \in [Nodes -> [Threads -> Frames]]
      /\ pc \in [Nodes -> [Threads -> Label]]
      /\ addr' = addr /\ been' = been /\ addr[n] \in IPs
  BY DEF TypeOK, Frames, MainMove, ReadOwnIp, Register, OwnUpsert, OwnRetire,
         Announce, Prune, BuildGuard, AssignGuard
<1>2. MainChange(n) /\ LocalsBeen(n)
  BY DEF ChangesOnly, BeenInv
<1>3. /\ \A l \in Nodes \ {n} : pc'[l] = pc[l] /\ frame'[l] = frame[l]
      /\ \/ pc'[n]["mqtt"] = pc[n]["mqtt"]
         \/ pc[n]["mqtt"] = "off" /\ pc'[n]["mqtt"] = "idle"
      /\ frame'[n]["mqtt"] = frame[n]["mqtt"]
  BY MainMoves
<1>4. /\ ~AtRest(n)' => frame'[n]["main"].to \in been[n]
      /\ frame'[n]["main"].from # NoIP => frame'[n]["main"].from \in been[n]
  <2>1. CASE Resume(n)
    <3>1. pc'[n]["main"] = "loop" /\ frame'[n]["main"].from = NoIP
      BY <1>1, <2>1 DEF Resume, Idle, Work
    <3> QED
      BY <3>1 DEF AtRest
  <2>2. CASE ReadOwnIp(n) /\ ~Resume(n)
    <3>1. PICK from \in IPs \cup {NoIP} :
            /\ from = NoIP \/ from \in ActiveOf(n, n)
            /\ frame' = [frame EXCEPT ![n]["main"] = Work(from, addr[n], NoIP, {})]
      BY <2>2 DEF ReadOwnIp, ActiveOf
    <3>2. frame'[n]["main"].to = addr[n] /\ frame'[n]["main"].from = from
      BY <1>1, <3>1 DEF Work
    <3>3. from \in ActiveOf(n, n) => from \in been[n]
      BY ActIsActive DEF Act, BeenInv, RowsBeen
    <3> QED
      BY <1>2, <3>1, <3>2, <3>3 DEF LocalsBeen
  <2>3. CASE Register(n) \/ OwnUpsert(n) \/ OwnRetire(n) \/ Prune(n)
    <3>1. /\ frame' = frame
          /\ ~AtRest(n)' => ~AtRest(n)
      BY <1>1, <2>3 DEF Register, OwnUpsert, OwnRetire, Prune, AtRest
    <3> QED
      BY <1>2, <3>1 DEF LocalsBeen
  <2>4. CASE (BuildGuard(n, "main") \/ AssignGuard(n, "main")) /\ ~Resume(n)
    <3>1. /\ frame'[n]["main"].to = frame[n]["main"].to
          /\ frame'[n]["main"].from = frame[n]["main"].from
      BY <1>1, <2>4 DEF BuildGuard, AssignGuard, Fetch, Work
    <3>2. ~AtRest(n)
      BY <2>4 DEF BuildGuard, AssignGuard, AtRest
    <3> QED
      BY <1>2, <3>1, <3>2 DEF LocalsBeen
  <2> QED
    BY <2>1, <2>2, <2>3, <2>4 DEF MainMove, Announce
<1>5. \A l \in Nodes : LocalsBeen(l)'
  BY <1>1, <1>2, <1>3, <1>4 DEF BeenInv, LocalsBeen, AtRest, Handling
<1>6. RowsBeen'
  <2> SUFFICES ASSUME NEW l \in Nodes, NEW k \in Nodes, NEW x \in IPs,
                      peers'[l][<<k, x>>].status # "none"
               PROVE  x \in been[k]
    BY <1>1 DEF RowsBeen
  <2>1. CASE Register(n) \/ OwnUpsert(n)
    <3>1. /\ frame[n]["main"].to \in been[n]
          /\ peers' = Upsert(n, n, frame[n]["main"].to)
      BY <1>2, <2>1 DEF Register, OwnUpsert, LocalsBeen, AtRest
    <3>2. peers[l][<<k, x>>].status # "none" \/ (k = n /\ x = frame[n]["main"].to)
      BY <3>1, UpsertEnters
    <3> QED
      BY <3>1, <3>2 DEF BeenInv, RowsBeen
  <2>2. CASE ~Register(n) /\ ~OwnUpsert(n)
    <3>1. \E ip : \/ peers' = peers
                  \/ peers' = RetireRows(n, ip)
                  \/ peers' = PruneRows(n)
      BY <2>2 DEF MainMove, ReadOwnIp, OwnRetire, Announce, Prune,
                  BuildGuard, AssignGuard
    <3>2. peers[l][<<k, x>>].status # "none"
      BY <3>1, OthersEnterNone
    <3> QED
      BY <3>2 DEF BeenInv, RowsBeen
  <2> QED
    BY <2>1, <2>2
<1>7. WireBeen'
  <2>1. CASE ~Announce(n)
    <3>1. wire' = wire
      BY <2>1 DEF MainMove, ReadOwnIp, Register, OwnUpsert, OwnRetire, Prune,
                  BuildGuard, AssignGuard
    <3> QED
      BY <1>1, <3>1 DEF BeenInv, WireBeen
  <2>2. CASE Announce(n)
    <3> DEFINE event == [old |-> frame[n]["main"].from, new |-> frame[n]["main"].to]
    <3>1. PICK lucky \in SUBSET (Nodes \ {n}) :
               wire' = [wire EXCEPT ![n] = [k \in Nodes |->
                 IF k \in lucky THEN Append(wire[n][k], event) ELSE wire[n][k]]]
      BY <2>2, Zenon DEF Announce
    <3>2. event.old \in been[n] /\ event.new \in been[n]
      BY <1>2, <2>2 DEF Announce, MainChange, AtRest, LocalsBeen
    <3> HIDE DEF event
    <3>3. ASSUME NEW m \in Nodes, NEW k \in Nodes, NEW i \in DOMAIN wire'[m][k]
          PROVE  wire'[m][k][i].old \in been[m] /\ wire'[m][k][i].new \in been[m]
      <4>1. wire[m][k] \in Seq(Event)
        BY DEF TypeOK
      <4>2. CASE m = n /\ k \in lucky
        <5>1. wire'[m][k] = Append(wire[m][k], event)
          BY <3>1, <4>2 DEF TypeOK
        <5>2. \/ wire'[m][k][i] = event
              \/ /\ i \in DOMAIN wire[m][k]
                 /\ wire'[m][k][i] = wire[m][k][i]
          BY <4>1, <5>1
        <5> QED
          BY <3>2, <4>2, <5>2 DEF BeenInv, WireBeen
      <4>3. CASE ~(m = n /\ k \in lucky)
        <5>1. wire'[m][k] = wire[m][k]
          BY <3>1, <4>3 DEF TypeOK
        <5> QED
          BY <5>1 DEF BeenInv, WireBeen
      <4> QED
        BY <4>2, <4>3
    <3> QED
      BY <1>1, <3>3 DEF WireBeen
  <2> QED
    BY <2>1, <2>2
<1> QED
  BY <1>5, <1>6, <1>7 DEF BeenInv

\* What an event says.
LEMMA ClaimedEvent ==
    ASSUME PeerInv, NEW n \in Nodes, NEW m \in Nodes, Claim(n, m)
    PROVE  /\ wire[m][n] \in Seq(Event) /\ wire[m][n] # <<>>
           /\ Len(wire[m][n]) > 0 /\ m # n
           /\ wire[m][n][1] \in Event
           /\ wire' = [wire EXCEPT ![m][n] = Tail(wire[m][n])]
           /\ peers' = Upsert(n, m, wire[m][n][1].new)
           /\ frame'[n]["mqtt"].from = wire[m][n][1].old
           /\ frame'[n]["mqtt"].to = wire[m][n][1].new
           /\ frame'[n]["mqtt"].node = m
<1> USE DEF PeerInv, Threads
<1>1. wire[m][n] \in Seq(Event) /\ wire[m][n] # <<>>
  BY DEF Claim, TypeOK
<1>2. Head(wire[m][n]) = wire[m][n][1] /\ Len(wire[m][n]) > 0 /\ wire[m][n][1] \in Event
  BY <1>1, HeadTailProperties
<1>3. m # n
  BY <1>1, <1>2 DEF ChangesOnly, WireChanges
<1>4. /\ peers' = Upsert(n, m, wire[m][n][1].new)
      /\ frame' = [frame EXCEPT ![n]["mqtt"] =
                      Work(wire[m][n][1].old, wire[m][n][1].new, m, {})]
      /\ wire' = [wire EXCEPT ![m][n] = Tail(wire[m][n])]
  BY <1>2 DEF Claim
<1>5. frame'[n]["mqtt"] = Work(wire[m][n][1].old, wire[m][n][1].new, m, {})
  BY <1>4 DEF TypeOK
<1> QED
  BY <1>1, <1>2, <1>3, <1>4, <1>5 DEF Work

LEMMA TailAt ==
    ASSUME NEW S, NEW s \in Seq(S), s # <<>>, NEW i \in DOMAIN Tail(s)
    PROVE  i + 1 \in DOMAIN s /\ Tail(s)[i] = s[i + 1]
OBVIOUS

LEMMA HandlerBeen ==
    ASSUME PeerInv, BeenInv, NEW n \in Nodes, HandlerMove(n)
    PROVE  BeenInv'
<1> USE DEF PeerInv, world, Threads
<1>1. addr' = addr /\ been' = been
  BY DEF HandlerMove, Claim, Reclaim, RetirePeer, BuildGuard, AssignGuard
<1>2. /\ \A l \in Nodes \ {n} : pc'[l] = pc[l] /\ frame'[l] = frame[l]
      /\ pc'[n]["main"] = pc[n]["main"] /\ frame'[n]["main"] = frame[n]["main"]
      /\ pc'[n]["mqtt"] \in {"reclaim", "retire", "build", "assign", "idle"}
  BY HandlerMoves
<1>3. CASE \E m \in Nodes : Claim(n, m)
  <2>1. PICK m \in Nodes : Claim(n, m)
    BY <1>3
  <2> DEFINE event == wire[m][n][1]
  <2>2. /\ wire[m][n] \in Seq(Event) /\ wire[m][n] # <<>>
        /\ wire' = [wire EXCEPT ![m][n] = Tail(wire[m][n])]
        /\ peers' = Upsert(n, m, event.new)
        /\ frame'[n]["mqtt"].from = event.old
        /\ frame'[n]["mqtt"].to = event.new
        /\ frame'[n]["mqtt"].node = m
    BY <2>1, ClaimedEvent
  <2>3. event.old \in been[m] /\ event.new \in been[m]
    BY <2>2 DEF BeenInv, WireBeen
  <2> HIDE DEF event
  <2>4. \A l \in Nodes : LocalsBeen(l)'
    BY <1>1, <1>2, <2>2, <2>3 DEF BeenInv, LocalsBeen, AtRest, Handling
  <2>5. RowsBeen'
    <3> SUFFICES ASSUME NEW l \in Nodes, NEW k \in Nodes, NEW x \in IPs,
                        peers'[l][<<k, x>>].status # "none"
                 PROVE  x \in been[k]
      BY <1>1 DEF RowsBeen
    <3>1. peers[l][<<k, x>>].status # "none" \/ (k = m /\ x = event.new)
      BY <2>2, UpsertEnters
    <3> QED
      BY <2>3, <3>1 DEF BeenInv, RowsBeen
  <2>6. WireBeen'
    <3> SUFFICES ASSUME NEW l \in Nodes, NEW k \in Nodes, NEW i \in DOMAIN wire'[l][k]
                 PROVE  wire'[l][k][i].old \in been[l] /\ wire'[l][k][i].new \in been[l]
      BY <1>1 DEF WireBeen
    <3>1. CASE l = m /\ k = n
      <4>1. wire'[m][n] = Tail(wire[m][n]) /\ i \in DOMAIN wire'[m][n]
        BY <2>2, <3>1 DEF TypeOK
      <4>2. i + 1 \in DOMAIN wire[m][n] /\ wire'[m][n][i] = wire[m][n][i + 1]
        BY <2>2, <4>1, TailAt
      <4> QED
        BY <3>1, <4>2 DEF BeenInv, WireBeen
    <3>2. CASE ~(l = m /\ k = n)
      <4>1. wire'[l][k] = wire[l][k]
        BY <2>2, <3>2 DEF TypeOK
      <4> QED
        BY <4>1 DEF BeenInv, WireBeen
    <3> QED
      BY <3>1, <3>2
  <2> QED
    BY <2>4, <2>5, <2>6 DEF BeenInv
<1>4. CASE ~\E m \in Nodes : Claim(n, m)
  <2>1. /\ wire' = wire
        /\ \E ip : \/ peers' = peers \/ peers' = CancelRows(n, ip)
                   \/ peers' = RetireRows(n, ip)
        /\ Handling(n)' => Handling(n) /\ frame'[n]["mqtt"] = frame[n]["mqtt"]
    <3>1. CASE Reclaim(n) \/ RetirePeer(n)
      BY <3>1 DEF Reclaim, RetirePeer, Handling
    <3>2. CASE BuildGuard(n, "mqtt") \/ AssignGuard(n, "mqtt")
      <4>1. pc'[n]["mqtt"] \in {"assign", "idle"}
        BY <3>2 DEF BuildGuard, AssignGuard, Goto, TypeOK
      <4> QED
        BY <3>2, <4>1 DEF BuildGuard, AssignGuard, Handling
    <3> QED
      BY <1>4, <3>1, <3>2 DEF HandlerMove
  <2>2. \A l \in Nodes : LocalsBeen(l)'
    BY <1>1, <1>2, <2>1 DEF BeenInv, LocalsBeen, AtRest, Handling
  <2>3. RowsBeen'
    BY <1>1, <2>1, OthersEnterNone DEF BeenInv, RowsBeen
  <2>4. WireBeen'
    BY <1>1, <2>1 DEF BeenInv, WireBeen
  <2> QED
    BY <2>2, <2>3, <2>4 DEF BeenInv
<1> QED
  BY <1>3, <1>4

LEMMA WorldBeen ==
    ASSUME PeerInv, BeenInv, NEW n \in Nodes, WorldMove(n)
    PROVE  BeenInv'
<1> USE DEF PeerInv, world, daemon, Threads, WorldMove
<1>1. wire' = wire /\ peers' = peers
  BY DEF Move, Crash, Start, Tick
<1>2. \A l \in Nodes : been[l] \subseteq been'[l] /\ addr'[l] \in been'[l]
  <2>1. CASE Move(n)
    BY <2>1 DEF Move, TypeOK, BeenInv, LocalsBeen
  <2>2. CASE ~Move(n)
    BY <2>2 DEF Crash, Start, Tick, BeenInv, LocalsBeen
  <2> QED
    BY <2>1, <2>2
<1>3. RowsBeen' /\ WireBeen'
  BY <1>1, <1>2 DEF BeenInv, RowsBeen, WireBeen
<1>4. \A l \in Nodes :
        \/ /\ frame'[l] = frame[l]
           /\ AtRest(l) => AtRest(l)'
           /\ Handling(l)' => Handling(l)
        \/ pc'[l]["main"] = "down" /\ pc'[l]["mqtt"] = "down"
           /\ frame'[l]["main"].from = NoIP
  <2>1. CASE Move(n) \/ Tick
    BY <2>1 DEF Move, Tick, AtRest, Handling
  <2>2. CASE Crash(n)
    BY <2>2 DEF Crash, TypeOK, AtRest, Handling, Idle, Work
  <2>3. CASE Start(n)
    BY <2>3 DEF Start, Up, TypeOK, AtRest, Handling
  <2> QED
    BY <2>1, <2>2, <2>3
<1>5. \A l \in Nodes : Handling(l) => frame[l]["mqtt"].node \in Nodes
  BY HandledChange
<1>6. ASSUME NEW l \in Nodes PROVE LocalsBeen(l)'
  <2>1. LocalsBeen(l)
    BY DEF BeenInv
  <2>2. CASE /\ frame'[l] = frame[l]
             /\ AtRest(l) => AtRest(l)'
             /\ Handling(l)' => Handling(l)
    BY <1>2, <1>5, <2>1, <2>2 DEF LocalsBeen
  <2>3. CASE pc'[l]["main"] = "down" /\ pc'[l]["mqtt"] = "down"
             /\ frame'[l]["main"].from = NoIP
    BY <1>2, <2>3 DEF LocalsBeen, AtRest, Handling
  <2> QED
    BY <1>4, <2>2, <2>3
<1> QED
  BY <1>3, <1>6 DEF BeenInv

LEMMA BeenStep ==
    ASSUME PeerInv, BeenInv, [Next]_vars
    PROVE  BeenInv'
<1>1. CASE UNCHANGED vars
  BY <1>1 DEF vars, world, daemon, history, BeenInv, RowsBeen, WireBeen,
              LocalsBeen, AtRest, Handling
<1>2. CASE Next
  BY <1>2, NextMoves, MainBeen, HandlerBeen, WorldBeen
<1> QED
  BY <1>1, <1>2

\* A node that nobody else touches and that never died inside a change has
\* one active row of its own wherever main rests, and inside a change the
\* old address, the new one, or both.
OneOwn(n) == \E ip \in IPs : Act(n, n) = {ip}
OwnRows(n) ==
    /\ pc[n]["main"] \in {"down", "start", "loop", "register", "own_upsert",
                          "own_retire", "build", "assign", "announce"}
    /\ pc[n]["main"] \in {"down", "start"} => Act(n, n) = {} \/ OneOwn(n)
    /\ pc[n]["main"] = "loop" => OneOwn(n)
    /\ pc[n]["main"] = "register" => Act(n, n) = {}
    /\ pc[n]["main"] = "own_upsert" => Act(n, n) = {frame[n]["main"].from}
    /\ pc[n]["main"] = "own_retire"
         => Act(n, n) = {frame[n]["main"].from, frame[n]["main"].to}
    /\ pc[n]["main"] \in {"build", "assign", "announce"}
         => Act(n, n) = {frame[n]["main"].to}

NodeOwn(n) == Exclusive(n) /\ ~torn[n] => OwnRows(n)
OwnInv == \A n \in Nodes : NodeOwn(n)

\* Nothing of node l that matters here moves.
LEMMA OwnStays ==
    ASSUME NEW l \in Nodes, NodeOwn(l), been' = been, torn' = torn,
           pc'[l]["main"] = pc[l]["main"], frame'[l]["main"] = frame[l]["main"],
           Exclusive(l) => Act(l, l)' = Act(l, l)
    PROVE  NodeOwn(l)'
BY DEF NodeOwn, OwnRows, OneOwn, Exclusive

LEMMA ActOfOthers ==
    ASSUME NEW l \in Nodes, peers'[l] = peers[l]
    PROVE  Act(l, l)' = Act(l, l)
BY DEF Act

LEMMA ResumeOwn ==
    ASSUME TypeOK, NEW n \in Nodes, Resume(n)
    PROVE  pc'[n]["main"] = "loop"
BY DEF TypeOK, Resume

LEMMA MainOwn ==
    ASSUME PeerInv, OwnInv, NEW n \in Nodes, MainMove(n)
    PROVE  OwnInv'
<1> USE DEF PeerInv, daemon, world, Threads
<1>1. /\ frame \in [Nodes -> [Threads -> Frames]]
      /\ pc \in [Nodes -> [Threads -> Label]]
      /\ peers \in [Nodes -> [Rows -> Row]]
      /\ addr[n] \in IPs /\ frame[n]["main"].to \in IPs \cup {NoIP}
      /\ been' = been /\ torn' = torn
  BY DEF TypeOK, Frames, MainMove, ReadOwnIp, Register, OwnUpsert, OwnRetire,
         Announce, Prune, BuildGuard, AssignGuard
<1>2. MainChange(n) /\ NodeOwn(n)
  BY DEF ChangesOnly, OwnInv
<1>3. ASSUME NEW l \in Nodes \ {n} PROVE NodeOwn(l)'
  <2>1. pc'[l] = pc[l] /\ frame'[l] = frame[l]
    BY MainMoves
  <2>2. peers'[l] = peers[l]
    BY <1>1 DEF MainMove, ReadOwnIp, Register, OwnUpsert, OwnRetire,
         Announce, Prune, BuildGuard, AssignGuard, Upsert, RetireRows, PruneRows
  <2> QED
    BY <1>1, <2>1, <2>2, ActOfOthers, OwnStays DEF OwnInv
<1>4. NodeOwn(n)'
  <2> SUFFICES ASSUME Exclusive(n), ~torn[n], OwnRows(n) PROVE OwnRows(n)'
    BY <1>1, <1>2 DEF NodeOwn, Exclusive
  <2>1. CASE ReadOwnIp(n)
    <3>1. Act(n, n)' = Act(n, n) /\ pc[n]["main"] \in {"start", "loop"}
      BY <2>1 DEF ReadOwnIp, Act
    <3>2. CASE ActiveOf(n, n) = {} /\ Goto(n, "main", "register")
      <4>1. pc'[n]["main"] = "register" /\ Act(n, n) = {}
        BY <1>1, <3>2, ActIsActive DEF Goto
      <4> QED
        BY <3>1, <4>1 DEF OwnRows
    <3>3. ASSUME NEW stored \in Act(n, n)
          PROVE  Act(n, n) = {stored} /\ OneOwn(n)
      BY <3>1, <3>3 DEF OwnRows, OneOwn
    <3>4. CASE Act(n, n) # {} /\ Resume(n)
      BY <3>1, <3>3, <3>4, ResumeOwn DEF OwnRows, OneOwn
    <3>5. ASSUME NEW stored \in Act(n, n), Goto(n, "main", "own_upsert"),
                 frame' = [frame EXCEPT ![n]["main"] = Work(stored, addr[n], NoIP, {})]
          PROVE  OwnRows(n)'
      <4>1. pc'[n]["main"] = "own_upsert" /\ frame'[n]["main"].from = stored
        BY <1>1, <3>5 DEF Goto, Work
      <4> QED
        BY <3>1, <3>3, <4>1 DEF OwnRows
    <3> QED
      BY <2>1, <3>2, <3>4, <3>5, ActIsActive DEF ReadOwnIp
  <2>2. CASE Register(n)
    <3>1. /\ pc[n]["main"] = "register" /\ pc'[n]["main"] = "build"
          /\ frame' = frame /\ frame[n]["main"].to \in IPs
          /\ peers' = Upsert(n, n, frame[n]["main"].to)
      BY <1>1, <1>2, <2>2 DEF Register, Goto, MainChange, AtRest
    <3>2. Act(n, n)' = Act(n, n) \cup {frame[n]["main"].to}
      BY <3>1, UpsertAct
    <3> QED
      BY <3>1, <3>2 DEF OwnRows
  <2>3. CASE OwnUpsert(n)
    <3>1. /\ pc[n]["main"] = "own_upsert" /\ pc'[n]["main"] = "own_retire"
          /\ frame' = frame /\ frame[n]["main"].to \in IPs
          /\ peers' = Upsert(n, n, frame[n]["main"].to)
      BY <1>1, <1>2, <2>3 DEF OwnUpsert, Goto, MainChange, AtRest
    <3>2. Act(n, n)' = Act(n, n) \cup {frame[n]["main"].to}
      BY <3>1, UpsertAct
    <3> QED
      BY <3>1, <3>2 DEF OwnRows
  <2>4. CASE OwnRetire(n)
    <3>1. /\ pc[n]["main"] = "own_retire" /\ pc'[n]["main"] = "build"
          /\ frame' = frame /\ frame[n]["main"].from # frame[n]["main"].to
          /\ peers' = RetireRows(n, frame[n]["main"].from)
      BY <1>1, <1>2, <2>4 DEF OwnRetire, Goto, MainChange, AtRest
    <3>2. Act(n, n)' = Act(n, n) \ {frame[n]["main"].from}
      BY <3>1, RetireAct
    <3> QED
      BY <3>1, <3>2 DEF OwnRows
  <2>5. CASE Announce(n)
    <3>1. /\ pc[n]["main"] = "announce" /\ pc'[n]["main"] = "loop"
          /\ frame[n]["main"].to \in IPs
      BY <1>1, <1>2, <2>5, ResumeOwn DEF Announce, MainChange, AtRest
    <3>2. Act(n, n)' = Act(n, n)
      BY <2>5 DEF Announce, Act
    <3> QED
      BY <3>1, <3>2 DEF OwnRows, OneOwn
  <2>6. CASE Prune(n)
    <3>1. Act(n, n)' = Act(n, n) /\ pc' = pc /\ frame' = frame
      BY <2>6, PruneAct DEF Prune
    <3> QED
      BY <3>1 DEF OwnRows, OneOwn
  <2>7. CASE BuildGuard(n, "main")
    <3>1. /\ pc[n]["main"] = "build" /\ pc'[n]["main"] = "assign"
          /\ frame'[n]["main"].to = frame[n]["main"].to
      BY <1>1, <2>7 DEF BuildGuard, Goto, Fetch, Work
    <3>2. Act(n, n)' = Act(n, n)
      BY <2>7 DEF BuildGuard, Act
    <3> QED
      BY <3>1, <3>2 DEF OwnRows
  <2>8. CASE AssignGuard(n, "main")
    <3>1. /\ pc[n]["main"] = "assign" /\ frame[n]["main"].to \in IPs
          /\ \/ pc'[n]["main"] = "announce"
                /\ frame'[n]["main"].to = frame[n]["main"].to
             \/ pc'[n]["main"] = "loop"
      BY <1>1, <1>2, <2>8, ResumeOwn
         DEF AssignGuard, Goto, Fetch, Work, MainChange, AtRest
    <3>2. Act(n, n)' = Act(n, n)
      BY <2>8 DEF AssignGuard, Act
    <3> QED
      BY <3>1, <3>2 DEF OwnRows, OneOwn
  <2> QED
    BY <2>1, <2>2, <2>3, <2>4, <2>5, <2>6, <2>7, <2>8 DEF MainMove
<1> QED
  BY <1>3, <1>4 DEF OwnInv

\* What a handler does on another node's word leaves the rows alone of a node
\* whose addresses nobody else had.
LEMMA HandlerForeign ==
    ASSUME PeerInv, BeenInv, NEW n \in Nodes, HandlerMove(n),
           NEW m \in Nodes, Exclusive(m), ~Claim(n, m),
           Handling(n) => frame[n]["mqtt"].node # m
    PROVE  Act(n, m)' = Act(n, m)
<1> USE DEF PeerInv
<1>1. CASE \E k \in Nodes : Claim(n, k)
  <2>1. PICK k \in Nodes : Claim(n, k)
    BY <1>1
  <2>2. wire[k][n][1].new \in IPs /\ peers' = Upsert(n, k, wire[k][n][1].new)
    BY <2>1, ClaimedEvent DEF Event
  <2> QED
    BY <2>1, <2>2, UpsertAct
<1>2. CASE Reclaim(n) \/ RetirePeer(n)
  <2>1. /\ Handling(n)
        /\ \/ peers' = CancelRows(n, frame[n]["mqtt"].to)
           \/ peers' = RetireRows(n, frame[n]["mqtt"].from)
    BY <1>2 DEF Reclaim, RetirePeer, Handling
  <2>2. /\ frame[n]["mqtt"].from \notin been[m]
        /\ frame[n]["mqtt"].to \notin been[m]
    <3>1. frame[n]["mqtt"].node \in Nodes \ {m}
      BY <2>1, HandledChange
    <3>2. /\ frame[n]["mqtt"].from \in been[frame[n]["mqtt"].node]
          /\ frame[n]["mqtt"].to \in been[frame[n]["mqtt"].node]
      BY <2>1 DEF BeenInv, LocalsBeen
    <3> QED
      BY <3>1, <3>2 DEF Exclusive
  <2>3. \A x \in IPs : peers[n][<<m, x>>].status # "none"
           => x # frame[n]["mqtt"].from /\ x # frame[n]["mqtt"].to
    BY <2>2 DEF BeenInv, RowsBeen
  <2>4. CASE peers' = RetireRows(n, frame[n]["mqtt"].from)
    <3>1. Act(n, m)' = Act(n, m) \ {frame[n]["mqtt"].from}
      BY <2>4, RetireAct
    <3> QED
      BY <2>3, <3>1 DEF Act
  <2>5. CASE peers' = CancelRows(n, frame[n]["mqtt"].to)
    <3>1. ASSUME NEW x \in IPs
          PROVE  peers'[n][<<m, x>>] = peers[n][<<m, x>>]
      <4>1. peers \in [Nodes -> [Rows -> Row]] /\ <<m, x>> \in Rows
        BY DEF TypeOK, Rows
      <4> QED
        BY <2>3, <2>5, <4>1 DEF CancelRows
    <3> QED
      BY <3>1 DEF Act
  <2> QED
    BY <2>1, <2>4, <2>5
<1>3. CASE BuildGuard(n, "mqtt") \/ AssignGuard(n, "mqtt")
  BY <1>3 DEF BuildGuard, AssignGuard, Act
<1> QED
  BY <1>1, <1>2, <1>3 DEF HandlerMove

LEMMA HandlerElsewhere ==
    ASSUME PeerInv, NEW n \in Nodes, HandlerMove(n), NEW l \in Nodes \ {n}
    PROVE  peers'[l] = peers[l]
<1>1. peers \in [Nodes -> [Rows -> Row]]
  BY DEF PeerInv, TypeOK
<1> QED
  BY <1>1 DEF HandlerMove, Claim, Reclaim, RetirePeer, BuildGuard, AssignGuard,
              Upsert, CancelRows, RetireRows

LEMMA HandlerKeepsOwn ==
    ASSUME PeerInv, BeenInv, NEW n \in Nodes, HandlerMove(n),
           NEW l \in Nodes, Exclusive(l)
    PROVE  Act(l, l)' = Act(l, l)
<1>1. CASE l # n
  BY <1>1, HandlerElsewhere, ActOfOthers
<1>2. CASE l = n
  <2>1. ~Claim(n, n)
    BY ClaimedEvent
  <2>2. Handling(n) => frame[n]["mqtt"].node # n
    BY HandledChange DEF PeerInv
  <2> QED
    BY <1>2, <2>1, <2>2, HandlerForeign
<1> QED
  BY <1>1, <1>2

LEMMA HandlerOwn ==
    ASSUME PeerInv, BeenInv, OwnInv, NEW n \in Nodes, HandlerMove(n)
    PROVE  OwnInv'
<1>1. been' = been /\ torn' = torn
  BY DEF HandlerMove, Claim, Reclaim, RetirePeer, BuildGuard, AssignGuard
<1>2. \A l \in Nodes : pc'[l]["main"] = pc[l]["main"]
                       /\ frame'[l]["main"] = frame[l]["main"]
  BY HandlerMoves
<1> QED
  BY <1>1, <1>2, HandlerKeepsOwn, OwnStays DEF OwnInv

LEMMA WorldOwn ==
    ASSUME PeerInv, OwnInv, NEW n \in Nodes, WorldMove(n)
    PROVE  OwnInv'
<1> USE DEF PeerInv, world, daemon, Threads, WorldMove
<1>1. \A l \in Nodes : Act(l, l)' = Act(l, l)
  BY DEF Move, Crash, Start, Tick, Act
<1>2. \A l \in Nodes : Exclusive(l)' => Exclusive(l)
  <2>1. \A l \in Nodes : been[l] \subseteq been'[l]
    BY DEF Move, Crash, Start, Tick, TypeOK
  <2> QED
    BY <2>1 DEF Exclusive
<1>3. /\ \A l \in Nodes \ {n} : pc'[l] = pc[l] /\ frame'[l] = frame[l]
                                /\ torn'[l] = torn[l]
      /\ \/ pc'[n] = pc[n] /\ frame'[n] = frame[n] /\ torn'[n] = torn[n]
         \/ /\ pc'[n]["main"] = "down"
            /\ torn'[n] = (torn[n] \/ pc[n]["main"] = "own_retire")
         \/ /\ pc[n]["main"] = "down" /\ pc'[n]["main"] = "start"
            /\ torn'[n] = torn[n]
  <2>1. CASE Move(n) \/ Tick
    BY <2>1 DEF Move, Tick
  <2>2. CASE Crash(n)
    BY <2>2 DEF Crash, TypeOK
  <2>3. CASE Start(n)
    BY <2>3 DEF Start, TypeOK, Up
  <2> QED
    BY <2>1, <2>2, <2>3
<1>4. ASSUME NEW l \in Nodes, Exclusive(l)', ~torn'[l] PROVE OwnRows(l)'
  <2>1. CASE pc'[l] = pc[l] /\ frame'[l] = frame[l] /\ torn'[l] = torn[l]
    BY <1>1, <1>2, <1>4, <2>1 DEF OwnInv, NodeOwn, OwnRows, OneOwn
  <2>2. CASE /\ l = n /\ pc'[l]["main"] = "down"
             /\ torn'[l] = (torn[l] \/ pc[l]["main"] = "own_retire")
    <3>1. OwnRows(l) /\ pc[l]["main"] # "own_retire"
      BY <1>2, <1>4, <2>2 DEF OwnInv, NodeOwn
    <3>2. /\ ~AtRest(l) => frame[l]["main"].to \in IPs
          /\ pc[l]["main"] = "own_upsert" => frame[l]["main"].from \in IPs
      BY DEF TypeOK, ChangesOnly, MainChange
    <3> QED
      BY <1>1, <2>2, <3>1, <3>2 DEF OwnRows, OneOwn, AtRest
  <2>3. CASE /\ l = n /\ pc[l]["main"] = "down" /\ pc'[l]["main"] = "start"
             /\ torn'[l] = torn[l]
    <3>1. OwnRows(l)
      BY <1>2, <1>4, <2>3 DEF OwnInv, NodeOwn
    <3> QED
      BY <1>1, <2>3, <3>1 DEF OwnRows, OneOwn
  <2> QED
    BY <1>3, <2>1, <2>2, <2>3
<1> QED
  BY <1>4 DEF OwnInv, NodeOwn

LEMMA OwnStep ==
    ASSUME PeerInv, BeenInv, OwnInv, [Next]_vars
    PROVE  OwnInv'
<1>1. CASE UNCHANGED vars
  BY <1>1 DEF vars, world, daemon, history, OwnInv, NodeOwn, OwnRows, OneOwn,
              Act, Exclusive
<1>2. CASE Next
  BY <1>2, NextMoves, MainOwn, HandlerOwn, WorldOwn
<1> QED
  BY <1>1, <1>2

LEMMA InitOwn ==
    ASSUME Init
    PROVE  BeenInv /\ OwnInv
<1>1. /\ \A n \in Nodes : pc[n]["main"] = "down" /\ pc[n]["mqtt"] = "down"
      /\ \A n \in Nodes : frame[n]["main"].from = NoIP /\ addr[n] \in been[n]
      /\ \A l, k \in Nodes, x \in IPs : peers[l][<<k, x>>].status = "none"
      /\ \A m, n \in Nodes : wire[m][n] = <<>>
  BY DEF Init, Threads, Idle, Work, Rows, NoRow
<1>2. RowsBeen /\ WireBeen
  BY <1>1 DEF RowsBeen, WireBeen
<1>3. \A n \in Nodes : LocalsBeen(n) /\ Act(n, n) = {}
  BY <1>1 DEF LocalsBeen, AtRest, Handling, Act
<1>4. OwnInv
  BY <1>1, <1>3 DEF OwnInv, NodeOwn, OwnRows
<1> QED
  BY <1>2, <1>3, <1>4 DEF BeenInv

LEMMA AlwaysOwn == Spec => [](BeenInv /\ OwnInv)
<1>1. PeerInv /\ BeenInv /\ OwnInv /\ [Next]_vars => BeenInv' /\ OwnInv'
  BY BeenStep, OwnStep
<1> QED
  BY <1>1, InitOwn, AlwaysInv, PTL DEF Spec

\* A node has one active address of its own whenever main is in its loop, if no
\* other node ever had an address of it and it never died between the two
\* statements of a change (agent.py:79-113, state.py:384-390).
THEOREM OneOwnAddressHolds == Spec => []OneOwnAddress
<1>1. OwnInv => OneOwnAddress
  <2> SUFFICES ASSUME OwnInv, NEW n \in Nodes, pc[n]["main"] = "loop",
                      Exclusive(n), ~torn[n]
               PROVE  Cardinality(ActiveOf(n, n)) = 1
    BY DEF OneOwnAddress
  <2>1. PICK ip \in IPs : ActiveOf(n, n) = {ip}
    BY ActIsActive DEF OwnInv, NodeOwn, OwnRows, OneOwn
  <2> QED
    BY <2>1, FS_Singleton
<1> QED
  BY <1>1, AlwaysOwn, PTL

-----------------------------------------------------------------------------
(* StaleAddressRetires.  If n lost nothing of m, the changes that n heard, *)
(* those on the wire and the one m works on are one chain, and of m's      *)
(* rows n keeps the last link it heard.                                    *)

HandlingOf(n, m) == Handling(n) /\ frame[n]["mqtt"].node = m

\* The address of m that n heard last.
Reached(n, m) == IF HandlingOf(n, m) THEN frame[n]["mqtt"].to ELSE told[n][m]

\* The address of m that n will have heard last.
Said(n, m) ==
    IF wire[m][n] = <<>> THEN Reached(n, m) ELSE wire[m][n][Len(wire[m][n])].new

\* What m changes next is the address x.
StandsAt(m, x) ==
    /\ AtRest(m) => Act(m, m) = {x}
    /\ ~AtRest(m) => pc[m]["main"] # "register" /\ frame[m]["main"].from = x

Linked(n, m) ==
    /\ wire[m][n] # <<>> /\ Reached(n, m) # NoIP
         => wire[m][n][1].old = Reached(n, m)
    /\ \A i \in 1..(Len(wire[m][n]) - 1) : wire[m][n][i].new = wire[m][n][i + 1].old

Chain(n, m) ==
    /\ Linked(n, m)
    /\ \A x \in IPs : Said(n, m) = x => StandsAt(m, x)

Kept(n, m) ==
    Act(n, m) \subseteq IF HandlingOf(n, m)
                        THEN {frame[n]["mqtt"].from, frame[n]["mqtt"].to}
                        ELSE {told[n][m]}

PairInv(n, m) == n # m /\ ~gap[m][n] /\ Exclusive(m) => Chain(n, m) /\ Kept(n, m)
TornGap == \A m, n \in Nodes : torn[m] /\ n # m => gap[m][n]
ChainInv == TornGap /\ \A n, m \in Nodes : PairInv(n, m)

\* What m has said to n, and where n and m stand, is as it was.
LEMMA ChainStays ==
    ASSUME NEW n \in Nodes, NEW m \in Nodes, Chain(n, m),
           wire'[m][n] = wire[m][n], Reached(n, m)' = Reached(n, m),
           \A x \in IPs : StandsAt(m, x) => StandsAt(m, x)'
    PROVE  Chain(n, m)'
<1>1. Linked(n, m)'
  BY DEF Chain, Linked
<1>2. Said(n, m)' = Said(n, m)
  BY DEF Said
<1> QED
  BY <1>1, <1>2 DEF Chain

LEMMA StandsStays ==
    ASSUME NEW m \in Nodes, NEW x \in IPs, StandsAt(m, x),
           pc'[m]["main"] = pc[m]["main"], frame'[m]["main"] = frame[m]["main"],
           Act(m, m)' = Act(m, m)
    PROVE  StandsAt(m, x)'
BY DEF StandsAt, AtRest

\* n's handler does not move.
LEMMA HearerStays ==
    ASSUME NEW n \in Nodes, NEW m \in Nodes,
           \/ pc'[n]["mqtt"] = pc[n]["mqtt"]
           \/ pc[n]["mqtt"] = "off" /\ pc'[n]["mqtt"] = "idle",
           frame'[n]["mqtt"] = frame[n]["mqtt"], told'[n] = told[n]
    PROVE  /\ Reached(n, m)' = Reached(n, m)
           /\ Kept(n, m) /\ Act(n, m)' \subseteq Act(n, m) => Kept(n, m)'
<1>1. HandlingOf(n, m)' <=> HandlingOf(n, m)
  BY DEF HandlingOf, Handling
<1> QED
  BY <1>1 DEF Reached, Kept

\* main goes on with the change it stands at.
LEMMA MainStands ==
    ASSUME PeerInv, OwnInv, NEW m \in Nodes, MainMove(m), ~Announce(m),
           Exclusive(m), ~torn[m], NEW x \in IPs, StandsAt(m, x)
    PROVE  StandsAt(m, x)'
<1> USE DEF PeerInv, daemon, world, Threads
<1>1. /\ frame \in [Nodes -> [Threads -> Frames]]
      /\ pc \in [Nodes -> [Threads -> Label]]
      /\ x # NoIP
  BY PeerAssumption DEF TypeOK, Frames
<1>2. MainChange(m) /\ OwnRows(m)
  BY DEF ChangesOnly, OwnInv, NodeOwn
<1>3. CASE ReadOwnIp(m)
  <2>1. Act(m, m) = {x} /\ Act(m, m)' = Act(m, m)
    BY <1>3 DEF ReadOwnIp, StandsAt, AtRest, Act
  <2>2. CASE Resume(m)
    <3>1. pc'[m]["main"] = "loop"
      BY <2>2, ResumeOwn
    <3> QED
      BY <2>1, <3>1 DEF StandsAt, AtRest
  <2>3. CASE ~Resume(m)
    <3>1. PICK stored \in Act(m, m) :
            /\ Goto(m, "main", "own_upsert")
            /\ frame' = [frame EXCEPT ![m]["main"] = Work(stored, addr[m], NoIP, {})]
      BY <1>3, <2>1, <2>3, ActIsActive DEF ReadOwnIp
    <3>2. pc'[m]["main"] = "own_upsert" /\ frame'[m]["main"].from = x
      BY <1>1, <2>1, <3>1 DEF Goto, Work
    <3> QED
      BY <3>2 DEF StandsAt, AtRest
  <2> QED
    BY <2>2, <2>3
<1>4. CASE Register(m)
  BY <1>4 DEF Register, StandsAt, AtRest
<1>5. CASE OwnUpsert(m) \/ OwnRetire(m)
  <2>1. /\ pc[m]["main"] \in {"own_upsert", "own_retire"}
        /\ pc'[m]["main"] \in {"own_retire", "build"} /\ frame' = frame
    BY <1>1, <1>5 DEF OwnUpsert, OwnRetire, Goto
  <2> QED
    BY <2>1 DEF StandsAt, AtRest
<1>6. CASE Prune(m)
  <2>1. Act(m, m)' = Act(m, m) /\ pc' = pc /\ frame' = frame
    BY <1>6, PruneAct DEF Prune
  <2> QED
    BY <2>1, StandsStays
<1>7. CASE BuildGuard(m, "main") \/ AssignGuard(m, "main")
  <2>1. pc[m]["main"] \in {"build", "assign"} /\ frame[m]["main"].from = x
    BY <1>7 DEF BuildGuard, AssignGuard, StandsAt, AtRest
  <2>2. /\ pc'[m]["main"] \in {"assign", "announce"}
        /\ frame'[m]["main"].from = frame[m]["main"].from
    BY <1>1, <1>7, <2>1 DEF BuildGuard, AssignGuard, Goto, Fetch, Work
  <2> QED
    BY <2>1, <2>2 DEF StandsAt, AtRest
<1> QED
  BY <1>3, <1>4, <1>5, <1>6, <1>7 DEF MainMove

\* An announcement that n will get is the next link.
LEMMA AnnounceLinks ==
    ASSUME PeerInv, OwnInv, NEW m \in Nodes, Announce(m),
           Exclusive(m), ~torn[m], NEW n \in Nodes \ {m}, ~gap'[m][n], Chain(n, m)
    PROVE  Chain(n, m)'
<1> USE DEF PeerInv, daemon, world, Threads
<1> DEFINE event == [old |-> frame[m]["main"].from, new |-> frame[m]["main"].to]
<1>1. /\ wire[m][n] \in Seq(Event) /\ pc[m]["main"] = "announce"
      /\ event.old \in IPs /\ event.new \in IPs
      /\ Act(m, m) = {event.new} /\ Act(m, m)' = Act(m, m)
  <2>1. MainChange(m) /\ OwnRows(m) /\ pc[m]["main"] = "announce"
    BY DEF ChangesOnly, OwnInv, NodeOwn, Announce
  <2>2. /\ frame[m]["main"].from \in IPs \cup {NoIP}
        /\ frame[m]["main"].to \in IPs \cup {NoIP}
    BY DEF TypeOK
  <2> QED
    BY <2>1, <2>2 DEF TypeOK, MainChange, AtRest, OwnRows, Announce, Act
<1>2. wire'[m][n] = Append(wire[m][n], event)
  <2>1. PICK lucky \in SUBSET (Nodes \ {m}) :
          /\ wire' = [wire EXCEPT ![m] = [k \in Nodes |->
               IF k \in lucky THEN Append(wire[m][k], event) ELSE wire[m][k]]]
          /\ gap' = [gap EXCEPT ![m] = [k \in Nodes |-> gap[m][k] \/ k \notin lucky]]
    BY Zenon DEF Announce
  <2>2. n \in lucky
    BY <2>1 DEF TypeOK
  <2> HIDE DEF event
  <2> QED
    BY <2>1, <2>2 DEF TypeOK
<1>3. Reached(n, m)' = Reached(n, m)
  <2>1. pc'[n] = pc[n] /\ frame'[n] = frame[n] /\ told' = told
    BY MainMoves DEF MainMove, Announce
  <2> QED
    BY <2>1, HearerStays
<1>4. ASSUME NEW x \in IPs, x = event.new PROVE StandsAt(m, x)'
  <2>1. pc'[m]["main"] = "loop"
    BY ResumeOwn DEF Announce
  <2> QED
    BY <1>1, <1>4, <2>1 DEF StandsAt, AtRest
<1>5. \A x \in IPs : Said(n, m) = x => event.old = x
  BY <1>1 DEF Chain, StandsAt, AtRest
<1> HIDE DEF event
<1>6. /\ wire'[m][n] # <<>> /\ Len(wire'[m][n]) = Len(wire[m][n]) + 1
      /\ wire'[m][n][Len(wire'[m][n])] = event
      /\ \A i \in 1..Len(wire[m][n]) : wire'[m][n][i] = wire[m][n][i]
      /\ Len(wire[m][n]) \in Nat
      /\ wire[m][n] = <<>> <=> Len(wire[m][n]) = 0
      /\ \A i \in 1..Len(wire[m][n]) : wire[m][n][i] \in Event
  BY <1>1, <1>2
<1>7. Said(n, m)' = event.new
  BY <1>6 DEF Said
<1>8. Linked(n, m)'
  <2>1. ASSUME Reached(n, m) # NoIP
        PROVE  wire'[m][n][1].old = Reached(n, m)
    <3>1. CASE wire[m][n] = <<>>
      <4>1. Reached(n, m) \in IPs
        <5>1. HandlingOf(n, m) => frame[n]["mqtt"].to \in IPs
          BY HandledChange DEF HandlingOf
        <5> QED
          BY <2>1, <5>1 DEF Reached, TypeOK
      <4>2. Said(n, m) = Reached(n, m) /\ wire'[m][n][1] = event
        BY <1>6, <3>1 DEF Said
      <4> QED
        BY <1>5, <4>1, <4>2
    <3>2. CASE wire[m][n] # <<>>
      <4>1. wire'[m][n][1] = wire[m][n][1]
        BY <1>6, <3>2
      <4> QED
        BY <2>1, <3>2, <4>1 DEF Chain, Linked
    <3> QED
      BY <3>1, <3>2
  <2>2. ASSUME NEW i \in 1..(Len(wire'[m][n]) - 1)
        PROVE  wire'[m][n][i].new = wire'[m][n][i + 1].old
    <3>1. i \in 1..Len(wire[m][n]) /\ wire'[m][n][i] = wire[m][n][i]
      BY <1>6
    <3>2. CASE i = Len(wire[m][n])
      <4>1. Said(n, m) = wire[m][n][i].new /\ wire[m][n][i].new \in IPs
        BY <1>6, <3>1, <3>2 DEF Said, Event
      <4>2. wire'[m][n][i + 1] = event
        BY <1>6, <3>2
      <4> QED
        BY <1>5, <3>1, <4>1, <4>2
    <3>3. CASE i # Len(wire[m][n])
      <4>1. i \in 1..(Len(wire[m][n]) - 1) /\ i + 1 \in 1..Len(wire[m][n])
        BY <1>6, <3>1, <3>3
      <4>2. wire'[m][n][i + 1] = wire[m][n][i + 1]
        BY <1>6, <4>1
      <4> QED
        BY <3>1, <4>1, <4>2 DEF Chain, Linked
    <3> QED
      BY <3>2, <3>3
  <2> QED
    BY <1>3, <2>1, <2>2 DEF Linked
<1> QED
  BY <1>4, <1>7, <1>8 DEF Chain

\* main makes no row of another node active.
LEMMA MainActive ==
    ASSUME PeerInv, NEW n \in Nodes, MainMove(n), NEW m \in Nodes \ {n}
    PROVE  Act(n, m)' \subseteq Act(n, m)
<1>1. CASE Register(n) \/ OwnUpsert(n)
  <2>1. frame[n]["main"].to \in IPs \cup {NoIP} /\ MainChange(n)
    BY DEF PeerInv, ChangesOnly, TypeOK, Threads
  <2>2. /\ peers' = Upsert(n, n, frame[n]["main"].to)
        /\ frame[n]["main"].to \in IPs
    BY <1>1, <2>1 DEF Register, OwnUpsert, MainChange, AtRest
  <2> QED
    BY <2>2, UpsertAct DEF PeerInv
<1>2. CASE OwnRetire(n)
  BY <1>2, RetireAct DEF OwnRetire, PeerInv
<1>3. CASE Prune(n)
  BY <1>3, PruneAct DEF Prune, PeerInv
<1>4. CASE \/ ReadOwnIp(n) \/ Announce(n)
           \/ BuildGuard(n, "main") \/ AssignGuard(n, "main")
  BY <1>4 DEF ReadOwnIp, Announce, BuildGuard, AssignGuard, Act
<1> QED
  BY <1>1, <1>2, <1>3, <1>4 DEF MainMove

\* A main thread that moves: it hands over what it worked on, or stands still.
LEMMA MainChain ==
    ASSUME PeerInv, BeenInv, OwnInv, ChainInv, NEW k \in Nodes, MainMove(k)
    PROVE  ChainInv'
<1> USE DEF PeerInv, daemon, world, Threads
<1>1. /\ been' = been /\ torn' = torn /\ told' = told
      /\ Announce(k) \/ (wire' = wire /\ gap' = gap)
      /\ \A l \in Nodes \ {k} : peers'[l] = peers[l]
  <2>1. peers \in [Nodes -> [Rows -> Row]]
    BY DEF TypeOK
  <2> QED
    BY <2>1 DEF MainMove, ReadOwnIp, Register, OwnUpsert, OwnRetire, Announce, Prune,
         BuildGuard, AssignGuard, Upsert, RetireRows, PruneRows
<1>2. \A m, n \in Nodes : /\ gap[m][n] => gap'[m][n]
                          /\ m # k => wire'[m][n] = wire[m][n]
  <2>1. CASE Announce(k)
    BY <2>1 DEF Announce, TypeOK
  <2> QED
    BY <1>1, <2>1
<1>3. TornGap'
  BY <1>1, <1>2 DEF ChainInv, TornGap
<1>4. ASSUME NEW n \in Nodes, NEW m \in Nodes, n # m, ~gap'[m][n], Exclusive(m)
      PROVE  Chain(n, m)' /\ Kept(n, m)'
  <2>1. ~gap[m][n] /\ Chain(n, m) /\ Kept(n, m) /\ ~torn[m]
    BY <1>2, <1>4 DEF ChainInv, PairInv, TornGap
  <2>2. /\ \/ pc'[n]["mqtt"] = pc[n]["mqtt"]
           \/ pc[n]["mqtt"] = "off" /\ pc'[n]["mqtt"] = "idle"
        /\ frame'[n]["mqtt"] = frame[n]["mqtt"]
        /\ m # k => pc'[m] = pc[m] /\ frame'[m] = frame[m]
    BY MainMoves
  <2>3. Reached(n, m)' = Reached(n, m)
    BY <1>1, <2>2, HearerStays
  <2>4. Act(n, m)' \subseteq Act(n, m)
    <3>1. CASE n = k
      <4>1. m \in Nodes \ {k}
        BY <1>4, <3>1
      <4> QED
        BY <3>1, <4>1, MainActive
    <3>2. CASE n # k
      BY <1>1, <3>2 DEF Act
    <3> QED
      BY <3>1, <3>2
  <2>5. Kept(n, m)'
    BY <1>1, <2>1, <2>2, <2>4, HearerStays
  <2>6. CASE m # k
    <3>1. \A x \in IPs : StandsAt(m, x) => StandsAt(m, x)'
      BY <1>1, <2>2, <2>6, ActOfOthers, StandsStays
    <3> QED
      BY <1>2, <2>1, <2>3, <2>5, <2>6, <3>1, ChainStays
  <2>7. CASE m = k /\ Announce(k)
    BY <1>4, <2>1, <2>5, <2>7, AnnounceLinks
  <2>8. CASE m = k /\ ~Announce(k)
    <3>1. \A x \in IPs : StandsAt(m, x) => StandsAt(m, x)'
      BY <1>4, <2>1, <2>8, MainStands
    <3> QED
      BY <1>1, <2>1, <2>3, <2>5, <2>8, <3>1, ChainStays
  <2> QED
    BY <2>6, <2>7, <2>8
<1>5. \A m \in Nodes : Exclusive(m)' => Exclusive(m)
  BY <1>1 DEF Exclusive
<1> QED
  BY <1>3, <1>4, <1>5 DEF ChainInv, PairInv

LEMMA TailLinks ==
    ASSUME NEW S, NEW s \in Seq(S), s # <<>>
    PROVE  /\ \A i \in 1..(Len(s) - 1) : Tail(s)[i] = s[i + 1]
           /\ Len(Tail(s)) = Len(s) - 1 /\ Tail(s) \in Seq(S) /\ Len(s) \in Nat
           /\ Tail(s) = <<>> <=> Len(s) = 1
<1>1. Len(Tail(s)) = Len(s) - 1 /\ Tail(s) \in Seq(S) /\ Len(s) \in Nat
  BY HeadTailProperties
<1>2. \A i \in 1..(Len(s) - 1) : Tail(s)[i] = s[i + 1]
  OBVIOUS
<1>3. Tail(s) = <<>> <=> Len(Tail(s)) = 0
  <2> DEFINE u == Tail(s)
  <2>1. u \in Seq(S)
    BY <1>1
  <2> HIDE DEF u
  <2>2. u = <<>> <=> Len(u) = 0
    BY <2>1
  <2> QED
    BY <2>2 DEF u
<1> QED
  BY <1>1, <1>2, <1>3

\* The next link is heard.
LEMMA ClaimChain ==
    ASSUME PeerInv, BeenInv, NEW n \in Nodes, NEW m \in Nodes \ {n}, Claim(n, m),
           Chain(n, m), Kept(n, m),
           \A x \in IPs : StandsAt(m, x) => StandsAt(m, x)'
    PROVE  Chain(n, m)' /\ Kept(n, m)'
<1> USE DEF PeerInv, Threads
<1> DEFINE w == wire[m][n]
           event == w[1]
<1>1. /\ w \in Seq(Event) /\ w # <<>> /\ Len(w) > 0
      /\ event \in Event
      /\ peers' = Upsert(n, m, event.new)
      /\ frame'[n]["mqtt"].from = event.old
      /\ frame'[n]["mqtt"].to = event.new
      /\ frame'[n]["mqtt"].node = m
      /\ wire' = [wire EXCEPT ![m][n] = Tail(w)]
  BY ClaimedEvent
<1>2. wire'[m][n] = Tail(w)
  BY <1>1 DEF TypeOK
<1>3. HandlingOf(n, m)' /\ ~HandlingOf(n, m)
  <2>1. pc[n]["mqtt"] = "idle" /\ pc'[n]["mqtt"] = "reclaim"
    BY DEF Claim, Goto, TypeOK
  <2> QED
    BY <1>1, <2>1 DEF HandlingOf, Handling
<1>4. Reached(n, m)' = event.new /\ Reached(n, m) = told[n][m]
  BY <1>1, <1>3 DEF Reached
<1>5. event.new \in IPs /\ event.old \in IPs
  BY <1>1 DEF Event
<1>6. /\ \A i \in 1..(Len(w) - 1) : Tail(w)[i] = w[i + 1]
      /\ Len(Tail(w)) = Len(w) - 1 /\ Tail(w) \in Seq(Event) /\ Len(w) \in Nat
      /\ Tail(w) = <<>> <=> Len(w) = 1
  BY <1>1, TailLinks
<1>7. /\ told[n][m] # NoIP => event.old = told[n][m]
      /\ \A i \in 1..(Len(w) - 1) : w[i].new = w[i + 1].old
      /\ Said(n, m) = w[Len(w)].new
  BY <1>1, <1>4 DEF Chain, Linked, Said
<1>8. Act(n, m)' = Act(n, m) \cup {event.new} /\ Act(n, m) \subseteq {told[n][m]}
  BY <1>1, <1>3, <1>5, UpsertAct DEF Kept
<1> HIDE DEF w, event
<1>9. Kept(n, m)'
  <2>1. Act(n, m) \subseteq {event.old}
    BY <1>7, <1>8, PeerAssumption DEF Act
  <2> QED
    BY <1>1, <1>3, <1>8, <2>1 DEF Kept
<1>10. Linked(n, m)'
  <2>1. ASSUME Tail(w) # <<>> PROVE Tail(w)[1].old = event.new
    <3>1. 1 \in 1..(Len(w) - 1)
      BY <1>1, <1>6, <2>1
    <3>2. Tail(w)[1] = w[1 + 1] /\ w[1].new = w[1 + 1].old
      BY <1>6, <1>7, <3>1
    <3> QED
      BY <3>2 DEF event
  <2>2. ASSUME NEW i \in 1..(Len(Tail(w)) - 1)
        PROVE  Tail(w)[i].new = Tail(w)[i + 1].old
    <3>1. i \in 1..(Len(w) - 1) /\ i + 1 \in 1..(Len(w) - 1)
      BY <1>6
    <3> QED
      BY <1>6, <1>7, <3>1
  <2> QED
    BY <1>2, <1>4, <2>1, <2>2 DEF Linked
<1>11. Said(n, m)' = Said(n, m)
  <2>1. CASE Tail(w) = <<>>
    <3>1. w[Len(w)] = event
      BY <1>6, <2>1 DEF event
    <3> QED
      BY <1>2, <1>4, <1>7, <2>1, <3>1 DEF Said
  <2>2. CASE Tail(w) # <<>>
    <3>1. Len(w) - 1 \in 1..(Len(w) - 1) /\ Len(w) - 1 + 1 = Len(w)
      BY <1>1, <1>6, <2>2
    <3>2. Tail(w)[Len(Tail(w))] = w[Len(w)]
      BY <1>6, <3>1
    <3> QED
      BY <1>2, <1>7, <2>2, <3>2 DEF Said
  <2> QED
    BY <2>1, <2>2
<1> QED
  BY <1>9, <1>10, <1>11 DEF Chain

\* The link is made: what it replaces is retired.
LEMMA HandledChain ==
    ASSUME PeerInv, BeenInv, NEW n \in Nodes, NEW m \in Nodes \ {n}, HandlingOf(n, m),
           HandlerMove(n), Kept(n, m)
    PROVE  wire' = wire /\ Reached(n, m)' = Reached(n, m) /\ Kept(n, m)'
<1> USE DEF PeerInv, Threads
<1>1. pc[n]["mqtt"] \in {"reclaim", "retire"} /\ frame[n]["mqtt"].node = m
  BY DEF HandlingOf, Handling
<1>2. CASE Reclaim(n)
  <2>1. /\ wire' = wire /\ frame' = frame /\ told' = told
        /\ pc'[n]["mqtt"] = "retire" /\ peers' = CancelRows(n, frame[n]["mqtt"].to)
    BY <1>2 DEF Reclaim, Goto, TypeOK
  <2>2. Act(n, m)' \subseteq Act(n, m) \cup {frame[n]["mqtt"].to}
    BY <2>1, CancelAct
  <2>3. HandlingOf(n, m)'
    BY <1>1, <2>1 DEF HandlingOf, Handling
  <2> QED
    BY <2>1, <2>2, <2>3 DEF Kept, Reached
<1>3. CASE RetirePeer(n)
  <2>1. /\ wire' = wire /\ frame' = frame
        /\ told'[n][m] = frame[n]["mqtt"].to
        /\ pc'[n]["mqtt"] = "build" /\ peers' = RetireRows(n, frame[n]["mqtt"].from)
    BY <1>1, <1>3 DEF RetirePeer, Goto, TypeOK
  <2>2. Act(n, m)' = Act(n, m) \ {frame[n]["mqtt"].from}
    BY <2>1, RetireAct
  <2>3. ~HandlingOf(n, m)'
    BY <2>1 DEF HandlingOf, Handling
  <2> QED
    BY <2>1, <2>2, <2>3 DEF Kept, Reached
<1> QED
  BY <1>1, <1>2, <1>3 DEF HandlerMove, Claim, BuildGuard, AssignGuard

\* n handles nothing of m.
LEMMA HandlesOther ==
    ASSUME PeerInv, NEW n \in Nodes, HandlerMove(n),
           NEW m \in Nodes, ~Claim(n, m), ~HandlingOf(n, m)
    PROVE  ~HandlingOf(n, m)' /\ told'[n][m] = told[n][m]
<1> USE DEF PeerInv, Threads
<1>1. CASE \E k \in Nodes : Claim(n, k)
  <2>1. PICK k \in Nodes : Claim(n, k)
    BY <1>1
  <2>2. frame'[n]["mqtt"].node = k /\ told' = told
    BY <2>1, ClaimedEvent DEF Claim
  <2> QED
    BY <2>1, <2>2 DEF HandlingOf
<1>2. CASE Reclaim(n)
  BY <1>2 DEF Reclaim, HandlingOf, Handling
<1>3. CASE RetirePeer(n)
  <2>1. Handling(n) /\ frame[n]["mqtt"].node # m /\ frame' = frame
    BY <1>3 DEF RetirePeer, HandlingOf, Handling
  <2> QED
    BY <1>3, <2>1 DEF RetirePeer, HandlingOf, TypeOK
<1>4. CASE BuildGuard(n, "mqtt") \/ AssignGuard(n, "mqtt")
  <2>1. pc'[n]["mqtt"] \in {"assign", "idle"} /\ told' = told
    BY <1>4 DEF BuildGuard, AssignGuard, Goto, TypeOK
  <2> QED
    BY <2>1 DEF HandlingOf, Handling
<1> QED
  BY <1>1, <1>2, <1>3, <1>4 DEF HandlerMove

LEMMA HandlerChain ==
    ASSUME PeerInv, BeenInv, OwnInv, ChainInv, NEW k \in Nodes, HandlerMove(k)
    PROVE  ChainInv'
<1> USE DEF PeerInv, Threads
<1>1. /\ been' = been /\ torn' = torn /\ gap' = gap
      /\ \A l \in Nodes \ {k} : told'[l] = told[l]
  <2>1. told \in [Nodes -> [Nodes -> IPs \cup {NoIP}]]
    BY DEF TypeOK
  <2> QED
    BY <2>1 DEF HandlerMove, Claim, Reclaim, RetirePeer, BuildGuard, AssignGuard
<1>2. /\ \A l \in Nodes \ {k} : pc'[l] = pc[l] /\ frame'[l] = frame[l]
      /\ pc'[k]["main"] = pc[k]["main"] /\ frame'[k]["main"] = frame[k]["main"]
  BY HandlerMoves
<1>3. \A m, n \in Nodes : ~(n = k /\ Claim(k, m)) => wire'[m][n] = wire[m][n]
  <2>1. CASE \E j \in Nodes : Claim(k, j)
    <3>1. PICK j \in Nodes : Claim(k, j)
      BY <2>1
    <3>2. wire' = [wire EXCEPT ![j][k] = Tail(wire[j][k])]
      BY <3>1, ClaimedEvent
    <3> QED
      BY <3>1, <3>2 DEF TypeOK
  <2>2. CASE ~\E j \in Nodes : Claim(k, j)
    BY <2>2 DEF HandlerMove, Reclaim, RetirePeer, BuildGuard, AssignGuard
  <2> QED
    BY <2>1, <2>2
<1>4. ASSUME NEW n \in Nodes, NEW m \in Nodes, n # m, ~gap[m][n], Exclusive(m)
      PROVE  Chain(n, m)' /\ Kept(n, m)'
  <2>1. Chain(n, m) /\ Kept(n, m)
    BY <1>4 DEF ChainInv, PairInv
  <2>2. \A x \in IPs : StandsAt(m, x) => StandsAt(m, x)'
    <3>1. Act(m, m)' = Act(m, m)
      BY <1>4, HandlerKeepsOwn
    <3>2. pc'[m]["main"] = pc[m]["main"] /\ frame'[m]["main"] = frame[m]["main"]
      BY <1>2
    <3> QED
      BY <3>1, <3>2, StandsStays
  <2>3. CASE n # k
    <3>1. Act(n, m)' = Act(n, m)
      BY <2>3, HandlerElsewhere DEF Act
    <3>2. Reached(n, m)' = Reached(n, m) /\ Kept(n, m)'
      BY <1>1, <1>2, <2>1, <2>3, <3>1, HearerStays
    <3> QED
      BY <1>3, <2>1, <2>2, <2>3, <3>2, ChainStays
  <2>4. CASE n = k /\ Claim(n, m)
    BY <1>4, <2>1, <2>2, <2>4, ClaimChain
  <2>5. CASE n = k /\ ~Claim(n, m) /\ HandlingOf(n, m)
    <3>1. wire' = wire /\ Reached(n, m)' = Reached(n, m) /\ Kept(n, m)'
      BY <1>4, <2>1, <2>5, HandledChain
    <3> QED
      BY <2>1, <2>2, <3>1, ChainStays
  <2>6. CASE n = k /\ ~Claim(n, m) /\ ~HandlingOf(n, m)
    <3>1. Act(n, m)' = Act(n, m)
      BY <1>4, <2>6, HandlerForeign DEF HandlingOf
    <3>2. ~HandlingOf(n, m)' /\ told'[n][m] = told[n][m]
      BY <2>6, HandlesOther
    <3>3. Reached(n, m)' = Reached(n, m) /\ Kept(n, m)'
      BY <2>1, <2>6, <3>1, <3>2 DEF Reached, Kept
    <3> QED
      BY <1>3, <2>1, <2>2, <2>6, <3>3, ChainStays
  <2> QED
    BY <2>3, <2>4, <2>5, <2>6
<1>5. \A m \in Nodes : Exclusive(m)' => Exclusive(m)
  BY <1>1 DEF Exclusive
<1> QED
  BY <1>1, <1>4, <1>5 DEF ChainInv, PairInv, TornGap

\* What a crash loses is a gap.
LEMMA CrashGaps ==
    ASSUME PeerInv, NEW n \in Nodes, Crash(n)
    PROVE  /\ \A m, k \in Nodes : gap[m][k] => gap'[m][k]
           /\ \A m \in Nodes : HandlingOf(n, m) => gap'[m][n]
           /\ frame[n]["main"].from # NoIP
              /\ pc[n]["main"] \in {"own_retire", "build", "assign", "announce"}
                => \A k \in Nodes : gap'[n][k]
           /\ \A l \in Nodes : torn'[l] => torn[l] \/ (l = n /\ pc[n]["main"] = "own_retire")
           /\ \A l \in Nodes \ {n} : pc'[l] = pc[l] /\ frame'[l] = frame[l]
           /\ pc'[n]["main"] = "down" /\ pc'[n]["mqtt"] = "down"
BY DEF PeerInv, Crash, TypeOK, Threads, HandlingOf, Handling

LEMMA CrashChain ==
    ASSUME PeerInv, OwnInv, ChainInv, NEW k \in Nodes, Crash(k)
    PROVE  ChainInv'
<1> USE DEF PeerInv, Threads
<1>1. /\ been' = been /\ told' = told /\ wire' = wire /\ peers' = peers
      /\ \A m, l \in Nodes : gap[m][l] => gap'[m][l]
      /\ \A m \in Nodes : HandlingOf(k, m) => gap'[m][k]
      /\ \A l \in Nodes \ {k} : pc'[l] = pc[l] /\ frame'[l] = frame[l]
      /\ pc'[k]["main"] = "down" /\ pc'[k]["mqtt"] = "down"
  BY CrashGaps DEF Crash
<1>2. TornGap'
  <2>1. pc[k]["main"] = "own_retire" => frame[k]["main"].from # NoIP
    BY DEF ChangesOnly, MainChange
  <2>2. \A m, l \in Nodes : torn'[m] => torn[m] \/ gap'[m][l]
    BY <2>1, CrashGaps
  <2> QED
    BY <1>1, <2>2 DEF ChainInv, TornGap
<1>3. ASSUME NEW n \in Nodes, NEW m \in Nodes, n # m, ~gap'[m][n], Exclusive(m)
      PROVE  Chain(n, m)' /\ Kept(n, m)'
  <2>1. Chain(n, m) /\ Kept(n, m) /\ ~torn[m]
    BY <1>1, <1>3 DEF ChainInv, PairInv, TornGap
  <2>2. HandlingOf(n, m)' <=> HandlingOf(n, m)
    BY <1>1, <1>3 DEF HandlingOf, Handling
  <2>3. frame'[n]["mqtt"] = frame[n]["mqtt"] \/ ~HandlingOf(n, m)
    BY <1>1, <1>3
  <2>4. Reached(n, m)' = Reached(n, m) /\ Kept(n, m)'
    BY <1>1, <2>1, <2>2, <2>3 DEF Reached, Kept, Act
  <2>5. ASSUME NEW x \in IPs, StandsAt(m, x) PROVE StandsAt(m, x)'
    <3>1. Act(m, m)' = Act(m, m)
      BY <1>1 DEF Act
    <3>2. CASE m # k
      BY <1>1, <2>5, <3>1, <3>2, StandsStays
    <3>3. CASE m = k
      <4>1. OwnRows(m)
        BY <1>3, <2>1 DEF OwnInv, NodeOwn
      <4>2. ~AtRest(m) => pc[m]["main"] = "own_upsert"
        <5>1. x # NoIP
          BY PeerAssumption
        <5>2. ~AtRest(m)
                => pc[m]["main"] \in {"own_upsert", "own_retire", "build", "assign",
                                      "announce"}
          BY <2>5, <4>1 DEF OwnRows, AtRest, StandsAt
        <5> QED
          BY <1>3, <2>5, <3>3, <5>1, <5>2, CrashGaps DEF StandsAt
      <4>3. Act(m, m) = {x}
        BY <2>5, <4>1, <4>2 DEF StandsAt, OwnRows
      <4> QED
        BY <1>1, <3>1, <3>3, <4>3 DEF StandsAt, AtRest
    <3> QED
      BY <3>2, <3>3
  <2> QED
    BY <1>1, <2>1, <2>4, <2>5, ChainStays
<1>4. \A m \in Nodes : Exclusive(m)' => Exclusive(m)
  BY <1>1 DEF Exclusive
<1> QED
  BY <1>2, <1>3, <1>4 DEF ChainInv, PairInv

LEMMA WorldChain ==
    ASSUME PeerInv, GuardInv, OwnInv, ChainInv, NEW k \in Nodes, WorldMove(k)
    PROVE  ChainInv'
<1> USE DEF PeerInv, daemon, world, Threads
<1>1. CASE Move(k) \/ Start(k) \/ Tick
  <2>1. /\ told' = told /\ wire' = wire /\ peers' = peers /\ gap' = gap
        /\ torn' = torn /\ frame' = frame
    BY <1>1 DEF Move, Start, Tick
  <2>2. \A m \in Nodes : Exclusive(m)' => Exclusive(m)
    <3>1. \A l \in Nodes : been[l] \subseteq been'[l]
      BY <1>1 DEF Move, Start, Tick, TypeOK
    <3> QED
      BY <3>1 DEF Exclusive
  <2>3. \A l \in Nodes : /\ AtRest(l)' <=> AtRest(l)
                         /\ Handling(l)' <=> Handling(l)
                         /\ pc'[l]["main"] = "register" <=> pc[l]["main"] = "register"
    <3>1. CASE Move(k) \/ Tick
      BY <3>1 DEF Move, Tick, AtRest, Handling
    <3>2. CASE Start(k)
      <4>1. /\ \A l \in Nodes \ {k} : pc'[l] = pc[l]
            /\ pc[k]["main"] = "down" /\ pc'[k]["main"] = "start"
            /\ pc'[k]["mqtt"] = "off"
        BY <3>2 DEF Start, Up, TypeOK
      <4>2. ~Handling(k)
        BY <4>1 DEF GuardInv, NodeGuard, Handling
      <4> QED
        BY <4>1, <4>2 DEF AtRest, Handling
    <3> QED
      BY <1>1, <3>1, <3>2
  <2>4. ASSUME NEW n \in Nodes, NEW m \in Nodes, Chain(n, m), Kept(n, m)
        PROVE  Chain(n, m)' /\ Kept(n, m)'
    <3>1. HandlingOf(n, m)' <=> HandlingOf(n, m)
      BY <2>1, <2>3 DEF HandlingOf
    <3>2. Reached(n, m)' = Reached(n, m) /\ Kept(n, m)'
      BY <2>1, <2>4, <3>1 DEF Reached, Kept, Act
    <3>3. \A x \in IPs : StandsAt(m, x) => StandsAt(m, x)'
      BY <2>1, <2>3 DEF StandsAt, Act
    <3> QED
      BY <2>1, <2>4, <3>2, <3>3, ChainStays
  <2> QED
    BY <2>1, <2>2, <2>4 DEF ChainInv, PairInv, TornGap
<1>2. CASE Crash(k)
  BY <1>2, CrashChain
<1> QED
  BY <1>1, <1>2 DEF WorldMove

LEMMA ChainStep ==
    ASSUME PeerInv, GuardInv, BeenInv, OwnInv, ChainInv, [Next]_vars
    PROVE  ChainInv'
<1>1. CASE UNCHANGED vars
  BY <1>1 DEF vars, world, daemon, history, ChainInv, TornGap, PairInv, Chain,
              Linked, Said, StandsAt, Reached, Kept, HandlingOf, Handling, AtRest,
              Act, Exclusive
<1>2. CASE Next
  BY <1>2, NextMoves, MainChain, HandlerChain, WorldChain
<1> QED
  BY <1>1, <1>2

LEMMA InitChain ==
    ASSUME Init
    PROVE  ChainInv
<1>1. /\ \A n \in Nodes : pc[n]["main"] = "down" /\ pc[n]["mqtt"] = "down" /\ ~torn[n]
      /\ \A n, m \in Nodes : told[n][m] = NoIP /\ wire[m][n] = <<>>
      /\ \A l, k \in Nodes, x \in IPs : peers[l][<<k, x>>].status = "none"
  BY DEF Init, Threads, Rows, NoRow
<1>2. \A n, m \in Nodes : /\ ~HandlingOf(n, m) /\ Act(n, m) = {}
                          /\ Reached(n, m) = NoIP /\ Said(n, m) = NoIP
  BY <1>1 DEF HandlingOf, Handling, Act, Reached, Said
<1>3. \A n, m \in Nodes : Linked(n, m) /\ Kept(n, m)
  BY <1>1, <1>2 DEF Linked, Kept
<1> QED
  BY <1>1, <1>2, <1>3, PeerAssumption DEF ChainInv, TornGap, PairInv, Chain

\* An address that a node gave up does not stay exempt: whoever lost nothing of
\* what the node announced keeps no active row of it but the one announced last
\* (agent.py:79-113, 154-169, state.py:363-372).
THEOREM StaleAddressRetiresHolds == Spec => []StaleAddressRetires
<1>1. PeerInv /\ GuardInv /\ BeenInv /\ OwnInv /\ ChainInv /\ [Next]_vars => ChainInv'
  BY ChainStep
<1>2. ChainInv => StaleAddressRetires
  BY ActIsActive DEF ChainInv, PairInv, Kept, HandlingOf, Handling,
                     StaleAddressRetires
<1> QED
  BY <1>1, <1>2, InitChain, AlwaysOwn, AlwaysGuard, AlwaysInv, PTL DEF Spec
=============================================================================
