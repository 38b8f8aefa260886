----------------------------- MODULE GridProofs -----------------------------
(***************************************************************************)
(* Grid for any fleet, times and limits: its types, that no block outlives *)
(* what was asked for however often the nodes tell it to each other, and   *)
(* that a lift holds where it arrived.                                     *)
(***************************************************************************)
EXTENDS Grid, SequenceTheorems, TLAPS

\* The event makes whoever handles it block the address, or let it in.
Asks(event, ip) ==
    \/ event.type = "block" /\ event.ip = ip
    \/ event.type = "sync_state" /\ \E b \in event.blocks : b.ip = ip
IsLift(event, ip) == event.type \in {"unblock", "allow_add"} /\ event.ip = ip

\* When a block of the address has to be over.
EndFor(time) == time + MaxAge + DefaultTtl
Limit(ip) == EndFor(orderedAt[ip])

\* What waits in the inboxes prolongs nothing either: a block was sent before
\* the last one was asked for, and the entries of a sync end in time.
Sound(event, ordered) ==
    /\ event.type = "block" => /\ ordered[event.ip] # 0
                               /\ event.ts <= ordered[event.ip]
    /\ event.type = "sync_state" =>
         \A b \in event.blocks :
            ordered[b.ip] # 0 /\ b.expires <= EndFor(ordered[b.ip])

InboxesSound == \A n \in Nodes : \A i \in DOMAIN inbox[n] : Sound(inbox[n][i], orderedAt)

\* Behind every event that would block a lifted address waits one that lifts it.
LiftStands(n, ip) ==
    /\ until[n][ip] # 0 => LiftPending(n, ip)
    /\ \A i \in DOMAIN inbox[n] : Asks(inbox[n][i], ip) =>
         \E j \in DOMAIN inbox[n] : j > i /\ IsLift(inbox[n][j], ip)

LiftsStand ==
    \A n \in Nodes \ {ApiNode}, ip \in lifted \ echoed :
        <<n, ip>> \notin missed => LiftStands(n, ip)

GridInv == TypeOK /\ BlocksEnd /\ InboxesSound /\ LiftsStand

-----------------------------------------------------------------------------
(* What the operators return.                                              *)

Times == 0..(MaxClock + DefaultTtl)
Ends_ok(ends) ==
    /\ ends \in [Ips -> Times]
    /\ \A ip \in Ips : ends[ip] > 0 => orderedAt[ip] # 0 /\ ends[ip] <= Limit(ip)

LEMMA EventFields ==
    ASSUME NEW e \in Events
    PROVE  /\ e.ts \in 0..MaxClock
           /\ e.type \in Commands \cup {"sync_state"}
           /\ e.type \in Commands => e.ip \in Ips
           /\ e.type = "sync_state" => e.blocks \subseteq Entries
BY DEF Events, Commands

LEMMA CommandIsEvent ==
    ASSUME NEW type \in Commands, NEW ip \in Ips, NEW ts \in 0..MaxClock
    PROVE  [type |-> type, ip |-> ip, ts |-> ts] \in Events
BY DEF Events

LEMMA EffectiveTtlDefault == EffectiveTtl(DefaultTtl) = DefaultTtl
BY GridAssumption DEF EffectiveTtl

\* The event is behind all others of every other node.
LEMMA PublishAppends ==
    ASSUME TypeOK, NEW node \in Nodes, NEW e \in Events, Publish(node, e)
    PROVE  /\ inbox' \in [Nodes -> Seq(Events)]
           /\ inbox'[node] = inbox[node]
           /\ \A n \in Nodes : Len(inbox'[n]) <= MaxQueue
           /\ \A n \in Nodes \ {node} :
                /\ Len(inbox'[n]) = Len(inbox[n]) + 1
                /\ \A i \in 1..Len(inbox[n]) : inbox'[n][i] = inbox[n][i]
                /\ inbox'[n][Len(inbox[n]) + 1] = e
<1>1. inbox \in [Nodes -> Seq(Events)] /\ \A n \in Nodes : Len(inbox[n]) <= MaxQueue
  BY DEF TypeOK
<1>2. inbox' = [n \in Nodes |-> IF n = node THEN inbox[n] ELSE Append(inbox[n], e)]
  BY DEF Publish
<1>3. \A n \in Nodes : /\ Append(inbox[n], e) \in Seq(Events)
                       /\ Len(Append(inbox[n], e)) = Len(inbox[n]) + 1
                       /\ \A i \in 1..Len(inbox[n]) : Append(inbox[n], e)[i] = inbox[n][i]
                       /\ Append(inbox[n], e)[Len(inbox[n]) + 1] = e
  BY <1>1, AppendProperties
<1>4. inbox' \in [Nodes -> Seq(Events)]
  BY <1>1, <1>2, <1>3
<1>5. \A n \in Nodes \ {node} : inbox'[n] = Append(inbox[n], e)
  BY <1>2
<1>6. inbox'[node] = inbox[node]
  BY <1>2
<1>7. \A n \in Nodes \ {node} : Len(inbox[n]) < MaxQueue /\ Len(inbox[n]) \in Nat
  BY <1>1, LenProperties DEF Publish
<1>8. \A n \in Nodes : Len(inbox'[n]) <= MaxQueue
  <2> SUFFICES ASSUME NEW n \in Nodes PROVE Len(inbox'[n]) <= MaxQueue
    OBVIOUS
  <2>1. CASE n = node
    BY <2>1, <1>1, <1>6
  <2>2. CASE n # node
    <3>1. Len(inbox'[n]) = Len(inbox[n]) + 1
      BY <2>2, <1>3, <1>5
    <3>2. Len(inbox[n]) < MaxQueue /\ Len(inbox[n]) \in Nat /\ MaxQueue \in Nat
      BY <2>2, <1>7, GridAssumption
    <3> QED
      BY <3>1, <3>2
  <2> QED
    BY <2>1, <2>2
<1> QED
  BY <1>3, <1>4, <1>5, <1>6, <1>8

\* The others move up.
LEMMA RestMovesUp ==
    ASSUME TypeOK, NEW node \in Nodes, inbox[node] # <<>>, inbox' = Rest(node)
    PROVE  /\ inbox' \in [Nodes -> Seq(Events)]
           /\ \A n \in Nodes \ {node} : inbox'[n] = inbox[n]
           /\ Len(inbox'[node]) = Len(inbox[node]) - 1
           /\ \A i \in 1..(Len(inbox[node]) - 1) : inbox'[node][i] = inbox[node][i + 1]
           /\ Head(inbox[node]) = inbox[node][1]
           /\ 1 \in DOMAIN inbox[node]
           /\ Head(inbox[node]) \in Events
<1>1. inbox \in [Nodes -> Seq(Events)] /\ inbox[node] \in Seq(Events)
  BY DEF TypeOK
<1>2. inbox' = [inbox EXCEPT ![node] = Tail(@)]
  BY DEF Rest
<1>3. /\ Tail(inbox[node]) \in Seq(Events)
      /\ Len(Tail(inbox[node])) = Len(inbox[node]) - 1
      /\ \A i \in 1..(Len(inbox[node]) - 1) : Tail(inbox[node])[i] = inbox[node][i + 1]
  BY <1>1, HeadTailProperties
<1>4. Head(inbox[node]) = inbox[node][1] /\ Head(inbox[node]) \in Events
  BY <1>1, HeadTailProperties
<1>5. 1 \in DOMAIN inbox[node]
  BY <1>1, EmptySeq, LenProperties
<1> QED
  BY <1>1, <1>2, <1>3, <1>4, <1>5

LEMMA InboxDomain ==
    ASSUME TypeOK, NEW n \in Nodes
    PROVE  /\ DOMAIN inbox[n] = 1..Len(inbox[n])
           /\ Len(inbox[n]) \in Nat
           /\ \A i \in DOMAIN inbox[n] : inbox[n][i] \in Events /\ inbox[n][i].ts <= clock
BY LenProperties, ElementOfSeq DEF TypeOK

\* What a block or a sync asks for ends in time, and is about addresses it names.
LEMMA EndsSound ==
    ASSUME TypeOK, InboxesSound, NEW node \in Nodes,
           NEW i \in DOMAIN inbox[node], NEW e, e = inbox[node][i],
           e.type \in {"block", "sync_state"}, Fresh(e)
    PROVE  /\ Ends_ok(Ends(node, e))
           /\ \A ip \in Ips : Ends(node, e)[ip] > 0 => Asks(e, ip)
<1> DEFINE ends == Ends(node, e)
<1>1. e \in Events /\ e.ts <= clock /\ Sound(e, orderedAt)
  BY InboxDomain DEF InboxesSound
<1>2. clock \in 1..MaxClock /\ orderedAt \in [Ips -> 0..clock]
  BY DEF TypeOK
<1>3. MaxClock \in Nat /\ MaxAge \in Nat /\ DefaultTtl \in Nat \ {0}
  BY GridAssumption
<1>4. CASE e.type = "block"
  <2>1. e.ip \in Ips /\ e.ts \in Nat
    BY <1>1, <1>4, EventFields DEF Commands
  <2>2. ends = Only(e.ip, clock + DefaultTtl)
    BY <1>4, EffectiveTtlDefault DEF Ends
  <2>3. \A ip \in Ips : ends[ip] = IF ip = e.ip THEN clock + DefaultTtl ELSE 0
    BY <2>2 DEF Only
  <2>4. ends \in [Ips -> Times]
    BY <1>2, <1>3, <2>2 DEF Only, Times
  <2>5. orderedAt[e.ip] # 0 /\ e.ts <= orderedAt[e.ip] /\ orderedAt[e.ip] \in Nat
    BY <1>1, <1>2, <1>4, <2>1 DEF Sound
  <2>6. clock <= e.ts + MaxAge
    BY DEF Fresh
  <2>7. clock + DefaultTtl <= Limit(e.ip)
    BY <1>2, <1>3, <2>1, <2>5, <2>6 DEF Limit, EndFor
  <2>8. \A ip \in Ips : ends[ip] > 0 => ip = e.ip
    BY <2>3
  <2> QED
    BY <1>4, <2>3, <2>4, <2>5, <2>7, <2>8 DEF Ends_ok, Asks
<1>5. CASE e.type = "sync_state"
  <2> DEFINE Of(ip) == {b \in e.blocks : b.ip = ip /\ StillAhead(b)}
             Asked(ip) == IF Of(ip) = {} \/ AlreadyActive(node, ip) THEN 0
                          ELSE EndOf(CHOOSE b \in Of(ip) : TRUE)
  <2>1. e.blocks \subseteq Entries
    BY <1>1, <1>5, EventFields
  <2>2. ends = [ip \in Ips |-> Asked(ip)]
    BY <1>5 DEF Ends
  <2>3. ASSUME NEW b \in e.blocks, StillAhead(b)
        PROVE  EndOf(b) = b.expires /\ b.expires \in Times
    <3>1. b.expires \in 1..(MaxClock + DefaultTtl) /\ b.expires > clock
      BY <2>1, <2>3 DEF Entries, StillAhead
    <3>2. Remaining(b) = b.expires - clock /\ Remaining(b) > 0
      BY <1>2, <1>3, <3>1 DEF Remaining
    <3> QED
      BY <1>2, <1>3, <3>1, <3>2 DEF EndOf, EffectiveTtl, Times
  <2>4. ASSUME NEW ip \in Ips
        PROVE  /\ Asked(ip) \in Times
               /\ Asked(ip) > 0 => /\ orderedAt[ip] # 0 /\ Asked(ip) <= Limit(ip)
                                   /\ Asks(e, ip)
    <3>1. CASE Of(ip) = {} \/ AlreadyActive(node, ip)
      BY <1>3, <3>1 DEF Times
    <3>2. CASE ~(Of(ip) = {} \/ AlreadyActive(node, ip))
      <4>1. PICK b \in Of(ip) : b = CHOOSE x \in Of(ip) : TRUE
        BY <3>2
      <4>2. Asked(ip) = EndOf(b) /\ b \in e.blocks /\ b.ip = ip /\ StillAhead(b)
        BY <3>2, <4>1
      <4>3. Asked(ip) = b.expires /\ b.expires \in Times
        BY <2>3, <4>2
      <4>4. orderedAt[ip] # 0 /\ b.expires <= Limit(ip)
        BY <1>1, <1>5, <4>2 DEF Sound, Limit
      <4> QED
        BY <1>5, <4>2, <4>3, <4>4 DEF Asks
    <3> QED
      BY <3>1, <3>2
  <2> HIDE DEF Asked
  <2> QED
    BY <2>2, <2>4 DEF Ends_ok
<1> QED
  BY <1>4, <1>5

\* Enforcing such ends leaves rows that end in time.
LEMMA EnforcedSound ==
    ASSUME TypeOK, BlocksEnd, NEW node \in Nodes, NEW ends, Ends_ok(ends)
    PROVE  /\ Enforced(node, ends) \in [Ips -> Times]
           /\ \A ip \in Ips : Enforced(node, ends)[ip] # 0 =>
                /\ orderedAt[ip] # 0 /\ Enforced(node, ends)[ip] <= Limit(ip)
                /\ ends[ip] > 0 \/ until[node][ip] # 0
<1>1. until[node] \in [Ips -> Times] /\ ends \in [Ips -> Times]
  BY DEF TypeOK, Ends_ok, Times
<1>2. \A ip \in Ips : Enforced(node, ends)[ip] =
         IF ends[ip] > 0 /\ ip \notin allowlist[node] THEN ends[ip] ELSE until[node][ip]
  BY DEF Enforced
<1>3. Enforced(node, ends) \in [Ips -> Times]
  BY <1>1 DEF Enforced
<1>4. \A ip \in Ips : until[node][ip] # 0 => orderedAt[ip] # 0 /\ until[node][ip] <= Limit(ip)
  BY DEF BlocksEnd, Limit, EndFor
<1> QED
  BY <1>2, <1>3, <1>4 DEF Ends_ok

-----------------------------------------------------------------------------
(* The invariant holds at the start and over every step.                   *)

LEMMA InitInv == Init => GridInv
<1> SUFFICES ASSUME Init PROVE GridInv
  OBVIOUS
<1>1. \A n \in Nodes : inbox[n] = <<>> /\ Len(inbox[n]) = 0 /\ DOMAIN inbox[n] = {}
  BY EmptySeq DEF Init
<1>2. inbox \in [Nodes -> Seq(Events)]
  BY EmptySeq DEF Init
<1>3. clock \in 1..MaxClock /\ MaxQueue \in Nat
  BY GridAssumption DEF Init
<1>4. TypeOK
  BY <1>1, <1>2, <1>3, GridAssumption DEF Init, TypeOK
<1>5. BlocksEnd /\ LiftsStand
  BY DEF Init, BlocksEnd, LiftsStand
<1>6. InboxesSound
  BY <1>1 DEF InboxesSound
<1> QED
  BY <1>4, <1>5, <1>6 DEF GridInv

\* What a step may do to orderedAt: it never falls, and never passes the clock.
OrderedGrows ==
    /\ orderedAt' \in [Ips -> 0..clock']
    /\ \A ip \in Ips : /\ orderedAt[ip] <= orderedAt'[ip]
                       /\ orderedAt[ip] # 0 => orderedAt'[ip] # 0

\* Then what was in time still is.
LEMMA StillInTime ==
    ASSUME TypeOK, OrderedGrows
    PROVE  /\ \A ip \in Ips : Limit(ip) <= Limit(ip)'
           /\ \A e \in Events : Sound(e, orderedAt) => Sound(e, orderedAt')
<1>1. orderedAt \in [Ips -> Nat] /\ orderedAt' \in [Ips -> Nat]
  BY DEF TypeOK, OrderedGrows
<1>2. MaxAge \in Nat /\ DefaultTtl \in Nat
  BY GridAssumption
<1>3. \A ip \in Ips : Limit(ip) \in Nat /\ Limit(ip)' \in Nat /\ Limit(ip) <= Limit(ip)'
  BY <1>1, <1>2 DEF Limit, EndFor, OrderedGrows
<1>4. ASSUME NEW e \in Events, Sound(e, orderedAt) PROVE Sound(e, orderedAt')
  <2>1. CASE e.type = "block"
    <3>1. e.ip \in Ips /\ e.ts \in Nat /\ e.type # "sync_state"
      BY <2>1, EventFields DEF Commands
    <3>2. orderedAt[e.ip] # 0 /\ e.ts <= orderedAt[e.ip]
      BY <1>4, <2>1 DEF Sound
    <3>3. orderedAt'[e.ip] # 0 /\ e.ts <= orderedAt'[e.ip]
      BY <1>1, <3>1, <3>2 DEF OrderedGrows
    <3> QED
      BY <3>1, <3>3 DEF Sound
  <2>2. CASE e.type = "sync_state"
    <3>1. \A b \in e.blocks : b.ip \in Ips /\ b.expires \in Nat
      BY <2>2, <1>2, EventFields, GridAssumption DEF Entries
    <3>2. \A b \in e.blocks : orderedAt[b.ip] # 0 /\ b.expires <= Limit(b.ip)
      BY <1>4, <2>2 DEF Sound, Limit
    <3>3. \A b \in e.blocks : orderedAt'[b.ip] # 0 /\ b.expires <= Limit(b.ip)'
      BY <1>3, <3>1, <3>2 DEF OrderedGrows
    <3> QED
      BY <2>2, <3>3 DEF Sound, Limit
  <2>3. CASE e.type \notin {"block", "sync_state"}
    BY <2>3 DEF Sound
  <2> QED
    BY <2>1, <2>2, <2>3
<1> QED
  BY <1>3, <1>4

LEMMA NoteBlockGrows ==
    ASSUME TypeOK, NEW ip \in Ips, NoteBlock(ip), clock' = clock
    PROVE  OrderedGrows /\ orderedAt'[ip] = clock /\ orderedAt'[ip] # 0
<1>1. orderedAt' = [orderedAt EXCEPT ![ip] = clock]
  BY DEF NoteBlock
<1>2. orderedAt \in [Ips -> 0..clock] /\ clock \in Nat \ {0}
  BY GridAssumption DEF TypeOK
<1> QED
  BY <1>1, <1>2 DEF OrderedGrows

LEMMA UnchangedGrows ==
    ASSUME TypeOK, orderedAt' = orderedAt, clock' \in Nat, clock <= clock'
    PROVE  OrderedGrows
<1>1. orderedAt \in [Ips -> 0..clock] /\ clock \in Nat
  BY GridAssumption DEF TypeOK
<1> QED
  BY <1>1 DEF OrderedGrows

LEMMA SoundAfterPublish ==
    ASSUME TypeOK, InboxesSound, OrderedGrows,
           NEW node \in Nodes, NEW e \in Events, Publish(node, e), Sound(e, orderedAt')
    PROVE  InboxesSound'
<1> SUFFICES ASSUME NEW n \in Nodes, NEW i \in DOMAIN inbox'[n]
             PROVE  Sound(inbox'[n][i], orderedAt')
  BY DEF InboxesSound
<1>1. \A j \in DOMAIN inbox[n] : inbox[n][j] \in Events /\ Sound(inbox[n][j], orderedAt')
  BY InboxDomain, StillInTime DEF InboxesSound
<1>2. CASE n = node
  BY <1>1, <1>2, PublishAppends
<1>3. CASE n # node
  <2>1. DOMAIN inbox'[n] = 1..(Len(inbox[n]) + 1) /\ Len(inbox[n]) \in Nat
    BY <1>3, PublishAppends, InboxDomain, LenProperties
  <2>2. CASE i = Len(inbox[n]) + 1
    BY <1>3, <2>2, PublishAppends
  <2>3. CASE i # Len(inbox[n]) + 1
    <3>1. i \in 1..Len(inbox[n]) /\ i \in DOMAIN inbox[n]
      BY <2>1, <2>3, InboxDomain
    <3> QED
      BY <1>1, <1>3, <3>1, PublishAppends
  <2> QED
    BY <2>2, <2>3
<1> QED
  BY <1>2, <1>3

LEMMA SoundAfterRest ==
    ASSUME TypeOK, InboxesSound, OrderedGrows,
           NEW node \in Nodes, inbox[node] # <<>>, inbox' = Rest(node)
    PROVE  InboxesSound'
<1> SUFFICES ASSUME NEW n \in Nodes, NEW i \in DOMAIN inbox'[n]
             PROVE  Sound(inbox'[n][i], orderedAt')
  BY DEF InboxesSound
<1>1. \A j \in DOMAIN inbox[n] : inbox[n][j] \in Events /\ Sound(inbox[n][j], orderedAt')
  BY InboxDomain, StillInTime DEF InboxesSound
<1>2. CASE n # node
  BY <1>1, <1>2, RestMovesUp
<1>3. CASE n = node
  <2>1. DOMAIN inbox'[n] = 1..(Len(inbox[n]) - 1) /\ Len(inbox[n]) \in Nat
    BY <1>3, RestMovesUp, InboxDomain, LenProperties
  <2>2. i + 1 \in DOMAIN inbox[n]
    BY <2>1, InboxDomain
  <2> QED
    BY <1>1, <1>3, <2>1, <2>2, RestMovesUp
<1> QED
  BY <1>2, <1>3

LEMMA SoundIfUnchanged ==
    ASSUME TypeOK, InboxesSound, OrderedGrows, inbox' = inbox
    PROVE  InboxesSound'
<1> SUFFICES ASSUME NEW n \in Nodes, NEW i \in DOMAIN inbox[n]
             PROVE  Sound(inbox[n][i], orderedAt')
  BY DEF InboxesSound
<1> QED
  BY InboxDomain, StillInTime DEF InboxesSound

\* Rows nobody touched end in time, and so does a row of new ones that do.
LEMMA EndsAfter ==
    ASSUME TypeOK, BlocksEnd, OrderedGrows, NEW node \in Nodes, NEW new,
           until' = [until EXCEPT ![node] = new],
           \A ip \in Ips : new[ip] # 0 =>
              orderedAt'[ip] # 0 /\ new[ip] \in Nat /\ new[ip] <= Limit(ip)'
    PROVE  BlocksEnd'
<1>1. until \in [Nodes -> [Ips -> Times]]
  BY DEF TypeOK, Times
<1>2. \A n \in Nodes, ip \in Ips : until[n][ip] \in Nat /\ Limit(ip) \in Nat /\ Limit(ip)' \in Nat
  <2>1. Times \subseteq Nat /\ MaxAge \in Nat /\ DefaultTtl \in Nat
    BY GridAssumption DEF Times
  <2>2. orderedAt \in [Ips -> Nat] /\ orderedAt' \in [Ips -> Nat]
    BY DEF TypeOK, OrderedGrows
  <2> QED
    <3>1. \A n \in Nodes, ip \in Ips : until[n][ip] \in Times
      BY <1>1
    <3>2. \A ip \in Ips : Limit(ip) \in Nat /\ Limit(ip)' \in Nat
      BY <2>1, <2>2 DEF Limit, EndFor
    <3> QED
      BY <2>1, <3>1, <3>2
<1> SUFFICES ASSUME NEW n \in Nodes, NEW ip \in Ips, until'[n][ip] # 0
             PROVE  orderedAt'[ip] # 0 /\ until'[n][ip] <= Limit(ip)'
  BY DEF BlocksEnd, Limit, EndFor
<1>3. CASE n = node
  BY <1>1, <1>3
<1>4. CASE n # node
  <2>1. until'[n][ip] = until[n][ip]
    BY <1>1, <1>4
  <2>2. orderedAt[ip] # 0 /\ until[n][ip] <= Limit(ip)
    BY <2>1 DEF BlocksEnd, Limit, EndFor
  <2>3. Limit(ip) <= Limit(ip)'
    BY StillInTime
  <2> QED
    BY <1>2, <2>1, <2>2, <2>3 DEF OrderedGrows
<1> QED
  BY <1>3, <1>4

LEMMA EndsIfUnchanged ==
    ASSUME TypeOK, BlocksEnd, OrderedGrows, until' = until
    PROVE  BlocksEnd'
<1>1. \A n \in Nodes, ip \in Ips : until[n][ip] \in Nat
  BY GridAssumption DEF TypeOK
<1>2. \A ip \in Ips : Limit(ip) \in Nat /\ Limit(ip)' \in Nat /\ Limit(ip) <= Limit(ip)'
  <2>1. orderedAt \in [Ips -> Nat] /\ orderedAt' \in [Ips -> Nat]
    BY DEF TypeOK, OrderedGrows
  <2> QED
    BY <2>1, StillInTime, GridAssumption DEF Limit, EndFor
<1> SUFFICES ASSUME NEW n \in Nodes, NEW ip \in Ips, until[n][ip] # 0
             PROVE  orderedAt'[ip] # 0 /\ until[n][ip] <= Limit(ip)'
  BY DEF BlocksEnd, Limit, EndFor
<1>3. orderedAt[ip] # 0 /\ until[n][ip] <= Limit(ip)
  BY DEF BlocksEnd, Limit, EndFor
<1> QED
  BY <1>1, <1>2, <1>3 DEF OrderedGrows

\* A lift that stands still does when an event that does not ask for the address
\* comes to the inboxes, or the event that lifts it does.
LEMMA StandsAfterPublish ==
    ASSUME TypeOK, NEW node \in Nodes, NEW e \in Events, Publish(node, e),
           NEW n \in Nodes, NEW ip \in Ips,
           \/ LiftStands(n, ip) /\ ~Asks(e, ip) /\ until'[n][ip] = until[n][ip]
           \/ n # node /\ IsLift(e, ip) /\ ~Asks(e, ip)
    PROVE  LiftStands(n, ip)'
<1> DEFINE last == Len(inbox[n])
<1>1. /\ last \in Nat
      /\ DOMAIN inbox[n] = 1..last
  BY InboxDomain
<1>2. CASE n = node
  <2>1. inbox'[n] = inbox[n] /\ LiftStands(n, ip) /\ until'[n][ip] = until[n][ip]
    BY <1>2, PublishAppends
  <2> QED
    BY <2>1 DEF LiftStands, LiftPending
<1>3. CASE n # node
  <2>1. /\ DOMAIN inbox'[n] = 1..(last + 1)
        /\ \A i \in 1..last : inbox'[n][i] = inbox[n][i]
        /\ inbox'[n][last + 1] = e
    BY <1>1, <1>3, PublishAppends, LenProperties
  <2>2. CASE IsLift(e, ip) /\ ~Asks(e, ip)
    <3>1. last + 1 \in DOMAIN inbox'[n] /\ IsLift(inbox'[n][last + 1], ip)
      BY <1>1, <2>1, <2>2
    <3>2. LiftPending(n, ip)'
      BY <3>1 DEF LiftPending, IsLift
    <3>3. ASSUME NEW i \in DOMAIN inbox'[n], Asks(inbox'[n][i], ip)
          PROVE  last + 1 > i
      BY <1>1, <2>1, <2>2, <3>3
    <3> QED
      BY <3>1, <3>2, <3>3 DEF LiftStands
  <2>3. CASE LiftStands(n, ip) /\ ~Asks(e, ip) /\ until'[n][ip] = until[n][ip]
    <3>1. ASSUME until'[n][ip] # 0 PROVE LiftPending(n, ip)'
      <4>1. PICK j \in DOMAIN inbox[n] : /\ inbox[n][j].type \in {"unblock", "allow_add"}
                                         /\ inbox[n][j].ip = ip
        BY <2>3, <3>1 DEF LiftStands, LiftPending
      <4>2. j \in DOMAIN inbox'[n] /\ inbox'[n][j] = inbox[n][j]
        BY <1>1, <2>1, <4>1
      <4> QED
        BY <4>1, <4>2 DEF LiftPending
    <3>2. ASSUME NEW i \in DOMAIN inbox'[n], Asks(inbox'[n][i], ip)
          PROVE  \E j \in DOMAIN inbox'[n] : j > i /\ IsLift(inbox'[n][j], ip)
      <4>1. i \in DOMAIN inbox[n] /\ Asks(inbox[n][i], ip)
        BY <1>1, <2>1, <2>3, <3>2
      <4>2. PICK j \in DOMAIN inbox[n] : j > i /\ IsLift(inbox[n][j], ip)
        BY <2>3, <4>1 DEF LiftStands
      <4>3. j \in DOMAIN inbox'[n] /\ inbox'[n][j] = inbox[n][j]
        BY <1>1, <2>1, <4>2
      <4> QED
        BY <4>2, <4>3
    <3> QED
      BY <3>1, <3>2 DEF LiftStands
  <2> QED
    BY <1>3, <2>2, <2>3
<1> QED
  BY <1>2, <1>3

\* It still does after the first event, unless that was the lift itself; then
\* the address has to be free.
LEMMA StandsAfterRest ==
    ASSUME TypeOK, NEW node \in Nodes, inbox[node] # <<>>, inbox' = Rest(node),
           NEW n \in Nodes, NEW ip \in Ips, LiftStands(n, ip),
           \/ n # node /\ until'[n][ip] = until[n][ip]
           \/ until'[n][ip] = 0
           \/ /\ n = node /\ ~IsLift(Head(inbox[n]), ip)
              /\ \/ until'[n][ip] = until[n][ip]
                 \/ Asks(Head(inbox[n]), ip)
    PROVE  LiftStands(n, ip)'
<1>1. CASE n # node
  <2>1. inbox'[n] = inbox[n]
    BY <1>1, RestMovesUp
  <2> QED
    BY <1>1, <2>1 DEF LiftStands, LiftPending
<1>2. CASE n = node
  <2> DEFINE last == Len(inbox[n])
  <2>1. /\ last \in Nat
        /\ DOMAIN inbox[n] = 1..last
        /\ DOMAIN inbox'[n] = 1..(last - 1)
        /\ \A i \in 1..(last - 1) : inbox'[n][i] = inbox[n][i + 1]
        /\ Head(inbox[n]) = inbox[n][1]
        /\ 1 \in DOMAIN inbox[n]
    BY <1>2, RestMovesUp, InboxDomain, LenProperties
  <2>2. ASSUME NEW j \in DOMAIN inbox[n], j > 1
        PROVE  j - 1 \in DOMAIN inbox'[n] /\ inbox'[n][j - 1] = inbox[n][j]
    BY <2>1, <2>2
  <2>3. ASSUME NEW i \in DOMAIN inbox'[n], Asks(inbox'[n][i], ip)
        PROVE  \E j \in DOMAIN inbox'[n] : j > i /\ IsLift(inbox'[n][j], ip)
    <3>1. i + 1 \in DOMAIN inbox[n] /\ Asks(inbox[n][i + 1], ip) /\ i \in Nat
      BY <2>1, <2>3
    <3>2. PICK j \in DOMAIN inbox[n] : j > i + 1 /\ IsLift(inbox[n][j], ip)
      BY <3>1 DEF LiftStands
    <3>3. j > 1 /\ j - 1 > i
      BY <2>1, <3>1, <3>2
    <3> QED
      BY <2>2, <3>2, <3>3
  <2>4. ASSUME until'[n][ip] # 0
        PROVE  LiftPending(n, ip)'
    <3>1. \E j \in DOMAIN inbox[n] : j > 1 /\ IsLift(inbox[n][j], ip)
      <4>1. ~IsLift(inbox[n][1], ip)
        BY <1>2, <2>1, <2>4
      <4>2. CASE until'[n][ip] = until[n][ip]
        <5>1. PICK j \in DOMAIN inbox[n] : IsLift(inbox[n][j], ip)
          BY <2>4, <4>2 DEF LiftStands, LiftPending, IsLift
        <5>2. j > 1
          BY <2>1, <4>1, <5>1
        <5> QED
          BY <5>1, <5>2
      <4>3. CASE Asks(inbox[n][1], ip)
        BY <2>1, <4>3 DEF LiftStands
      <4> QED
        BY <1>2, <2>1, <2>4, <4>2, <4>3
    <3>2. PICK j \in DOMAIN inbox[n] : j > 1 /\ IsLift(inbox[n][j], ip)
      BY <3>1
    <3> QED
      BY <2>2, <3>2 DEF LiftPending, IsLift
  <2> QED
    BY <2>3, <2>4 DEF LiftStands
<1> QED
  BY <1>1, <1>2

\* The types of the inboxes.
InboxesTyped ==
    /\ inbox \in [Nodes -> Seq(Events)]
    /\ \A n \in Nodes : /\ Len(inbox[n]) <= MaxQueue
                        /\ \A i \in DOMAIN inbox[n] : inbox[n][i].ts <= clock

LEMMA TypedAfterPublish ==
    ASSUME TypeOK, NEW node \in Nodes, NEW e \in Events, e.ts <= clock,
           Publish(node, e), clock' = clock
    PROVE  InboxesTyped'
<1>1. inbox' \in [Nodes -> Seq(Events)] /\ \A n \in Nodes : Len(inbox'[n]) <= MaxQueue
  BY PublishAppends
<1>2. ASSUME NEW n \in Nodes, NEW i \in DOMAIN inbox'[n]
      PROVE  inbox'[n][i].ts <= clock
  <2>1. CASE n = node
    BY <1>2, <2>1, PublishAppends, InboxDomain
  <2>2. CASE n # node
    <3>1. DOMAIN inbox'[n] = 1..(Len(inbox[n]) + 1) /\ Len(inbox[n]) \in Nat
      BY <2>2, PublishAppends, InboxDomain, LenProperties
    <3>2. CASE i = Len(inbox[n]) + 1
      BY <2>2, <3>2, PublishAppends
    <3>3. CASE i # Len(inbox[n]) + 1
      <4>1. i \in 1..Len(inbox[n])
        BY <1>2, <3>1, <3>3
      <4> QED
        BY <2>2, <4>1, PublishAppends, InboxDomain
    <3> QED
      BY <3>2, <3>3
  <2> QED
    BY <2>1, <2>2
<1> QED
  BY <1>1, <1>2 DEF InboxesTyped

LEMMA TypedAfterRest ==
    ASSUME TypeOK, NEW node \in Nodes, inbox[node] # <<>>, inbox' = Rest(node),
           clock' = clock
    PROVE  InboxesTyped'
<1>1. inbox' \in [Nodes -> Seq(Events)]
  BY RestMovesUp
<1>2. ASSUME NEW n \in Nodes
      PROVE  /\ Len(inbox'[n]) <= MaxQueue
             /\ \A i \in DOMAIN inbox'[n] : inbox'[n][i].ts <= clock
  <2>1. Len(inbox[n]) \in Nat /\ Len(inbox[n]) <= MaxQueue /\ MaxQueue \in Nat
    BY InboxDomain, GridAssumption DEF TypeOK
  <2>2. CASE n # node
    BY <2>1, <2>2, RestMovesUp, InboxDomain
  <2>3. CASE n = node
    <3>1. /\ DOMAIN inbox'[n] = 1..(Len(inbox[n]) - 1)
          /\ Len(inbox'[n]) = Len(inbox[n]) - 1
          /\ \A i \in 1..(Len(inbox[n]) - 1) : inbox'[n][i] = inbox[n][i + 1]
      BY <1>1, <2>3, RestMovesUp, LenProperties
    <3>2. \A i \in 1..(Len(inbox[n]) - 1) : i + 1 \in DOMAIN inbox[n]
      BY <2>1, InboxDomain
    <3>3. \A i \in DOMAIN inbox'[n] : inbox'[n][i].ts <= clock
      BY <3>1, <3>2, InboxDomain
    <3> QED
      BY <2>1, <3>1, <3>3
  <2> QED
    BY <2>2, <2>3
<1> QED
  BY <1>1, <1>2 DEF InboxesTyped

-----------------------------------------------------------------------------
(* Action by action.                                                       *)

LEMMA TickStep == GridInv /\ Tick => GridInv'
<1> SUFFICES ASSUME GridInv, Tick PROVE GridInv'
  OBVIOUS
<1>1. clock \in Nat /\ clock' = clock + 1 /\ clock' \in 1..MaxClock
  BY GridAssumption DEF GridInv, TypeOK, Tick
<1>2. TypeOK /\ BlocksEnd /\ InboxesSound /\ LiftsStand
  BY DEF GridInv
<1>3. UNCHANGED <<until, allowlist, outbox, inbox, left, orderedAt, lifted, missed, echoed>>
  BY DEF Tick, nodeVars, ghosts
<1>4. OrderedGrows
  BY <1>1, <1>2, <1>3, UnchangedGrows
<1>5. TypeOK'
  <2>1. \A n \in Nodes : \A i \in DOMAIN inbox[n] : inbox[n][i].ts <= clock + 1
    <3>1. \A n \in Nodes : \A i \in DOMAIN inbox[n] :
             inbox[n][i].ts \in 0..MaxClock /\ inbox[n][i].ts <= clock
      BY <1>2, InboxDomain, EventFields
    <3> QED
      BY <1>1, <3>1
  <2>2. orderedAt' \in [Ips -> 0..clock']
    BY <1>4 DEF OrderedGrows
  <2> QED
    BY <1>1, <1>2, <1>3, <2>1, <2>2 DEF TypeOK
<1>6. BlocksEnd' /\ InboxesSound'
  BY <1>2, <1>3, <1>4, EndsIfUnchanged, SoundIfUnchanged
<1>7. LiftsStand'
  BY <1>2, <1>3 DEF LiftsStand, LiftStands, LiftPending
<1> QED
  BY <1>5, <1>6, <1>7 DEF GridInv

\* A request is one more event for the other nodes.
LEMMA RequestTyped ==
    ASSUME TypeOK, NEW type \in Commands, NEW ip \in Ips, Request(type, ip)
    PROVE  /\ InboxesTyped'
           /\ Publish(ApiNode, [type |-> type, ip |-> ip, ts |-> clock])
           /\ [type |-> type, ip |-> ip, ts |-> clock] \in Events
           /\ left' \in [{"requests", "detections", "faults"} -> Nat]
           /\ UNCHANGED <<clock, until, allowlist, outbox>>
           /\ clock \in 1..MaxClock /\ clock \in Nat
<1>1. clock \in 1..MaxClock /\ clock \in Nat /\ clock \in 0..MaxClock
  BY GridAssumption DEF TypeOK
<1>2. [type |-> type, ip |-> ip, ts |-> clock] \in Events
  BY <1>1, CommandIsEvent
<1>3. /\ Publish(ApiNode, [type |-> type, ip |-> ip, ts |-> clock])
      /\ UNCHANGED <<clock, until, allowlist, outbox>>
  BY DEF Request, nodeVars
<1>4. InboxesTyped'
  BY <1>1, <1>2, <1>3, TypedAfterPublish, GridAssumption
<1>5. left' \in [{"requests", "detections", "faults"} -> Nat]
  BY DEF TypeOK, Request, Spend
<1> QED
  BY <1>1, <1>2, <1>3, <1>4, <1>5

LEMMA ApiBlockStep == ASSUME GridInv, NEW ip \in Ips, ApiBlock(ip) PROVE GridInv'
<1> DEFINE e == [type |-> "block", ip |-> ip, ts |-> clock]
<1>1. TypeOK /\ BlocksEnd /\ InboxesSound /\ LiftsStand
  BY DEF GridInv
<1>2. Request("block", ip) /\ NoteBlock(ip) /\ "block" \in Commands
  BY DEF ApiBlock, Commands
<1>3. /\ InboxesTyped' /\ Publish(ApiNode, e) /\ e \in Events
      /\ left' \in [{"requests", "detections", "faults"} -> Nat]
      /\ UNCHANGED <<clock, until, allowlist, outbox>>
      /\ clock \in 1..MaxClock /\ clock \in Nat
  BY <1>1, <1>2, RequestTyped
<1>4. OrderedGrows /\ orderedAt'[ip] = clock /\ orderedAt'[ip] # 0
  BY <1>1, <1>2, <1>3, NoteBlockGrows
<1>5. TypeOK'
  BY <1>1, <1>2, <1>3, <1>4 DEF TypeOK, InboxesTyped, OrderedGrows, NoteBlock
<1>6. Sound(e, orderedAt')
  BY <1>3, <1>4 DEF Sound
<1>7. BlocksEnd' /\ InboxesSound'
  BY <1>1, <1>3, <1>4, <1>6, GridAssumption, EndsIfUnchanged, SoundAfterPublish
<1>8. LiftsStand'
  <2> SUFFICES ASSUME NEW n \in Nodes \ {ApiNode}, NEW j \in (lifted \ echoed)',
                      <<n, j>> \notin missed'
               PROVE  LiftStands(n, j)'
    BY DEF LiftsStand
  <2>1. j \in lifted \ echoed /\ j # ip /\ <<n, j>> \notin missed /\ j \in Ips
    BY <1>1, <1>2 DEF NoteBlock, TypeOK
  <2>2. LiftStands(n, j) /\ ~Asks(e, j)
    BY <1>1, <2>1 DEF LiftsStand, Asks
  <2> QED
    BY <1>1, <1>3, <2>1, <2>2, GridAssumption, StandsAfterPublish
<1> QED
  BY <1>5, <1>7, <1>8 DEF GridInv

\* unblock and allow_add
LEMMA LiftRequestStep ==
    ASSUME GridInv, NEW ip \in Ips, NEW type \in {"unblock", "allow_add"},
           Request(type, ip), NoteLift(ip)
    PROVE  GridInv'
<1> DEFINE e == [type |-> type, ip |-> ip, ts |-> clock]
<1>1. TypeOK /\ BlocksEnd /\ InboxesSound /\ LiftsStand
  BY DEF GridInv
<1>2. type \in Commands
  BY DEF Commands
<1>3. /\ InboxesTyped' /\ Publish(ApiNode, e) /\ e \in Events
      /\ left' \in [{"requests", "detections", "faults"} -> Nat]
      /\ UNCHANGED <<clock, until, allowlist, outbox>>
      /\ clock \in 1..MaxClock /\ clock \in Nat
  BY <1>1, <1>2, RequestTyped
<1>4. OrderedGrows
  BY <1>1, <1>3, UnchangedGrows DEF NoteLift
<1>5. TypeOK'
  BY <1>1, <1>3, <1>4 DEF TypeOK, InboxesTyped, OrderedGrows, NoteLift
<1>6. Sound(e, orderedAt')
  BY DEF Sound
<1>7. BlocksEnd' /\ InboxesSound'
  BY <1>1, <1>3, <1>4, <1>6, GridAssumption, EndsIfUnchanged, SoundAfterPublish
<1>8. LiftsStand'
  <2> SUFFICES ASSUME NEW n \in Nodes \ {ApiNode}, NEW j \in (lifted \ echoed)',
                      <<n, j>> \notin missed'
               PROVE  LiftStands(n, j)'
    BY DEF LiftsStand
  <2>1. ~Asks(e, j) /\ j \in Ips
    BY <1>1 DEF Asks, NoteLift, TypeOK
  <2>2. CASE j = ip
    <3>1. IsLift(e, j)
      BY <2>2 DEF IsLift
    <3> QED
      BY <1>1, <1>3, <2>1, <3>1, GridAssumption, StandsAfterPublish
  <2>3. CASE j # ip
    <3>1. j \in lifted \ echoed /\ <<n, j>> \notin missed
      BY <2>3 DEF NoteLift
    <3>2. LiftStands(n, j)
      BY <1>1, <3>1 DEF LiftsStand
    <3> QED
      BY <1>1, <1>3, <2>1, <3>2, GridAssumption, StandsAfterPublish
  <2> QED
    BY <2>2, <2>3
<1> QED
  BY <1>5, <1>7, <1>8 DEF GridInv

LEMMA ApiAllowRemoveStep ==
    ASSUME GridInv, NEW ip \in Ips, ApiAllowRemove(ip) PROVE GridInv'
<1> DEFINE e == [type |-> "allow_remove", ip |-> ip, ts |-> clock]
<1>1. TypeOK /\ BlocksEnd /\ InboxesSound /\ LiftsStand
  BY DEF GridInv
<1>2. Request("allow_remove", ip) /\ "allow_remove" \in Commands
  BY DEF ApiAllowRemove, Commands
<1>3. /\ InboxesTyped' /\ Publish(ApiNode, e) /\ e \in Events
      /\ left' \in [{"requests", "detections", "faults"} -> Nat]
      /\ UNCHANGED <<clock, until, allowlist, outbox>>
      /\ clock \in 1..MaxClock /\ clock \in Nat
  BY <1>1, <1>2, RequestTyped
<1>4. UNCHANGED <<orderedAt, lifted, missed, echoed>>
  BY DEF ApiAllowRemove, ghosts
<1>5. OrderedGrows
  BY <1>1, <1>3, <1>4, UnchangedGrows
<1>6. TypeOK'
  BY <1>1, <1>3, <1>4 DEF TypeOK, InboxesTyped
<1>7. Sound(e, orderedAt') /\ \A j : ~Asks(e, j)
  BY DEF Sound, Asks
<1>8. BlocksEnd' /\ InboxesSound'
  BY <1>1, <1>3, <1>5, <1>7, GridAssumption, EndsIfUnchanged, SoundAfterPublish
<1>9. LiftsStand'
  <2> SUFFICES ASSUME NEW n \in Nodes \ {ApiNode}, NEW j \in lifted \ echoed,
                      <<n, j>> \notin missed
               PROVE  LiftStands(n, j)'
    BY <1>4 DEF LiftsStand
  <2>1. LiftStands(n, j) /\ j \in Ips
    BY <1>1 DEF LiftsStand, TypeOK
  <2> QED
    BY <1>1, <1>3, <1>7, <2>1, GridAssumption, StandsAfterPublish
<1> QED
  BY <1>6, <1>8, <1>9 DEF GridInv

LEMMA StandsIfUnchanged ==
    ASSUME NEW n \in Nodes, NEW ip \in Ips, LiftStands(n, ip), inbox'[n] = inbox[n],
           until'[n][ip] = until[n][ip] \/ until'[n][ip] = 0
    PROVE  LiftStands(n, ip)'
BY DEF LiftStands, LiftPending

LEMMA DetectStep ==
    ASSUME GridInv, NEW node \in Nodes, NEW ip \in Ips, Detect(node, ip) PROVE GridInv'
<1> DEFINE ends == Only(ip, clock + EffectiveTtl(DefaultTtl))
           new == Enforced(node, ends)
<1>1. TypeOK /\ BlocksEnd /\ InboxesSound /\ LiftsStand
  BY DEF GridInv
<1>2. /\ until' = [until EXCEPT ![node] = new]
      /\ outbox' = [outbox EXCEPT ![node] = @ \cup {ip}]
      /\ NoteBlock(ip) /\ Spend("detections")
      /\ UNCHANGED <<clock, allowlist, inbox>>
  BY DEF Detect
<1>3. OrderedGrows /\ orderedAt'[ip] = clock /\ orderedAt'[ip] # 0
  BY <1>1, <1>2, NoteBlockGrows
<1>4. /\ clock \in 1..MaxClock /\ clock \in Nat /\ MaxClock \in Nat
      /\ MaxAge \in Nat /\ DefaultTtl \in Nat
  BY <1>1, GridAssumption DEF TypeOK
<1>5. \A j \in Ips : ends[j] = IF j = ip THEN clock + DefaultTtl ELSE 0
  BY EffectiveTtlDefault DEF Only
<1>6. until[node] \in [Ips -> Times] /\ until \in [Nodes -> [Ips -> Times]]
  BY <1>1 DEF TypeOK, Times
<1>7. /\ new[ip] = clock + DefaultTtl \/ new[ip] = until[node][ip]
      /\ \A j \in Ips \ {ip} : new[j] = until[node][j]
  BY <1>5 DEF Enforced
<1>8. /\ new \in [Ips -> Times]
      /\ \A j \in Ips : new[j] # 0 =>
           orderedAt'[j] # 0 /\ new[j] \in Nat /\ new[j] <= Limit(j)'
  <2>1. clock + DefaultTtl \in Times /\ Times \subseteq Nat
    BY <1>4 DEF Times
  <2>2. clock + DefaultTtl <= Limit(ip)'
    BY <1>3, <1>4 DEF Limit, EndFor
  <2>3. \A j \in Ips : Limit(j) \in Nat /\ Limit(j)' \in Nat /\ Limit(j) <= Limit(j)'
    <3>1. orderedAt \in [Ips -> Nat] /\ orderedAt' \in [Ips -> Nat]
      BY <1>1, <1>3, <1>4 DEF TypeOK, OrderedGrows
    <3> QED
      BY <1>1, <1>3, <1>4, <3>1, StillInTime DEF Limit, EndFor
  <2>4. \A j \in Ips : until[node][j] # 0 =>
           orderedAt'[j] # 0 /\ until[node][j] <= Limit(j)'
    <3>1. \A j \in Ips : until[node][j] # 0 => orderedAt[j] # 0 /\ until[node][j] <= Limit(j)
      BY <1>1 DEF BlocksEnd, Limit, EndFor
    <3>2. \A j \in Ips : until[node][j] \in Nat
      BY <1>6, <2>1
    <3> QED
      BY <1>3, <2>3, <3>1, <3>2 DEF OrderedGrows
  <2>5. \A j \in Ips : new[j] \in Times
    BY <1>6, <1>7, <2>1
  <2>6. new \in [Ips -> Times]
    BY <2>5 DEF Enforced
  <2> QED
    BY <1>3, <1>6, <1>7, <2>1, <2>2, <2>4, <2>6
<1>9. TypeOK'
  <2>1. until' \in [Nodes -> [Ips -> Times]]
    BY <1>2, <1>6, <1>8
  <2>2. left' \in [{"requests", "detections", "faults"} -> Nat]
    BY <1>1, <1>2 DEF TypeOK, Spend
  <2> HIDE DEF new
  <2> QED
    BY <1>1, <1>2, <1>3, <2>1, <2>2 DEF TypeOK, OrderedGrows, NoteBlock, Times
<1>10. BlocksEnd'
  <2> HIDE DEF new
  <2> QED
    BY <1>1, <1>2, <1>3, <1>8, EndsAfter
<1>11. InboxesSound'
  BY <1>1, <1>2, <1>3, SoundIfUnchanged
<1>12. LiftsStand'
  <2> SUFFICES ASSUME NEW n \in Nodes \ {ApiNode}, NEW j \in (lifted \ echoed)',
                      <<n, j>> \notin missed'
               PROVE  LiftStands(n, j)'
    BY DEF LiftsStand
  <2>1. j \in lifted \ echoed /\ j # ip /\ <<n, j>> \notin missed /\ j \in Ips
    BY <1>1, <1>2 DEF NoteBlock, TypeOK
  <2>2. until'[n][j] = until[n][j]
    BY <1>2, <1>6, <1>7, <2>1
  <2> QED
    BY <1>1, <1>2, <2>1, <2>2, StandsIfUnchanged DEF LiftsStand
<1> QED
  BY <1>9, <1>10, <1>11, <1>12 DEF GridInv

LEMMA PumpOutStep ==
    ASSUME GridInv, NEW node \in Nodes, NEW ip \in Ips, PumpOut(node, ip) PROVE GridInv'
<1> DEFINE e == [type |-> "block", ip |-> ip, ts |-> clock]
<1>1. TypeOK /\ BlocksEnd /\ InboxesSound /\ LiftsStand
  BY DEF GridInv
<1>2. /\ outbox' = [outbox EXCEPT ![node] = @ \ {ip}]
      /\ Publish(node, e) /\ NoteBlock(ip)
      /\ UNCHANGED <<clock, until, allowlist, left>>
  BY DEF PumpOut, nodeVars
<1>3. OrderedGrows /\ orderedAt'[ip] = clock /\ orderedAt'[ip] # 0
  BY <1>1, <1>2, NoteBlockGrows
<1>4. clock \in 1..MaxClock /\ clock \in Nat /\ clock \in 0..MaxClock
  BY <1>1, GridAssumption DEF TypeOK
<1>5. e \in Events
  BY <1>4, CommandIsEvent DEF Commands
<1>6. InboxesTyped'
  BY <1>1, <1>2, <1>4, <1>5, TypedAfterPublish
<1>7. TypeOK'
  BY <1>1, <1>2, <1>3, <1>6 DEF TypeOK, InboxesTyped, OrderedGrows, NoteBlock
<1>8. Sound(e, orderedAt')
  BY <1>3, <1>4 DEF Sound
<1>9. BlocksEnd' /\ InboxesSound'
  BY <1>1, <1>2, <1>3, <1>5, <1>8, EndsIfUnchanged, SoundAfterPublish
<1>10. LiftsStand'
  <2> SUFFICES ASSUME NEW n \in Nodes \ {ApiNode}, NEW j \in (lifted \ echoed)',
                      <<n, j>> \notin missed'
               PROVE  LiftStands(n, j)'
    BY DEF LiftsStand
  <2>1. j \in lifted \ echoed /\ j # ip /\ <<n, j>> \notin missed /\ j \in Ips
    BY <1>1, <1>2 DEF NoteBlock, TypeOK
  <2>2. LiftStands(n, j) /\ ~Asks(e, j)
    BY <1>1, <2>1 DEF LiftsStand, Asks
  <2> QED
    BY <1>1, <1>2, <1>5, <2>1, <2>2, StandsAfterPublish
<1> QED
  BY <1>7, <1>9, <1>10 DEF GridInv

LEMMA ExpireStep == ASSUME GridInv, NEW node \in Nodes, Expire(node) PROVE GridInv'
<1> DEFINE new == [ip \in Ips |-> IF ip \in Expired(node) THEN 0 ELSE until[node][ip]]
<1>1. TypeOK /\ BlocksEnd /\ InboxesSound /\ LiftsStand
  BY DEF GridInv
<1>2. until' = [until EXCEPT ![node] =
                  [ip \in Ips |-> IF ip \in Expired(node) THEN 0 ELSE @[ip]]]
  BY DEF Expire
<1>3. UNCHANGED <<clock, allowlist, outbox, inbox, left, orderedAt, lifted, missed, echoed>>
  BY DEF Expire, ghosts
<1>4. until \in [Nodes -> [Ips -> Times]] /\ Times \subseteq Nat /\ 0 \in Times
  BY <1>1, GridAssumption DEF TypeOK, Times
<1>5. until' = [until EXCEPT ![node] = new]
  BY <1>2, <1>4
<1>6. clock \in Nat
  BY <1>1, GridAssumption DEF TypeOK
<1>7. OrderedGrows
  BY <1>1, <1>3, <1>6, UnchangedGrows
<1>8. new \in [Ips -> Times] /\ \A ip \in Ips : new[ip] = 0 \/ new[ip] = until[node][ip]
  BY <1>4
<1>9. TypeOK'
  <2>1. until' \in [Nodes -> [Ips -> Times]]
    BY <1>4, <1>5, <1>8
  <2> QED
    BY <1>1, <1>3, <2>1 DEF TypeOK, Times
<1>10. BlocksEnd'
  <2>1. \A ip \in Ips : orderedAt[ip] <= orderedAt'[ip] /\ Limit(ip)' = Limit(ip)
    BY <1>3, <1>7 DEF OrderedGrows, Limit, EndFor
  <2>2. \A ip \in Ips : new[ip] # 0 =>
           orderedAt'[ip] # 0 /\ new[ip] \in Nat /\ new[ip] <= Limit(ip)'
    BY <1>1, <1>3, <1>4, <1>8, <2>1 DEF BlocksEnd, Limit, EndFor
  <2> HIDE DEF new
  <2> QED
    BY <1>1, <1>5, <1>7, <2>2, EndsAfter
<1>11. InboxesSound'
  BY <1>1, <1>3, <1>7, SoundIfUnchanged
<1>12. LiftsStand'
  <2> SUFFICES ASSUME NEW n \in Nodes \ {ApiNode}, NEW j \in lifted \ echoed,
                      <<n, j>> \notin missed
               PROVE  LiftStands(n, j)'
    BY <1>3 DEF LiftsStand
  <2>1. j \in Ips /\ LiftStands(n, j)
    BY <1>1 DEF TypeOK, LiftsStand
  <2>2. until'[n][j] = until[n][j] \/ until'[n][j] = 0
    BY <1>4, <1>5, <1>8, <2>1
  <2> QED
    BY <1>3, <2>1, <2>2, StandsIfUnchanged
<1> QED
  BY <1>9, <1>10, <1>11, <1>12 DEF GridInv

LEMMA SendSyncStep == ASSUME GridInv, NEW node \in Nodes, SendSync(node) PROVE GridInv'
<1> DEFINE blocks == {[ip |-> ip, expires |-> until[node][ip]] : ip \in Listed(node)}
           e == [type |-> "sync_state", ts |-> clock, blocks |-> blocks]
<1>1. TypeOK /\ BlocksEnd /\ InboxesSound /\ LiftsStand
  BY DEF GridInv
<1>2. /\ Publish(node, e)
      /\ echoed' = echoed \cup (lifted \cap Listed(node))
      /\ UNCHANGED <<clock, until, allowlist, outbox, left, orderedAt, lifted, missed>>
  BY DEF SendSync, nodeVars
<1>3. clock \in 1..MaxClock /\ clock \in Nat /\ clock \in 0..MaxClock
  BY <1>1, GridAssumption DEF TypeOK
<1>4. OrderedGrows
  BY <1>1, <1>2, <1>3, UnchangedGrows
<1>5. \A ip \in Listed(node) : ip \in Ips /\ until[node][ip] > clock
  BY DEF Listed, Active
<1>6. blocks \subseteq Entries
  <2>1. ASSUME NEW ip \in Listed(node)
        PROVE  until[node][ip] \in 1..(MaxClock + DefaultTtl)
    <3>1. ip \in Ips /\ until[node][ip] > clock
      BY <1>5
    <3>2. until[node][ip] \in 0..(MaxClock + DefaultTtl)
      BY <1>1, <3>1 DEF TypeOK
    <3> QED
      BY <1>3, <3>1, <3>2, GridAssumption
  <2> QED
    BY <1>5, <2>1 DEF Entries
<1>7. e \in Events /\ e.ts <= clock
  BY <1>3, <1>6 DEF Events
<1>8. InboxesTyped'
  BY <1>1, <1>2, <1>7, TypedAfterPublish
<1>9. TypeOK'
  BY <1>1, <1>2, <1>4, <1>8 DEF TypeOK, InboxesTyped, OrderedGrows
<1>10. Sound(e, orderedAt')
  <2>1. ASSUME NEW ip \in Listed(node)
        PROVE  orderedAt[ip] # 0 /\ until[node][ip] <= EndFor(orderedAt[ip])
    <3>1. ip \in Ips /\ until[node][ip] > clock
      BY <1>5
    <3>2. until[node][ip] # 0
      BY <1>3, <3>1
    <3> QED
      BY <1>1, <3>1, <3>2 DEF BlocksEnd, EndFor
  <2>2. \A b \in blocks : orderedAt'[b.ip] # 0 /\ b.expires <= EndFor(orderedAt'[b.ip])
    BY <1>2, <2>1
  <2> QED
    BY <2>2 DEF Sound
<1>11. BlocksEnd' /\ InboxesSound'
  BY <1>1, <1>2, <1>4, <1>7, <1>10, EndsIfUnchanged, SoundAfterPublish
<1>12. LiftsStand'
  <2> SUFFICES ASSUME NEW n \in Nodes \ {ApiNode}, NEW j \in (lifted \ echoed)',
                      <<n, j>> \notin missed'
               PROVE  LiftStands(n, j)'
    BY DEF LiftsStand
  <2>1. j \in lifted \ echoed /\ j \notin Listed(node) /\ <<n, j>> \notin missed /\ j \in Ips
    BY <1>1, <1>2 DEF TypeOK
  <2>2. ~Asks(e, j)
    BY <2>1 DEF Asks
  <2>3. LiftStands(n, j)
    BY <1>1, <2>1 DEF LiftsStand
  <2> QED
    BY <1>1, <1>2, <1>7, <2>1, <2>2, <2>3, StandsAfterPublish
<1> QED
  BY <1>9, <1>11, <1>12 DEF GridInv

LEMMA RejectStep == ASSUME GridInv, NEW node \in Nodes, Reject(node) PROVE GridInv'
<1> DEFINE e == Head(inbox[node])
<1>1. TypeOK /\ BlocksEnd /\ InboxesSound /\ LiftsStand
  BY DEF GridInv
<1>2. /\ inbox[node] # <<>> /\ inbox' = Rest(node)
      /\ missed' = IF Lifts(e) THEN missed \cup {<<node, e.ip>>} ELSE missed
      /\ UNCHANGED <<clock, until, allowlist, outbox, left, orderedAt, lifted, echoed>>
  BY DEF Reject, nodeVars
<1>3. clock \in Nat /\ e \in Events
  BY <1>1, <1>2, GridAssumption, RestMovesUp DEF TypeOK
<1>4. OrderedGrows
  BY <1>1, <1>2, <1>3, UnchangedGrows
<1>5. Lifts(e) => e.ip \in Ips
  BY <1>3, EventFields DEF Lifts, Commands
<1>6. InboxesTyped'
  BY <1>1, <1>2, TypedAfterRest
<1>7. missed' \subseteq Nodes \X Ips
  BY <1>1, <1>2, <1>5 DEF TypeOK
<1>8. TypeOK'
  BY <1>1, <1>2, <1>4, <1>6, <1>7 DEF TypeOK, InboxesTyped, OrderedGrows
<1>9. BlocksEnd' /\ InboxesSound'
  BY <1>1, <1>2, <1>4, EndsIfUnchanged, SoundAfterRest
<1>10. LiftsStand'
  <2> SUFFICES ASSUME NEW n \in Nodes \ {ApiNode}, NEW j \in lifted \ echoed,
                      <<n, j>> \notin missed'
               PROVE  LiftStands(n, j)'
    BY <1>2 DEF LiftsStand
  <2>1. j \in Ips /\ LiftStands(n, j)
    BY <1>1, <1>2 DEF LiftsStand, TypeOK
  <2>2. n = node => ~IsLift(Head(inbox[n]), j)
    BY <1>2 DEF IsLift, Lifts
  <2> QED
    BY <1>1, <1>2, <2>1, <2>2, StandsAfterRest
<1> QED
  BY <1>8, <1>9, <1>10 DEF GridInv

\* Enforcing what the first event asks for, whole or in part.
LEMMA EnforceStep ==
    ASSUME GridInv, NEW node \in Nodes, inbox[node] # <<>>, inbox' = Rest(node),
           Head(inbox[node]).type \in {"block", "sync_state"},
           NEW ends, Ends_ok(ends),
           \A ip \in Ips : ends[ip] > 0 => Asks(Head(inbox[node]), ip),
           until' = [until EXCEPT ![node] = Enforced(node, ends)],
           left' \in [{"requests", "detections", "faults"} -> Nat],
           UNCHANGED <<clock, allowlist, outbox, orderedAt, lifted, missed, echoed>>
    PROVE  GridInv'
<1> DEFINE new == Enforced(node, ends)
<1>1. TypeOK /\ BlocksEnd /\ InboxesSound /\ LiftsStand
  BY DEF GridInv
<1>2. clock \in Nat
  BY <1>1, GridAssumption DEF TypeOK
<1>3. OrderedGrows
  BY <1>1, <1>2, UnchangedGrows
<1>4. /\ new \in [Ips -> Times]
      /\ \A ip \in Ips : new[ip] # 0 => orderedAt[ip] # 0 /\ new[ip] <= Limit(ip)
  BY <1>1, EnforcedSound
<1>5. until \in [Nodes -> [Ips -> Times]] /\ Times \subseteq Nat
  BY <1>1, GridAssumption DEF TypeOK, Times
<1>6. InboxesTyped'
  BY <1>1, TypedAfterRest
<1>7. TypeOK'
  <2>1. until' \in [Nodes -> [Ips -> Times]]
    BY <1>4, <1>5
  <2> HIDE DEF new
  <2> QED
    BY <1>1, <1>3, <1>6, <2>1 DEF TypeOK, InboxesTyped, OrderedGrows, Times
<1>8. BlocksEnd'
  <2>1. \A ip \in Ips : Limit(ip)' = Limit(ip)
    BY DEF Limit, EndFor
  <2>2. \A ip \in Ips : new[ip] # 0 =>
           orderedAt'[ip] # 0 /\ new[ip] \in Nat /\ new[ip] <= Limit(ip)'
    BY <1>4, <1>5, <2>1
  <2>3. until' = [until EXCEPT ![node] = new]
    OBVIOUS
  <2> HIDE DEF new
  <2> QED
    BY <1>1, <1>3, <2>2, <2>3, EndsAfter
<1>9. InboxesSound'
  BY <1>1, <1>3, SoundAfterRest
<1>10. LiftsStand'
  <2> SUFFICES ASSUME NEW n \in Nodes \ {ApiNode}, NEW j \in lifted \ echoed,
                      <<n, j>> \notin missed
               PROVE  LiftStands(n, j)'
    BY DEF LiftsStand
  <2>1. j \in Ips /\ LiftStands(n, j)
    BY <1>1 DEF LiftsStand, TypeOK
  <2>2. CASE n # node
    BY <1>1, <1>5, <2>1, <2>2, StandsAfterRest
  <2>3. CASE n = node
    <3>1. ~IsLift(Head(inbox[n]), j)
      BY <2>3 DEF IsLift
    <3>2. until'[n][j] = new[j]
      BY <1>4, <1>5, <2>1, <2>3
    <3>3. new[j] = until[n][j] \/ Asks(Head(inbox[n]), j)
      BY <2>1, <2>3 DEF Enforced
    <3> HIDE DEF new
    <3> QED
      BY <1>1, <2>1, <2>3, <3>1, <3>2, <3>3, StandsAfterRest
  <2> QED
    BY <2>2, <2>3
<1> QED
  BY <1>7, <1>8, <1>9, <1>10 DEF GridInv

LEMMA HandleBlockStep ==
    ASSUME GridInv, NEW node \in Nodes, HandleBlock(node) PROVE GridInv'
<1> DEFINE e == Head(inbox[node])
           ends == Ends(node, e)
<1>1. TypeOK /\ BlocksEnd /\ InboxesSound /\ LiftsStand
  BY DEF GridInv
<1>2. /\ inbox[node] # <<>> /\ inbox' = Rest(node)
      /\ e.type \in {"block", "sync_state"} /\ Fresh(e)
      /\ UNCHANGED <<clock, allowlist, outbox, orderedAt, lifted, missed, echoed>>
  BY DEF HandleBlock, ghosts
<1>3. 1 \in DOMAIN inbox[node] /\ e = inbox[node][1]
  BY <1>1, <1>2, RestMovesUp
<1>4. Ends_ok(ends) /\ \A ip \in Ips : ends[ip] > 0 => Asks(e, ip)
  BY <1>1, <1>2, <1>3, EndsSound
<1>5. CASE until' = [until EXCEPT ![node] = Enforced(node, ends)] /\ UNCHANGED left
  <2>1. left' \in [{"requests", "detections", "faults"} -> Nat]
    BY <1>1, <1>5 DEF TypeOK
  <2> HIDE DEF ends
  <2> QED
    BY <1>2, <1>4, <1>5, <2>1, EnforceStep
<1>6. ASSUME Spend("faults"), NEW ip \in Ips,
             until' = [until EXCEPT ![node] = Enforced(node, [ends EXCEPT ![ip] = 0])]
      PROVE  GridInv'
  <2> DEFINE some == [ends EXCEPT ![ip] = 0]
  <2> HIDE DEF ends
  <2>1. left' \in [{"requests", "detections", "faults"} -> Nat]
    BY <1>1, <1>6 DEF TypeOK, Spend
  <2>2. 0 \in Times
    BY GridAssumption DEF Times
  <2>3. Ends_ok(some) /\ \A j \in Ips : some[j] > 0 => Asks(e, j)
    BY <1>4, <2>2 DEF Ends_ok
  <2> HIDE DEF some
  <2>4. until' = [until EXCEPT ![node] = Enforced(node, some)]
    BY <1>6 DEF some
  <2> QED
    BY <1>2, <2>1, <2>3, <2>4, EnforceStep
<1> QED
  BY <1>5, <1>6 DEF HandleBlock

LEMMA HandleLiftStep ==
    ASSUME GridInv, NEW node \in Nodes, HandleLift(node) PROVE GridInv'
<1> DEFINE e == Head(inbox[node])
<1>1. TypeOK /\ BlocksEnd /\ InboxesSound /\ LiftsStand
  BY DEF GridInv
<1>2. /\ inbox[node] # <<>> /\ inbox' = Rest(node)
      /\ e.type \in {"unblock", "allow_add"}
      /\ allowlist' = IF e.type = "unblock" THEN allowlist
                      ELSE [allowlist EXCEPT ![node] = @ \cup {e.ip}]
      /\ UNCHANGED <<clock, outbox, orderedAt, lifted, echoed>>
  BY DEF HandleLift
<1>3. \/ until' = [until EXCEPT ![node][e.ip] = 0] /\ UNCHANGED <<left, missed>>
      \/ Spend("faults") /\ missed' = missed \cup {<<node, e.ip>>} /\ UNCHANGED until
  BY <1>2 DEF HandleLift, Lifts
<1>4. clock \in Nat /\ e \in Events /\ e.ip \in Ips
  <2>1. e \in Events
    BY <1>1, <1>2, RestMovesUp
  <2>2. e.type \in Commands
    BY <1>2 DEF Commands
  <2> HIDE DEF e
  <2>3. e.ip \in Ips
    BY <2>1, <2>2, EventFields
  <2>4. clock \in Nat
    BY <1>1, GridAssumption DEF TypeOK
  <2> QED
    BY <2>1, <2>3, <2>4
<1>5. OrderedGrows
  BY <1>1, <1>2, <1>4, UnchangedGrows
<1>6. until \in [Nodes -> [Ips -> Times]] /\ Times \subseteq Nat /\ 0 \in Times
  BY <1>1, GridAssumption DEF TypeOK, Times
<1>7. /\ until' \in [Nodes -> [Ips -> Times]]
      /\ \A n \in Nodes, ip \in Ips : until'[n][ip] = 0 \/ until'[n][ip] = until[n][ip]
      /\ \A n \in Nodes, ip \in Ips :
           until'[n][ip] = until[n][ip] \/ (n = node /\ ip = e.ip)
      /\ until'[node][e.ip] = 0 \/ <<node, e.ip>> \in missed'
  <2> HIDE DEF e
  <2>1. CASE until' = [until EXCEPT ![node][e.ip] = 0]
    <3> DEFINE new == [until[node] EXCEPT ![e.ip] = 0]
    <3>1. /\ until' = [until EXCEPT ![node] = new]
          /\ new \in [Ips -> Times]
          /\ \A ip \in Ips : new[ip] = IF ip = e.ip THEN 0 ELSE until[node][ip]
      BY <1>4, <1>6, <2>1
    <3> HIDE DEF new
    <3>2. until' \in [Nodes -> [Ips -> Times]]
      BY <1>6, <3>1
    <3>3. /\ until'[node] = new
          /\ \A n \in Nodes \ {node} : until'[n] = until[n]
      BY <1>6, <3>1
    <3>4. \A n \in Nodes, ip \in Ips :
             \/ until'[n][ip] = until[n][ip]
             \/ n = node /\ ip = e.ip /\ until'[n][ip] = 0
      BY <3>1, <3>3
    <3>5. until'[node][e.ip] = 0
      BY <1>4, <3>1, <3>3
    <3> QED
      BY <3>2, <3>4, <3>5
  <2>2. CASE UNCHANGED until /\ missed' = missed \cup {<<node, e.ip>>}
    <3>1. \A n \in Nodes, ip \in Ips : until'[n][ip] = until[n][ip]
      BY <2>2
    <3>2. <<node, e.ip>> \in missed'
      BY <2>2
    <3> QED
      BY <1>6, <2>2, <3>1, <3>2
  <2> QED
    BY <1>3, <2>1, <2>2
<1>8. /\ left' \in [{"requests", "detections", "faults"} -> Nat]
      /\ missed \subseteq missed' /\ missed' \subseteq Nodes \X Ips
  BY <1>1, <1>3, <1>4 DEF TypeOK, Spend
<1>9. allowlist' \in [Nodes -> SUBSET Ips]
  BY <1>1, <1>2, <1>4 DEF TypeOK
<1>10. InboxesTyped'
  BY <1>1, <1>2, TypedAfterRest
<1>11. TypeOK'
  BY <1>1, <1>2, <1>5, <1>7, <1>8, <1>9, <1>10 DEF TypeOK, InboxesTyped, OrderedGrows, Times
<1>12. BlocksEnd'
  BY <1>1, <1>2, <1>7 DEF BlocksEnd
<1>13. InboxesSound'
  BY <1>1, <1>2, <1>5, SoundAfterRest
<1>14. LiftsStand'
  <2> SUFFICES ASSUME NEW n \in Nodes \ {ApiNode}, NEW j \in lifted \ echoed,
                      <<n, j>> \notin missed'
               PROVE  LiftStands(n, j)'
    BY <1>2 DEF LiftsStand
  <2>1. j \in Ips /\ LiftStands(n, j)
    BY <1>1, <1>8 DEF LiftsStand, TypeOK
  <2>2. CASE n = node /\ j = e.ip
    <3>1. until'[n][j] = 0
      BY <1>7, <2>2
    <3> QED
      BY <1>1, <1>2, <2>1, <3>1, StandsAfterRest
  <2>3. CASE n # node
    <3>1. until'[n][j] = until[n][j]
      BY <1>7, <2>1, <2>3
    <3> QED
      BY <1>1, <1>2, <2>1, <2>3, <3>1, StandsAfterRest
  <2>4. CASE n = node /\ j # e.ip
    <3>1. until'[n][j] = until[n][j] /\ ~IsLift(Head(inbox[n]), j)
      BY <1>7, <2>1, <2>4 DEF IsLift
    <3> QED
      BY <1>1, <1>2, <2>1, <2>4, <3>1, StandsAfterRest
  <2> QED
    BY <2>2, <2>3, <2>4
<1> QED
  BY <1>11, <1>12, <1>13, <1>14 DEF GridInv

LEMMA HandleAllowRemoveStep ==
    ASSUME GridInv, NEW node \in Nodes, HandleAllowRemove(node) PROVE GridInv'
<1> DEFINE e == Head(inbox[node])
<1>1. TypeOK /\ BlocksEnd /\ InboxesSound /\ LiftsStand
  BY DEF GridInv
<1>2. /\ inbox[node] # <<>> /\ inbox' = Rest(node)
      /\ e.type = "allow_remove"
      /\ allowlist' = [allowlist EXCEPT ![node] = @ \ {e.ip}]
      /\ UNCHANGED <<clock, until, outbox, left, orderedAt, lifted, missed, echoed>>
  BY DEF HandleAllowRemove, ghosts
<1>3. clock \in Nat
  BY <1>1, GridAssumption DEF TypeOK
<1>4. OrderedGrows
  BY <1>1, <1>2, <1>3, UnchangedGrows
<1>5. InboxesTyped'
  BY <1>1, <1>2, TypedAfterRest
<1>6. allowlist' \in [Nodes -> SUBSET Ips]
  BY <1>1, <1>2 DEF TypeOK
<1>7. TypeOK'
  BY <1>1, <1>2, <1>4, <1>5, <1>6 DEF TypeOK, InboxesTyped, OrderedGrows
<1>8. BlocksEnd' /\ InboxesSound'
  BY <1>1, <1>2, <1>4, EndsIfUnchanged, SoundAfterRest
<1>9. LiftsStand'
  <2> SUFFICES ASSUME NEW n \in Nodes \ {ApiNode}, NEW j \in lifted \ echoed,
                      <<n, j>> \notin missed
               PROVE  LiftStands(n, j)'
    BY <1>2 DEF LiftsStand
  <2>1. j \in Ips /\ LiftStands(n, j)
    BY <1>1 DEF LiftsStand, TypeOK
  <2>2. n = node => ~IsLift(Head(inbox[n]), j)
    BY <1>2 DEF IsLift
  <2> QED
    BY <1>1, <1>2, <2>1, <2>2, StandsAfterRest
<1> QED
  BY <1>7, <1>8, <1>9 DEF GridInv

LEMMA LoseStep == ASSUME GridInv, NEW node \in Nodes, Lose(node) PROVE GridInv'
<1> DEFINE lost == {e.ip : e \in {e \in ToSet(inbox[node]) :
                                    e.type \in {"unblock", "allow_add"}}}
<1>1. TypeOK /\ BlocksEnd /\ InboxesSound /\ LiftsStand
  BY DEF GridInv
<1>2. /\ inbox' = [inbox EXCEPT ![node] = <<>>]
      /\ missed' = missed \cup {<<node, ip>> : ip \in lost}
      /\ Spend("faults")
      /\ UNCHANGED <<clock, until, allowlist, outbox, orderedAt, lifted, echoed>>
  BY DEF Lose, nodeVars
<1>3. ToSet(inbox[node]) = {inbox[node][i] : i \in DOMAIN inbox[node]}
  BY DEF ToSet
<1>4. lost \subseteq Ips
  <2>1. \A e \in ToSet(inbox[node]) : e \in Events
    BY <1>1, <1>3, InboxDomain
  <2> QED
    BY <2>1, EventFields DEF Commands
<1>5. \A ip \in Ips : LiftPending(node, ip) => <<node, ip>> \in missed'
  BY <1>2, <1>3 DEF LiftPending
<1>6. clock \in Nat
  BY <1>1, GridAssumption DEF TypeOK
<1>7. OrderedGrows
  BY <1>1, <1>2, <1>6, UnchangedGrows
<1>8. inbox \in [Nodes -> Seq(Events)]
  BY <1>1 DEF TypeOK
<1>9. /\ inbox'[node] = <<>>
      /\ \A n \in Nodes \ {node} : inbox'[n] = inbox[n]
      /\ inbox' \in [Nodes -> Seq(Events)]
      /\ Len(inbox'[node]) = 0 /\ DOMAIN inbox'[node] = {}
  BY <1>2, <1>8, EmptySeq
<1>10. TypeOK'
  <2>1. missed' \subseteq Nodes \X Ips
    BY <1>1, <1>2, <1>4 DEF TypeOK
  <2>2. left' \in [{"requests", "detections", "faults"} -> Nat]
    BY <1>1, <1>2 DEF TypeOK, Spend
  <2>3. ASSUME NEW n \in Nodes
        PROVE  /\ Len(inbox'[n]) <= MaxQueue
               /\ \A i \in DOMAIN inbox'[n] : inbox'[n][i].ts <= clock
    <3>1. CASE n = node
      BY <1>9, <3>1, GridAssumption
    <3>2. CASE n # node
      BY <1>1, <1>9, <3>2 DEF TypeOK
    <3> QED
      BY <3>1, <3>2
  <2> QED
    BY <1>1, <1>2, <1>7, <1>9, <2>1, <2>2, <2>3 DEF TypeOK, OrderedGrows
<1>11. BlocksEnd'
  BY <1>1, <1>2, <1>7, EndsIfUnchanged
<1>12. InboxesSound'
  BY <1>1, <1>2, <1>9 DEF InboxesSound
<1>13. LiftsStand'
  <2> SUFFICES ASSUME NEW n \in Nodes \ {ApiNode}, NEW j \in lifted \ echoed,
                      <<n, j>> \notin missed'
               PROVE  LiftStands(n, j)'
    BY <1>2 DEF LiftsStand
  <2>1. j \in Ips /\ LiftStands(n, j)
    BY <1>1, <1>2 DEF LiftsStand, TypeOK
  <2>2. CASE n # node
    BY <1>2, <1>9, <2>1, <2>2, StandsIfUnchanged
  <2>3. CASE n = node
    BY <1>2, <1>5, <1>9, <2>1, <2>3 DEF LiftStands
  <2> QED
    BY <2>2, <2>3
<1> QED
  BY <1>10, <1>11, <1>12, <1>13 DEF GridInv

LEMMA StutterStep == GridInv /\ UNCHANGED vars => GridInv'
BY DEF GridInv, TypeOK, BlocksEnd, InboxesSound, Sound, EndFor, LiftsStand, LiftStands,
       LiftPending, vars, nodeVars, ghosts

LEMMA StepInv == GridInv /\ [Next]_vars => GridInv'
<1> SUFFICES ASSUME GridInv, [Next]_vars PROVE GridInv'
  OBVIOUS
<1>1. CASE Tick
  BY <1>1, TickStep
<1>2. ASSUME NEW ip \in Ips,
             ApiBlock(ip) \/ ApiUnblock(ip) \/ ApiAllowAdd(ip) \/ ApiAllowRemove(ip)
      PROVE  GridInv'
  BY <1>2, ApiBlockStep, LiftRequestStep, ApiAllowRemoveStep DEF ApiUnblock, ApiAllowAdd
<1>3. ASSUME NEW n \in Nodes, NEW ip \in Ips, Detect(n, ip) \/ PumpOut(n, ip)
      PROVE  GridInv'
  BY <1>3, DetectStep, PumpOutStep
<1>4. ASSUME NEW n \in Nodes, Expire(n) \/ SendSync(n) \/ Lose(n)
      PROVE  GridInv'
  BY <1>4, ExpireStep, SendSyncStep, LoseStep
<1>5. ASSUME NEW n \in Nodes, Handle(n)
      PROVE  GridInv'
  BY <1>5, RejectStep, HandleBlockStep, HandleLiftStep, HandleAllowRemoveStep DEF Handle
<1>6. CASE UNCHANGED vars
  BY <1>6, StutterStep
<1> QED
  BY <1>1, <1>2, <1>3, <1>4, <1>5, <1>6 DEF Next

-----------------------------------------------------------------------------
(* The theorems.                                                           *)

LEMMA AlwaysInv == Spec => []GridInv
BY InitInv, StepInv, PTL DEF Spec

\* The types, of every node's rows and of what waits for it.
THEOREM TypeInvariance == Spec => []TypeOK
<1>1. GridInv => TypeOK
  BY DEF GridInv
<1> QED
  BY <1>1, AlwaysInv, PTL

\* No row outlives the last block anybody asked for, whatever the nodes tell each
\* other in their syncs (agent.py:309-330, 387-398).
THEOREM BlocksEndHolds == Spec => []BlocksEnd
<1>1. GridInv => BlocksEnd
  BY DEF GridInv
<1> QED
  BY <1>1, AlwaysInv, PTL

\* On every node but the API's own an unblock or allow that arrived holds, until a
\* block is asked for again or a node tells of its row (agent.py:232-243, 250-262).
THEOREM UnblockHoldsAlways == Spec => []UnblockHolds
<1>1. GridInv => UnblockHolds
  BY DEF GridInv, LiftsStand, LiftStands, UnblockHolds
<1> QED
  BY <1>1, AlwaysInv, PTL
=============================================================================
