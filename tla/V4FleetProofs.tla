----------------------------- MODULE V4FleetProofs ---------------------------
(***************************************************************************)
(* V4Fleet for any addresses, threads of the API, bounds and budgets.      *)
(***************************************************************************)
EXTENDS V4Fleet, FiniteSetTheorems, SequenceTheorems, FunctionTheorems, TLAPS

-----------------------------------------------------------------------------
(* TablesDisjoint.                                                         *)

\* An address that is settled has one request at the tables, which found it
\* outside the allowlist if it is to block it, and lifts the block if it is to
\* allow it.
TablesApart(ip) ==
    ip \notin unsettled =>
        /\ \A t, u \in Threads : InTables(t, ip) /\ InTables(u, ip) => t = u
        /\ \A t \in Threads :
              InTables(t, ip) /\ req[t].pc = "write" /\ req[t].op = "block"
                => ip \notin allowlist
        /\ ip \in blocks \cap allowlist
             => \E t \in Threads : InTables(t, ip) /\ req[t].pc = "lift"

TablesInv == \A ip \in Ips : TablesApart(ip)

-----------------------------------------------------------------------------
(* NothingSkipped.                                                         *)

\* The clock has room for what the budget still allows.
Owed == IF mgr.pc \in {"truncate", "fill", "row"} THEN 1 ELSE 0
ClockInv ==
    /\ clock + Owed + left["commands"] + left["collects"] <= MaxClock
    /\ col.pc = "write" => col.now > 0
    /\ mgr.pc = "upsert" => mgr.now > 0

\* A batch under way holds what lies between the watermark and its last row,
\* and its published rows are on the record.
Batch == {ship.rows[i] : i \in DOMAIN ship.rows}

BatchShape ==
    /\ ship.rows # <<>> /\ ship.published > 0
    /\ ship.published <= Len(ship.rows) + 1
    /\ ship.pc = "publish" => ship.published <= Len(ship.rows)
    /\ ship.pc = "save" => ship.published = Len(ship.rows) + 1
    /\ \A i \in DOMAIN ship.rows :
         /\ ship.rows[i][2] > watermark
         /\ i < ship.published => ship.rows[i] \in shipped

BatchComplete ==
    \A ip \in Ips :
        table[ip].action = "block" /\ table[ip].ts <= Horizon
        => <<ip, table[ip].ts>> \in shipped \cup late \cup Batch

ShipInv ==
    /\ ship.pc # "idle" => BatchShape /\ BatchComplete
    /\ NothingSkipped

-----------------------------------------------------------------------------
(* The messages that wait in a queue.                                      *)

\* A message about the address that both enforcers trust, of one of the kinds.
Hits(m, ip, kinds) == m.signed = "all" /\ m.ip = ip /\ m.kind \in kinds
Waits(q, ip, kinds) == \E i \in DOMAIN q : Hits(q[i], ip, kinds)

\* The last of them is of the kind.
LastIs(q, ip, kinds, kind) ==
    \E i \in DOMAIN q :
        /\ Hits(q[i], ip, kinds) /\ q[i].kind = kind
        /\ \A j \in DOMAIN q : j > i => ~Hits(q[j], ip, kinds)

Changes == {"add", "remove"}
Orders == {"block", "unblock", "add"}

-----------------------------------------------------------------------------
(* WhitelistFollowsChanges and WhitelistedNotBlocked.                      *)

\* What the file says once the program that empties it has filled it.
FileToBe ==
    IF mgr.pc = "fill" THEN MgrList
    ELSE IF agent.pc = "fill" THEN AgentList ELSE whitelist.ips

\* Who is filling the file has emptied it; and unless all addresses may be
\* wrong, the file is invalid exactly while one program fills it.
FileInv ==
    /\ "mgr" \in saving <=> mgr.pc = "fill"
    /\ "agent" \in saving <=> agent.pc = "fill"
    /\ raced # Ips => /\ saving # {} <=> ~whitelist.valid
                      /\ saving # Savers

AgentKinds ==
    /\ agent.pc \in {"truncate", "fill"} => agent.kind \in Changes
    /\ agent.pc = "unblock" => agent.kind = "add"
    /\ agent.pc = "apply" => agent.kind \in {"block", "unblock"}
    /\ agent.pc # "idle" => online["agent"]

Changing(ip) == agent.pc \in {"truncate", "fill"} /\ agent.ip = ip
MgrAhead(ip) == mgr.pc \in {"fill", "row", "upsert", "list"} /\ mgr.ip = ip

\* The last change that was announced is in the queue, in the agent's hands or
\* in the file.
ChangeArrives(ip) ==
    ip \notin missed["agent"] =>
        IF Waits(inbox["agent"], ip, Changes)
        THEN LastIs(inbox["agent"], ip, Changes, "add") <=> ip \in listed
        ELSE IF Changing(ip) THEN agent.kind = "add" <=> ip \in listed
        ELSE ip \notin raced /\ ~MgrAhead(ip) => (ip \in FileToBe <=> ip \in listed)

\* Somebody is about to announce, or to carry out, that the address is exempt.
AddDue(ip) ==
    \/ MgrAhead(ip) /\ mgr.cmd = "whitelist"
    \/ Waits(inbox["agent"], ip, {"add"})
    \/ agent.pc \in {"truncate", "fill", "unblock"} /\ agent.ip = ip
         /\ agent.kind = "add"

\* An address of the file that is dropped, or will be by what the agent has
\* loaded, has its release under way.
ReleaseDue(ip) ==
    ip \notin raced \cup missed["agent"] /\ ip \in FileToBe /\ ~AddDue(ip) =>
        /\ ip \in rules["agent"] => ip \in skipped["agent"]
        /\ agent.pc = "apply" /\ agent.kind = "block" /\ agent.ip = ip => Refused

WhitelistInv ==
    /\ FileInv /\ AgentKinds
    /\ \A ip \in Ips : ChangeArrives(ip) /\ ReleaseDue(ip)

-----------------------------------------------------------------------------
(* EnforcersAgree.                                                         *)

\* The agent's own order about the address.
Carrying(e, ip) ==
    e = "agent" /\ agent.pc # "idle" /\ agent.kind \in Orders /\ agent.ip = ip

\* Will e drop the address when it has handled what it has?
WillDrop(e, ip) ==
    IF Waits(inbox[e], ip, Orders) THEN LastIs(inbox[e], ip, Orders, "block")
    ELSE IF Carrying(e, ip) THEN agent.kind = "block"
    ELSE ip \in rules[e]

\* The last order about the address was not carried out.
InDoubt(e, ip) ==
    ~Waits(inbox[e], ip, Orders) /\ ~Carrying(e, ip) /\ ip \in skipped[e]

WillAgree(ip) ==
    (\A e \in Enforcers : ip \notin missed[e] /\ ~InDoubt(e, ip))
        => (WillDrop("agent", ip) <=> WillDrop("listener", ip))

AgreeInv == \A ip \in Ips : WillAgree(ip)

\* What only the listener can check, the agent has missed for good.
OneSided ==
    \A i \in DOMAIN inbox["listener"] :
        inbox["listener"][i].signed = "listener"
          => inbox["listener"][i].ip \in missed["agent"]

-----------------------------------------------------------------------------
(* Types, and what is left of the budget.                                  *)

Counters == {"commands", "collects", "requests", "faults"}

LEMMA AnIp == (CHOOSE ip \in Ips : TRUE) \in Ips
  BY CommonAssumption

LEMMA SpendLeaves ==
  ASSUME CommonTypeOK, NEW what \in Counters, Spend(what)
  PROVE  /\ left' \in [Counters -> Nat]
         /\ left'[what] = left[what] - 1
         /\ \A c \in Counters : c # what => left'[c] = left[c]
  BY DEF CommonTypeOK, Spend, Counters

LEMMA PublishTypes ==
  ASSUME CommonTypeOK, NEW m \in Messages, Publish(m)
  PROVE  /\ inbox' \in [Enforcers -> Seq(Messages)]
         /\ online' \in [Enforcers -> BOOLEAN]
         /\ missed' \in [Enforcers -> SUBSET Ips]
         /\ listed' \in SUBSET Ips
<1>1. m.ip \in Ips
  BY DEF Messages
<1>2. \A e \in Enforcers : Append(inbox[e], m) \in Seq(Messages)
  BY DEF CommonTypeOK
<1>3. inbox' \in [Enforcers -> Seq(Messages)]
  BY <1>2 DEF CommonTypeOK, Publish
<1>4. missed' \in [Enforcers -> SUBSET Ips]
  BY <1>1 DEF CommonTypeOK, Publish
<1>5. listed' \in SUBSET Ips
  BY <1>1 DEF CommonTypeOK, Publish
<1> QED
  BY <1>3, <1>4, <1>5 DEF CommonTypeOK, Publish

LEMMA PublishLostTypes ==
  ASSUME CommonTypeOK, NEW ips \in SUBSET Ips, PublishLost(ips)
  PROVE  /\ inbox' \in [Enforcers -> Seq(Messages)]
         /\ online' \in [Enforcers -> BOOLEAN]
         /\ missed' \in [Enforcers -> SUBSET Ips]
         /\ listed' \in SUBSET Ips
  BY DEF CommonTypeOK, PublishLost

LEMMA LoadedAreIps == CommonTypeOK => LoadWhitelist \in SUBSET Ips
  BY DEF CommonTypeOK, LoadWhitelist

FileType == [valid: BOOLEAN, ips: SUBSET Ips]
FileTypeOK ==
    whitelist \in FileType /\ saving \in SUBSET Savers /\ raced \in SUBSET Ips

LEMMA TruncateTypes ==
  ASSUME CommonTypeOK, NEW p \in Savers, NEW copy \in SUBSET Ips,
         TruncateWhitelist(p, copy)
  PROVE  FileTypeOK'
<1>1. whitelist' \in FileType
  BY DEF TruncateWhitelist, FileType
<1>2. whitelist.ips \in SUBSET Ips /\ raced \in SUBSET Ips /\ saving \in SUBSET Savers
  BY DEF CommonTypeOK
<1>3. raced' \in SUBSET Ips /\ saving' \in SUBSET Savers
  BY <1>2 DEF TruncateWhitelist
<1> QED
  BY <1>1, <1>3 DEF FileTypeOK

LEMMA FillTypes ==
  ASSUME CommonTypeOK, NEW p \in Savers, NEW new \in SUBSET Ips, NEW ip \in Ips,
         FillWhitelist(p, new, ip)
  PROVE  FileTypeOK'
<1>1. raced' \in SUBSET Ips /\ saving' \in SUBSET Savers
  BY DEF CommonTypeOK, FillWhitelist
<1>2. \/ whitelist' = [valid |-> TRUE, ips |-> new]
      \/ whitelist' = [valid |-> FALSE, ips |-> {}]
  BY DEF FillWhitelist
<1>3. /\ [valid |-> TRUE, ips |-> new] \in FileType
      /\ [valid |-> FALSE, ips |-> {}] \in FileType
  BY DEF FileType
<1>4. whitelist' \in FileType
  BY <1>2, <1>3
<1> QED
  BY <1>1, <1>4 DEF FileTypeOK

LEMMA NoteLoadTypes ==
  ASSUME CommonTypeOK, NEW ip \in Ips, NoteLoad(ip)
  PROVE  FileTypeOK'
  BY DEF CommonTypeOK, NoteLoad, FileTypeOK, FileType

LEMMA AbandonTypes ==
  ASSUME CommonTypeOK, NEW p, AbandonWhitelist(p)
  PROVE  FileTypeOK'
  BY DEF CommonTypeOK, AbandonWhitelist, FileTypeOK, FileType

LEMMA CommonTypes ==
  ASSUME inbox' \in [Enforcers -> Seq(Messages)],
         online' \in [Enforcers -> BOOLEAN],
         missed' \in [Enforcers -> SUBSET Ips],
         listed' \in SUBSET Ips,
         FileTypeOK',
         left' \in [Counters -> Nat]
  PROVE  CommonTypeOK'
  BY DEF CommonTypeOK, FileTypeOK, FileType, Counters

LEMMA CommonFrame ==
  ASSUME CommonTypeOK
  PROVE  /\ UNCHANGED commonVars => CommonTypeOK'
         /\ UNCHANGED busVars => /\ inbox' \in [Enforcers -> Seq(Messages)]
                                 /\ online' \in [Enforcers -> BOOLEAN]
                                 /\ missed' \in [Enforcers -> SUBSET Ips]
                                 /\ listed' \in SUBSET Ips
         /\ UNCHANGED fileVars => FileTypeOK'
         /\ UNCHANGED left => left' \in [Counters -> Nat]
  BY DEF CommonTypeOK, commonVars, busVars, fileVars, FileTypeOK, FileType, Counters

LEMMA InitTypes == Init => TypeOK
<1> SUFFICES ASSUME Init PROVE TypeOK
  OBVIOUS
<1>1. CommonTypeOK
  <2>1. inbox \in [Enforcers -> Seq(Messages)]
    BY DEF Init, CommonInit
  <2>2. left \in [{"commands", "collects", "requests", "faults"} -> Nat]
    BY CommonAssumption DEF Init, CommonInit
  <2>3. whitelist \in [valid: BOOLEAN, ips: SUBSET Ips]
    BY DEF Init, CommonInit
  <2> QED
    BY <2>1, <2>2, <2>3 DEF Init, CommonInit, CommonTypeOK
<1>2. ListsTypeOK
  BY AnIp, CommonAssumption
  DEF Init, ListsInit, ListsTypeOK, NoRow, MgrIdle, ColIdle, ShipIdle, Commands
<1>3. EnforcersTypeOK
  BY AnIp DEF Init, EnforcersInit, EnforcersTypeOK, AgentIdle, Kinds
<1>4. BorderTypeOK
  BY AnIp DEF Init, BorderInit, BorderTypeOK, ReqIdle, Operations, Secrets
<1> QED
  BY <1>1, <1>2, <1>3, <1>4 DEF TypeOK

MgrType == [pc: {"idle", "truncate", "fill", "row", "upsert", "list", "change"},
            cmd: Commands, ip: Ips, wl: SUBSET Ips, now: 0..MaxClock]
ColType == [pc: {"idle", "write"}, now: 0..MaxClock, ips: SUBSET Ips]
ShipType == [pc: {"idle", "publish", "save"}, rows: Seq(Rows), published: Nat]
TableType ==
    [Ips -> [action: {"none", "block", "unblock"}, ts: 0..MaxClock]]

LEMMA IdleTypes ==
  /\ MgrIdle \in MgrType /\ ColIdle \in ColType /\ ShipIdle \in ShipType
  /\ NoRow \in [action: {"none", "block", "unblock"}, ts: 0..MaxClock]
  BY AnIp, CommonAssumption
  DEF MgrIdle, ColIdle, ShipIdle, NoRow, MgrType, ColType, ShipType, Commands

LEMMA ListsTypes ==
  ASSUME table' \in TableType, clock' \in 0..MaxClock, mgr' \in MgrType,
         col' \in ColType, ship' \in ShipType, watermark' \in 0..MaxClock,
         shipped' \in SUBSET Rows, late' \in SUBSET Rows
  PROVE  ListsTypeOK'
  BY DEF ListsTypeOK, TableType, MgrType, ColType, ShipType

LEMMA ListsFrame ==
  ASSUME ListsTypeOK
  PROVE  /\ UNCHANGED listVars => ListsTypeOK'
         /\ UNCHANGED table => table' \in TableType
         /\ UNCHANGED clock => clock' \in 0..MaxClock
         /\ UNCHANGED mgr => mgr' \in MgrType
         /\ UNCHANGED col => col' \in ColType
         /\ UNCHANGED ship => ship' \in ShipType
         /\ UNCHANGED watermark => watermark' \in 0..MaxClock
         /\ UNCHANGED shipped => shipped' \in SUBSET Rows
         /\ UNCHANGED late => late' \in SUBSET Rows
  BY DEF ListsTypeOK, listVars, TableType, MgrType, ColType, ShipType

LEMMA NoteLateTypes ==
  ASSUME ListsTypeOK, NEW rows \in SUBSET Rows, NoteLate(rows)
  PROVE  late' \in SUBSET Rows
  BY DEF ListsTypeOK, NoteLate

LEMMA MgrLists == ListsTypeOK => MgrList \in SUBSET Ips
  BY DEF ListsTypeOK, MgrList

LEMMA MgrMessages == ListsTypeOK => MgrMessage \in Messages
  BY DEF ListsTypeOK, MgrMessage, Messages, Kinds, Secrets

LEMMA MgrPcTypes ==
  ASSUME ListsTypeOK
  PROVE  \A pc \in {"fill", "row", "list", "change"} :
           [mgr EXCEPT !.pc = pc] \in MgrType
  BY DEF ListsTypeOK, MgrType

LEMMA AfterPublishTypes == ListsTypeOK => AfterPublish \in MgrType
  BY MgrPcTypes, IdleTypes DEF AfterPublish

LEMMA RowTypes ==
  ASSUME NEW ip \in Ips, NEW ts \in 1..MaxClock
  PROVE  /\ <<ip, ts>> \in Rows
         /\ <<ip, ts>>[1] = ip /\ <<ip, ts>>[2] = ts
  BY DEF Rows

\* What is owed and what is left still fits below the bound of the clock.
LEMMA ClockRoom ==
  ASSUME CommonTypeOK, ListsTypeOK, ClockInv
  PROVE  /\ clock \in Nat /\ MaxClock \in Nat /\ Owed \in Nat
         /\ left["commands"] \in Nat /\ left["collects"] \in Nat
         /\ clock + Owed + left["commands"] + left["collects"] <= MaxClock
  BY CommonAssumption DEF ClockInv, CommonTypeOK, ListsTypeOK, Owed

LEMMA ManagerTypes ==
  ASSUME CommonTypeOK, ListsTypeOK, ClockInv, Manager
  PROVE  CommonTypeOK' /\ ListsTypeOK'
<1>1. ASSUME NEW cmd \in Commands, NEW ip \in Ips, MgrStart(cmd, ip)
      PROVE  CommonTypeOK' /\ ListsTypeOK'
  <2>1. left' \in [Counters -> Nat]
    BY <1>1, SpendLeaves DEF MgrStart, Counters
  <2>2. FileTypeOK'
    BY <1>1, NoteLoadTypes DEF MgrStart
  <2>3. CommonTypeOK'
    BY <1>1, <2>1, <2>2, CommonTypes, CommonFrame DEF MgrStart
  <2>4. mgr' \in MgrType
    BY <1>1, LoadedAreIps, IdleTypes DEF MgrStart, MgrType
  <2> QED
    BY <1>1, <2>3, <2>4, ListsTypes, ListsFrame DEF MgrStart
<1>2. ASSUME MgrTruncate
      PROVE  CommonTypeOK' /\ ListsTypeOK'
  <2>1. mgr.wl \in SUBSET Ips
    BY DEF ListsTypeOK
  <2>2. FileTypeOK'
    BY <1>2, <2>1, TruncateTypes DEF MgrTruncate, Savers
  <2>3. CommonTypeOK'
    BY <1>2, <2>2, CommonTypes, CommonFrame DEF MgrTruncate
  <2> QED
    BY <1>2, <2>3, MgrPcTypes, ListsTypes, ListsFrame DEF MgrTruncate
<1>3. ASSUME MgrFill
      PROVE  CommonTypeOK' /\ ListsTypeOK'
  <2>1. mgr.ip \in Ips
    BY DEF ListsTypeOK
  <2>2. FileTypeOK'
    BY <1>3, <2>1, FillTypes, MgrLists DEF MgrFill, Savers
  <2>3. CommonTypeOK'
    BY <1>3, <2>2, CommonTypes, CommonFrame DEF MgrFill
  <2> QED
    BY <1>3, <2>3, MgrPcTypes, ListsTypes, ListsFrame DEF MgrFill
<1>8. ASSUME MgrReadsClock
      PROVE  CommonTypeOK' /\ ListsTypeOK'
  <2>1. CommonTypeOK'
    BY <1>8, CommonFrame DEF MgrReadsClock
  <2>2. clock + 1 \in 1..MaxClock
    BY <1>8, ClockRoom DEF MgrReadsClock, Owed
  <2>3. mgr' \in MgrType
    <3>1. mgr \in MgrType /\ clock + 1 \in 0..MaxClock
      BY <2>2 DEF ListsTypeOK, MgrType
    <3>2. \A n \in 0..MaxClock :
            [mgr EXCEPT !.pc = "upsert", !.now = n] \in MgrType
      BY <3>1 DEF MgrType
    <3> QED
      BY <1>8, <3>1, <3>2 DEF MgrReadsClock
  <2> QED
    BY <1>8, <2>1, <2>2, <2>3, ListsTypes, ListsFrame DEF MgrReadsClock
<1>4. ASSUME MgrUpsert
      PROVE  CommonTypeOK' /\ ListsTypeOK'
  <2>1. CommonTypeOK'
    BY <1>4, CommonFrame DEF MgrUpsert
  <2>2. mgr.now \in 1..MaxClock
    BY <1>4 DEF MgrUpsert, ClockInv, ListsTypeOK
  <2>3. mgr.ip \in Ips
    BY DEF ListsTypeOK
  <2>4. table' \in TableType
    BY <1>4, <2>2 DEF MgrUpsert, ListsTypeOK, TableType
  <2>5. late' \in SUBSET Rows
    BY <1>4, <2>2, <2>3, RowTypes, NoteLateTypes DEF MgrUpsert
  <2> QED
    BY <1>4, <2>1, <2>2, <2>4, <2>5, MgrPcTypes, ListsTypes, ListsFrame
    DEF MgrUpsert
<1>5. ASSUME MgrDelete
      PROVE  CommonTypeOK' /\ ListsTypeOK'
  <2>1. CommonTypeOK'
    BY <1>5, CommonTypes, CommonFrame DEF MgrDelete
  <2>2. table' \in TableType
    BY <1>5, IdleTypes DEF MgrDelete, ListsTypeOK, TableType
  <2> QED
    BY <1>5, <2>1, <2>2, MgrPcTypes, ListsTypes, ListsFrame DEF MgrDelete
<1>6. ASSUME MgrPublish
      PROVE  CommonTypeOK' /\ ListsTypeOK'
  <2>1. mgr.ip \in Ips
    BY DEF ListsTypeOK
  <2>2. left' \in [Counters -> Nat]
    BY <1>6, SpendLeaves, CommonFrame DEF MgrPublish, Fault, Counters
  <2>3. CommonTypeOK'
    BY <1>6, <2>1, <2>2, MgrMessages, PublishTypes, PublishLostTypes,
       CommonTypes, CommonFrame DEF MgrPublish
  <2>4. mgr' \in MgrType
    BY <1>6, AfterPublishTypes, IdleTypes DEF MgrPublish
  <2> QED
    BY <1>6, <2>3, <2>4, ListsTypes, ListsFrame DEF MgrPublish
<1>7. ASSUME MgrDies
      PROVE  CommonTypeOK' /\ ListsTypeOK'
  <2>1. mgr.ip \in Ips
    BY DEF ListsTypeOK
  <2>2. left' \in [Counters -> Nat]
    BY <1>7, SpendLeaves DEF MgrDies, Fault, Counters
  <2>3. FileTypeOK'
    BY <1>7, AbandonTypes DEF MgrDies
  <2>4. CommonTypeOK'
    BY <1>7, <2>1, <2>2, <2>3, PublishLostTypes, CommonTypes DEF MgrDies
  <2> QED
    BY <1>7, <2>4, IdleTypes, ListsTypes, ListsFrame DEF MgrDies
<1> QED
  BY <1>1, <1>2, <1>3, <1>4, <1>5, <1>6, <1>7, <1>8 DEF Manager

LEMMA CollectorTypes ==
  ASSUME CommonTypeOK, ListsTypeOK, ClockInv, Collector
  PROVE  CommonTypeOK' /\ ListsTypeOK'
<1>1. ASSUME NEW ips \in SUBSET Ips, ColStart(ips)
      PROVE  CommonTypeOK' /\ ListsTypeOK'
  <2>1. left' \in [Counters -> Nat]
    BY <1>1, SpendLeaves DEF ColStart, Counters
  <2>2. CommonTypeOK'
    BY <1>1, <2>1, CommonTypes, CommonFrame DEF ColStart
  <2>3. clock + 1 \in 0..MaxClock
    BY <1>1, ClockRoom DEF ColStart, Spend
  <2>4. col' \in ColType
    BY <1>1, <2>3 DEF ColStart, ColType
  <2> QED
    BY <1>1, <2>2, <2>3, <2>4, ListsTypes, ListsFrame DEF ColStart
<1>2. ASSUME ColWrite
      PROVE  CommonTypeOK' /\ ListsTypeOK'
  <2>1. CommonTypeOK'
    BY <1>2, CommonFrame DEF ColWrite
  <2>2. col.now \in 1..MaxClock /\ NewIps \in SUBSET Ips
    BY <1>2 DEF ColWrite, ClockInv, ListsTypeOK, NewIps
  <2>3. table' \in TableType
    BY <1>2, <2>2 DEF ColWrite, ListsTypeOK, TableType
  <2>4. {<<ip, col.now>> : ip \in NewIps} \in SUBSET Rows
    BY <2>2, RowTypes
  <2>5. late' \in SUBSET Rows
    BY <1>2, <2>4, NoteLateTypes DEF ColWrite
  <2> QED
    BY <1>2, <2>1, <2>3, <2>5, IdleTypes, ListsTypes, ListsFrame DEF ColWrite
<1>3. ASSUME ColFails
      PROVE  CommonTypeOK' /\ ListsTypeOK'
  <2>1. left' \in [Counters -> Nat]
    BY <1>3, SpendLeaves DEF ColFails, Fault, Counters
  <2>2. CommonTypeOK'
    BY <1>3, <2>1, CommonTypes, CommonFrame DEF ColFails
  <2> QED
    BY <1>3, <2>2, IdleTypes, ListsTypes, ListsFrame DEF ColFails
<1> QED
  BY <1>1, <1>2, <1>3 DEF Collector

-----------------------------------------------------------------------------
(* The batch of 6-block-ips has every pending row, the newest one last.    *)

LEMMA SeqsOfSet ==
  ASSUME NEW S, IsFiniteSet(S), NEW q \in SetToSeqs(S)
  PROVE  /\ q \in Seq(S)
         /\ S # {} => q # <<>>
         /\ \A s \in S : \E i \in DOMAIN q : q[i] = s
<1> DEFINE n == Cardinality(S)
<1>1. n \in Nat
  BY FS_CardinalityType
<1>2. /\ q \in [1..n -> S]
      /\ \A i, j \in 1..n : i # j => q[i] # q[j]
  BY DEF SetToSeqs
<1> HIDE DEF n
<1>3. q \in Injection(1..n, S)
  BY <1>2, Fun_IsInj
<1>4. IsFiniteSet(1..n) /\ Cardinality(1..n) = n
  BY <1>1, FS_Interval
<1>5. q \in Surjection(1..n, S)
  BY <1>3, <1>4, FS_Injection DEF n
<1>6. \A s \in S : \E i \in 1..n : q[i] = s
  BY <1>5 DEF Surjection
<1>7. q \in Seq(S) /\ DOMAIN q = 1..n
  BY <1>1, <1>2, IsASeq
<1>8. ASSUME S # {} PROVE q # <<>>
  <2>1. PICK i \in DOMAIN q : TRUE
    BY <1>6, <1>7, <1>8
  <2> QED
    BY <2>1
<1> QED
  BY <1>6, <1>7, <1>8

Pending == {<<ip, table[ip].ts>> : ip \in PendingIps}

LEMMA PendingRows ==
  ASSUME ListsTypeOK
  PROVE  Pending \in SUBSET Rows /\ IsFiniteSet(Pending)
<1>1. \A ip \in PendingIps : ip \in Ips /\ table[ip].ts \in 1..MaxClock
  BY DEF ListsTypeOK, PendingIps
<1>2. Pending \in SUBSET Rows
  BY <1>1 DEF Pending, Rows
<1>3. IsFiniteSet(1..MaxClock)
  BY CommonAssumption, FS_Interval
<1>4. IsFiniteSet(Rows)
  BY <1>3, CommonAssumption, FS_Product DEF Rows
<1> QED
  BY <1>2, <1>4, FS_Subset

\* What 6-block-ips reads: the pending rows in order.
LEMMA ShipStartReads ==
  ASSUME ListsTypeOK, ShipStart
  PROVE  \E rows \in Seq(Rows) :
           /\ ship' = [pc |-> "publish", rows |-> rows, published |-> 1]
           /\ rows # <<>> /\ InOrder(rows)
           /\ \A i \in DOMAIN rows : rows[i] \in Pending
           /\ \A r \in Pending : \E i \in DOMAIN rows : rows[i] = r
<1>1. PICK rows \in SetToSeqs(Pending) :
         /\ InOrder(rows)
         /\ ship' = [pc |-> "publish", rows |-> rows, published |-> 1]
  BY DEF ShipStart, Pending
<1>2. /\ rows \in Seq(Pending)
      /\ Pending # {} => rows # <<>>
      /\ \A r \in Pending : \E i \in DOMAIN rows : rows[i] = r
  BY <1>1, PendingRows, SeqsOfSet
<1>3. Pending # {}
  BY DEF ShipStart, Pending
<1>4. rows \in Seq(Rows)
  BY <1>2, PendingRows
<1>5. \A i \in DOMAIN rows : rows[i] \in Pending
  BY <1>2
<1> QED
  BY <1>1, <1>2, <1>3, <1>4, <1>5

LEMMA ShipperTypes ==
  ASSUME CommonTypeOK, ListsTypeOK, ShipInv, Shipper
  PROVE  CommonTypeOK' /\ ListsTypeOK'
<1>1. ASSUME ShipStart
      PROVE  CommonTypeOK' /\ ListsTypeOK'
  <2>1. CommonTypeOK'
    BY <1>1, CommonFrame DEF ShipStart
  <2>2. ship' \in ShipType
    BY <1>1, ShipStartReads DEF ShipType
  <2> QED
    BY <1>1, <2>1, <2>2, ListsTypes, ListsFrame DEF ShipStart
<1>2. ASSUME ShipPublish
      PROVE  CommonTypeOK' /\ ListsTypeOK'
  <2>1. ship.published \in DOMAIN ship.rows
    BY <1>2 DEF ShipPublish, ShipInv, BatchShape, ListsTypeOK
  <2>2. ShipRow \in Rows
    BY <2>1 DEF ShipRow, ListsTypeOK
  <2>3. ShipRow[1] \in Ips
    BY <2>2 DEF Rows
  <2>4. [kind |-> "block", ip |-> ShipRow[1], signed |-> "all"] \in Messages
    BY <2>3 DEF Messages, Kinds, Secrets
  <2>5. CommonTypeOK'
    BY <1>2, <2>4, PublishTypes, CommonTypes, CommonFrame DEF ShipPublish
  <2>6. shipped' \in SUBSET Rows
    BY <1>2, <2>2 DEF ShipPublish, ListsTypeOK
  <2>7. ship' \in ShipType
    <3>1. ship \in ShipType /\ ship.published + 1 \in Nat
      BY DEF ListsTypeOK, ShipType
    <3>2. \A pc \in {"save", "publish"}, p \in Nat :
             [ship EXCEPT !.published = p, !.pc = pc] \in ShipType
      BY <3>1 DEF ShipType
    <3>3. ship' = [ship EXCEPT !.published = ship.published + 1, !.pc =
                     IF ship.published = Len(ship.rows) THEN "save"
                                                        ELSE "publish"]
      BY <1>2 DEF ShipPublish
    <3> QED
      BY <3>1, <3>2, <3>3
  <2> QED
    BY <1>2, <2>5, <2>6, <2>7, ListsTypes, ListsFrame DEF ShipPublish
<1>3. ASSUME ShipFails
      PROVE  CommonTypeOK' /\ ListsTypeOK'
  <2>1. left' \in [Counters -> Nat]
    BY <1>3, SpendLeaves DEF ShipFails, Fault, Counters
  <2>2. CommonTypeOK'
    BY <1>3, <2>1, CommonTypes, CommonFrame DEF ShipFails
  <2> QED
    BY <1>3, <2>2, IdleTypes, ListsTypes, ListsFrame DEF ShipFails
<1>4. ASSUME ShipSave
      PROVE  CommonTypeOK' /\ ListsTypeOK'
  <2>1. CommonTypeOK'
    BY <1>4, CommonFrame DEF ShipSave
  <2>2. ship.published - 1 \in DOMAIN ship.rows
    <3>1. ship.rows \in Seq(Rows) /\ ship.rows # <<>>
          /\ ship.published = Len(ship.rows) + 1
      BY <1>4 DEF ShipSave, ShipInv, BatchShape, ListsTypeOK
    <3>2. Len(ship.rows) \in 1..Len(ship.rows)
      BY <3>1
    <3> QED
      BY <3>1, <3>2
  <2>3. ship.rows[ship.published - 1] \in Rows
    BY <2>2 DEF ListsTypeOK
  <2>4. Newest \in 0..MaxClock
    BY <2>3 DEF Newest, Rows
  <2> QED
    BY <1>4, <2>1, <2>4, IdleTypes, ListsTypes, ListsFrame DEF ShipSave
<1> QED
  BY <1>1, <1>2, <1>3, <1>4 DEF Shipper

-----------------------------------------------------------------------------
(* Types of the enforcers and the border API.                              *)

AgentType == [pc: {"idle", "apply", "truncate", "fill", "unblock"},
              kind: Kinds, ip: Ips, wl: SUBSET Ips]
Chains == [Enforcers -> SUBSET Ips]

LEMMA EnforcersTypes ==
  ASSUME rules' \in Chains, agent' \in AgentType, skipped' \in Chains
  PROVE  EnforcersTypeOK'
  BY DEF EnforcersTypeOK, AgentType, Chains

LEMMA EnforcersFrame ==
  ASSUME EnforcersTypeOK
  PROVE  /\ UNCHANGED enforcerVars => EnforcersTypeOK'
         /\ UNCHANGED rules => rules' \in Chains
         /\ UNCHANGED agent => agent' \in AgentType
         /\ UNCHANGED skipped => skipped' \in Chains
  BY DEF EnforcersTypeOK, enforcerVars, AgentType, Chains

LEMMA AgentIdles == AgentIdle \in AgentType
  BY AnIp DEF AgentIdle, AgentType, Kinds

LEMMA ChainTypes ==
  ASSUME NEW f \in Chains, NEW e \in Enforcers, NEW S \in SUBSET Ips
  PROVE  /\ [f EXCEPT ![e] = @ \cup S] \in Chains
         /\ [f EXCEPT ![e] = @ \ S] \in Chains
         /\ [f EXCEPT ![e] = {}] \in Chains
  BY DEF Chains

LEMMA AddRuleTypes ==
  ASSUME CommonTypeOK, EnforcersTypeOK, NEW e \in Enforcers, NEW ip \in Ips,
         AddRule(e, ip)
  PROVE  rules' \in Chains /\ skipped' \in Chains /\ left' \in [Counters -> Nat]
<1>1. left' \in [Counters -> Nat]
  BY SpendLeaves, CommonFrame DEF AddRule, Fault, Counters
<1>2. rules' \in Chains
  BY DEF AddRule, EnforcersTypeOK, Chains
<1>3. skipped' \in Chains
  BY DEF AddRule, EnforcersTypeOK, Chains
<1> QED
  BY <1>1, <1>2, <1>3

LEMMA RemoveRulesTypes ==
  ASSUME CommonTypeOK, EnforcersTypeOK, NEW e \in Enforcers, NEW ip \in Ips,
         RemoveRules(e, ip)
  PROVE  rules' \in Chains /\ skipped' \in Chains /\ left' \in [Counters -> Nat]
<1>1. left' \in [Counters -> Nat]
  BY SpendLeaves, CommonFrame DEF RemoveRules, Fault, Counters
<1>2. rules' \in Chains
  BY DEF RemoveRules, EnforcersTypeOK, Chains
<1>3. skipped' \in Chains
  BY DEF RemoveRules, EnforcersTypeOK, Chains
<1> QED
  BY <1>1, <1>2, <1>3

LEMMA TakeTypes ==
  ASSUME CommonTypeOK, NEW e \in Enforcers, inbox[e] # <<>>, Take(e)
  PROVE  /\ inbox' \in [Enforcers -> Seq(Messages)]
         /\ Head(inbox[e]) \in Messages
<1>1. inbox[e] \in Seq(Messages)
  BY DEF CommonTypeOK
<1>2. Head(inbox[e]) \in Messages /\ Tail(inbox[e]) \in Seq(Messages)
  BY <1>1, HeadTailProperties
<1> QED
  BY <1>2 DEF CommonTypeOK, Take

LEMMA InHandTypes ==
  ASSUME CommonTypeOK, EnforcersTypeOK, NEW e \in Enforcers
  PROVE  InHand(e) \in SUBSET Ips
<1>1. \A i \in DOMAIN inbox[e] : inbox[e][i].ip \in Ips
  <2>1. inbox[e] \in Seq(Messages)
    BY DEF CommonTypeOK
  <2>2. \A i \in DOMAIN inbox[e] : inbox[e][i] \in Messages
    BY <2>1
  <2> QED
    BY <2>2 DEF Messages
<1> QED
  BY <1>1 DEF InHand, EnforcersTypeOK

LEMMA AgentLists == EnforcersTypeOK => AgentList \in SUBSET Ips
  BY DEF EnforcersTypeOK, AgentList

LEMMA AgentPcTypes ==
  ASSUME EnforcersTypeOK
  PROVE  \A pc \in {"fill", "unblock"} : [agent EXCEPT !.pc = pc] \in AgentType
  BY DEF EnforcersTypeOK, AgentType

LEMMA AgentTypes ==
  ASSUME CommonTypeOK, EnforcersTypeOK, Agent
  PROVE  CommonTypeOK' /\ EnforcersTypeOK'
<1> USE DEF Enforcers
<1>a. agent.ip \in Ips /\ skipped \in Chains
  BY DEF EnforcersTypeOK, Chains
<1>1. ASSUME AgentIgnores
      PROVE  CommonTypeOK' /\ EnforcersTypeOK'
  <2>1. inbox' \in [Enforcers -> Seq(Messages)]
        /\ Head(inbox["agent"]) \in Messages
    BY <1>1, TakeTypes DEF AgentIgnores, AgentReads
  <2>2. CommonTypeOK'
    BY <1>1, <2>1, CommonTypes, CommonFrame DEF AgentIgnores, CommonTypeOK
  <2>3. {Head(inbox["agent"]).ip} \in SUBSET Ips
    BY <2>1 DEF Messages
  <2>4. skipped' \in Chains
    BY <1>1, <1>a, <2>3, ChainTypes DEF AgentIgnores
  <2> QED
    BY <1>1, <2>2, <2>4, EnforcersTypes, EnforcersFrame DEF AgentIgnores
<1>2. ASSUME AgentTakes
      PROVE  CommonTypeOK' /\ EnforcersTypeOK'
  <2>1. inbox' \in [Enforcers -> Seq(Messages)]
        /\ Head(inbox["agent"]) \in Messages
    BY <1>2, TakeTypes DEF AgentTakes, AgentReads
  <2>2. FileTypeOK'
    BY <1>2, <2>1, NoteLoadTypes DEF AgentTakes, Messages
  <2>3. CommonTypeOK'
    BY <1>2, <2>1, <2>2, CommonTypes, CommonFrame DEF AgentTakes, CommonTypeOK
  <2>4. agent' \in AgentType
    BY <1>2, <2>1, LoadedAreIps DEF AgentTakes, AgentType, Messages
  <2> QED
    BY <1>2, <2>3, <2>4, EnforcersTypes, EnforcersFrame DEF AgentTakes
<1>3. ASSUME AgentApplies
      PROVE  CommonTypeOK' /\ EnforcersTypeOK'
  <2>1. rules' \in Chains /\ skipped' \in Chains /\ left' \in [Counters -> Nat]
    <3>1. CASE agent.kind = "unblock"
      BY <1>3, <3>1, <1>a, RemoveRulesTypes DEF AgentApplies
    <3>2. CASE agent.kind # "unblock" /\ Refused
      <4>1. skipped' \in Chains
        BY <1>3, <3>2 DEF AgentApplies, EnforcersTypeOK, Chains
      <4> QED
        BY <1>3, <3>2, <4>1, EnforcersFrame, CommonFrame DEF AgentApplies
    <3>3. CASE agent.kind # "unblock" /\ ~Refused
      BY <1>3, <3>3, <1>a, AddRuleTypes DEF AgentApplies
    <3> QED
      BY <3>1, <3>2, <3>3
  <2>2. CommonTypeOK'
    BY <1>3, <2>1, CommonTypes, CommonFrame DEF AgentApplies
  <2>3. agent' \in AgentType
    BY <1>3, AgentIdles DEF AgentApplies
  <2> QED
    BY <2>1, <2>2, <2>3, EnforcersTypes
<1>4. ASSUME AgentTruncates
      PROVE  CommonTypeOK' /\ EnforcersTypeOK'
  <2>0. agent.wl \in SUBSET Ips
    BY DEF EnforcersTypeOK
  <2>1. FileTypeOK'
    BY <1>4, <2>0, TruncateTypes DEF AgentTruncates, Savers
  <2>2. CommonTypeOK'
    BY <1>4, <2>1, CommonTypes, CommonFrame DEF AgentTruncates
  <2> QED
    BY <1>4, <2>2, AgentPcTypes, EnforcersTypes, EnforcersFrame
    DEF AgentTruncates
<1>5. ASSUME AgentFills
      PROVE  CommonTypeOK' /\ EnforcersTypeOK'
  <2>1. FileTypeOK'
    BY <1>5, <1>a, FillTypes, AgentLists DEF AgentFills, Savers
  <2>2. CommonTypeOK'
    BY <1>5, <2>1, CommonTypes, CommonFrame DEF AgentFills
  <2> QED
    BY <1>5, <2>2, AgentPcTypes, AgentIdles, EnforcersTypes, EnforcersFrame
    DEF AgentFills
<1>6. ASSUME AgentUnblocks
      PROVE  CommonTypeOK' /\ EnforcersTypeOK'
  <2>1. rules' \in Chains /\ skipped' \in Chains /\ left' \in [Counters -> Nat]
    BY <1>6, <1>a, RemoveRulesTypes DEF AgentUnblocks
  <2>2. CommonTypeOK'
    BY <1>6, <2>1, CommonTypes, CommonFrame DEF AgentUnblocks
  <2> QED
    BY <1>6, <2>1, <2>2, AgentIdles, EnforcersTypes DEF AgentUnblocks
<1> QED
  BY <1>1, <1>2, <1>3, <1>4, <1>5, <1>6 DEF Agent

LEMMA ListenerTypes ==
  ASSUME CommonTypeOK, EnforcersTypeOK, ListenerHandles
  PROVE  CommonTypeOK' /\ EnforcersTypeOK'
<1> USE DEF Enforcers
<1> DEFINE m == Head(inbox["listener"])
<1>1. inbox' \in [Enforcers -> Seq(Messages)] /\ m \in Messages
  BY TakeTypes DEF ListenerHandles
<1>2. m.ip \in Ips /\ m.kind \in Kinds /\ skipped \in Chains
  BY <1>1 DEF Messages, EnforcersTypeOK, Chains
<1> HIDE DEF m
<1>3. rules' \in Chains /\ skipped' \in Chains /\ left' \in [Counters -> Nat]
  <2>1. CASE Trusted("listener", m) /\ ListenerApplies(m)
    <3>1. CASE m.kind = "block"
      BY <2>1, <3>1, <1>2, AddRuleTypes DEF ListenerApplies
    <3>2. CASE m.kind \in {"unblock", "add"}
      BY <2>1, <3>2, <1>2, RemoveRulesTypes DEF ListenerApplies
    <3>3. CASE m.kind = "remove"
      BY <2>1, <3>3, EnforcersFrame, CommonFrame DEF ListenerApplies
    <3> QED
      BY <3>1, <3>2, <3>3, <1>2 DEF Kinds
  <2>2. CASE /\ skipped' = [skipped EXCEPT !["listener"] = @ \cup {m.ip}]
             /\ UNCHANGED <<rules, left>>
    BY <2>2, <1>2, ChainTypes, EnforcersFrame, CommonFrame
  <2> QED
    BY <2>1, <2>2 DEF ListenerHandles, m
<1>4. CommonTypeOK'
  BY <1>1, <1>3, CommonTypes, CommonFrame DEF ListenerHandles, CommonTypeOK
<1> QED
  BY <1>3, <1>4, EnforcersTypes, EnforcersFrame DEF ListenerHandles

LEMMA DisconnectTypes ==
  ASSUME CommonTypeOK, EnforcersTypeOK, NEW e \in Enforcers, Disconnect(e)
  PROVE  /\ inbox' \in [Enforcers -> Seq(Messages)]
         /\ online' \in [Enforcers -> BOOLEAN]
         /\ missed' \in [Enforcers -> SUBSET Ips]
         /\ FileTypeOK'
         /\ agent' \in AgentType
<1>1. missed' \in [Enforcers -> SUBSET Ips]
  BY InHandTypes, ChainTypes DEF Disconnect, CommonTypeOK, Chains
<1>2. inbox' \in [Enforcers -> Seq(Messages)]
  BY DEF Disconnect, CommonTypeOK
<1>3. agent' \in AgentType
  BY AgentIdles, EnforcersFrame DEF Disconnect, EnforcersTypeOK, AgentType
<1>4. FileTypeOK'
  BY AbandonTypes, CommonFrame DEF Disconnect
<1> QED
  BY <1>1, <1>2, <1>3, <1>4 DEF Disconnect, CommonTypeOK

LEMMA HostTypes ==
  ASSUME CommonTypeOK, EnforcersTypeOK, NEW e \in Enforcers,
         EnforcerDies(e) \/ HostReboots(e) \/ EnforcerStarts(e)
  PROVE  CommonTypeOK' /\ EnforcersTypeOK'
<1>1. ASSUME EnforcerDies(e)
      PROVE  CommonTypeOK' /\ EnforcersTypeOK'
  <2>1. left' \in [Counters -> Nat]
    BY <1>1, SpendLeaves DEF EnforcerDies, Fault, Counters
  <2>2. CommonTypeOK'
    BY <1>1, <2>1, DisconnectTypes, CommonTypes, CommonFrame
    DEF EnforcerDies, CommonTypeOK
  <2> QED
    BY <1>1, <2>2, DisconnectTypes, EnforcersTypes, EnforcersFrame
    DEF EnforcerDies
<1>2. ASSUME HostReboots(e)
      PROVE  CommonTypeOK' /\ EnforcersTypeOK'
  <2>1. left' \in [Counters -> Nat]
    BY <1>2, SpendLeaves DEF HostReboots, Fault, Counters
  <2>2. CommonTypeOK'
    BY <1>2, <2>1, DisconnectTypes, CommonTypes, CommonFrame
    DEF HostReboots, CommonTypeOK
  <2>3. rules \in Chains /\ skipped \in Chains /\ rules[e] \in SUBSET Ips
    BY DEF EnforcersTypeOK, Chains
  <2>4. rules' \in Chains /\ skipped' \in Chains
    BY <1>2, <2>3, ChainTypes DEF HostReboots
  <2> QED
    BY <1>2, <2>2, <2>4, DisconnectTypes, EnforcersTypes DEF HostReboots
<1>3. ASSUME EnforcerStarts(e)
      PROVE  CommonTypeOK' /\ EnforcersTypeOK'
  <2>1. CommonTypeOK'
    BY <1>3, CommonTypes, CommonFrame DEF EnforcerStarts, CommonTypeOK
  <2> QED
    BY <1>3, <2>1, EnforcersFrame DEF EnforcerStarts
<1> QED
  BY <1>1, <1>2, <1>3

LEMMA EndingTypes ==
  ASSUME BorderTypeOK, NEW ts \in SUBSET Threads, NEW pcs
  PROVE  Ending(ts, pcs) \in SUBSET Ips
  BY DEF BorderTypeOK, Ending

ReqType == [pc: {"idle", "write", "lift", "lifted", "publish"},
            op: Operations, ip: Ips]

LEMMA SettlesTypes ==
  ASSUME BorderTypeOK, NEW t \in Threads, Settles(t) \/ UNCHANGED unsettled
  PROVE  unsettled' \in SUBSET Ips
  BY DEF BorderTypeOK, Settles

LEMMA BorderTypes ==
  ASSUME CommonTypeOK, BorderTypeOK, Border
  PROVE  CommonTypeOK' /\ BorderTypeOK'
<1>a. ASSUME NEW t \in Threads,
             NEW pc \in {"idle", "write", "lift", "lifted", "publish"},
             Step(t, pc)
      PROVE  req' \in [Threads -> ReqType]
  BY <1>a, AnIp DEF Step, BorderTypeOK, ReqIdle, Operations, ReqType
<1>1. ASSUME NEW t \in Threads, NEW op \in Operations, NEW ip \in Ips,
             Request(t, op, ip)
      PROVE  CommonTypeOK' /\ BorderTypeOK'
  <2>1. left' \in [Counters -> Nat]
    BY <1>1, SpendLeaves DEF Request, Counters
  <2>2. CommonTypeOK'
    BY <1>1, <2>1, CommonTypes, CommonFrame DEF Request
  <2>3. req' \in [Threads -> ReqType] /\ unsettled' \in SUBSET Ips
    BY <1>1 DEF Request, BorderTypeOK, ReqType
  <2> QED
    BY <1>1, <2>2, <2>3 DEF Request, BorderTypeOK, ReqType
<1>2. ASSUME NEW t \in Threads, Write(t)
      PROVE  CommonTypeOK' /\ BorderTypeOK'
  <2>1. CommonTypeOK'
    BY <1>2, CommonFrame DEF Write
  <2>2. req[t].ip \in Ips
    BY DEF BorderTypeOK
  <2>3. blocks' \in SUBSET Ips /\ allowlist' \in SUBSET Ips
    BY <1>2, <2>2 DEF Write, BorderTypeOK
  <2>4. unsettled' \in SUBSET Ips
    BY <1>2, SettlesTypes DEF Write
  <2>5. req' \in [Threads -> ReqType]
    BY <1>2, <1>a DEF Write
  <2> QED
    BY <1>2, <2>1, <2>3, <2>4, <2>5 DEF Write, BorderTypeOK, ReqType
<1>3. ASSUME NEW t \in Threads, Lift(t)
      PROVE  CommonTypeOK' /\ BorderTypeOK'
  <2>1. CommonTypeOK'
    BY <1>3, CommonFrame DEF Lift
  <2>2. unsettled' \in SUBSET Ips
    BY <1>3, SettlesTypes DEF Lift
  <2>3. req' \in [Threads -> ReqType]
    BY <1>3, <1>a DEF Lift
  <2> QED
    BY <1>3, <2>1, <2>2, <2>3 DEF Lift, BorderTypeOK, ReqType
<1>4. ASSUME NEW t \in Threads, Announce(t)
      PROVE  CommonTypeOK' /\ BorderTypeOK'
  <2>1. req[t].ip \in Ips /\ req[t].op \in Operations
    BY DEF BorderTypeOK
  <2>2. \A kind \in {"unblock", req[t].op} :
          [kind |-> kind, ip |-> req[t].ip, signed |-> apiSigns] \in Messages
    BY <2>1 DEF Messages, Operations, Kinds, BorderTypeOK
  <2>3. left' \in [Counters -> Nat]
    BY <1>4, SpendLeaves, CommonFrame DEF Announce, Fault, Counters
  <2>4. CommonTypeOK'
    BY <1>4, <2>1, <2>2, <2>3, PublishTypes, PublishLostTypes, CommonTypes,
       CommonFrame DEF Announce
  <2>5. \E pc \in {"idle", "publish"} : Step(t, pc)
    BY <1>4 DEF Announce
  <2>6. req' \in [Threads -> ReqType]
    BY <1>a, <2>5
  <2> QED
    BY <1>4, <2>4, <2>6 DEF Announce, BorderTypeOK, ReqType
<1>5. ASSUME NEW ts \in SUBSET Threads, CutOff(ts)
      PROVE  CommonTypeOK' /\ BorderTypeOK'
  <2>1. left' \in [Counters -> Nat]
    BY <1>5, SpendLeaves DEF CutOff, Fault, Counters
  <2>2. CommonTypeOK'
    BY <1>5, <2>1, EndingTypes, PublishLostTypes, CommonTypes, CommonFrame DEF CutOff
  <2>3. req' \in [Threads -> ReqType]
    BY <1>5, AnIp DEF CutOff, BorderTypeOK, ReqIdle, Operations, ReqType
  <2>4. unsettled' \in SUBSET Ips
    BY <1>5, EndingTypes DEF CutOff, BorderTypeOK
  <2> QED
    BY <1>5, <2>2, <2>3, <2>4 DEF CutOff, BorderTypeOK, ReqType
<1> QED
  BY <1>1, <1>2, <1>3, <1>4, <1>5 DEF Border

-----------------------------------------------------------------------------
(* The clock keeps within its bound.                                       *)

KeepsTime == /\ left'["commands"] = left["commands"]
             /\ left'["collects"] = left["collects"]

LEMMA FaultKeepsTime == CommonTypeOK /\ Fault => KeepsTime
  BY SpendLeaves DEF Fault, KeepsTime, Counters

LEMMA SameLeftKeepsTime == UNCHANGED left => KeepsTime
  BY DEF KeepsTime

LEMMA HostsKeepTime ==
  ASSUME CommonTypeOK, EnforcerStep \/ Border
  PROVE  KeepsTime
<1>1. \A e, ip : AddRule(e, ip) \/ RemoveRules(e, ip) => KeepsTime
  BY FaultKeepsTime, SameLeftKeepsTime DEF AddRule, RemoveRules
<1>2. ASSUME Agent PROVE KeepsTime
  <2>1. AgentApplies => KeepsTime
    BY <1>1, SameLeftKeepsTime DEF AgentApplies
  <2>2. AgentUnblocks => KeepsTime
    BY <1>1 DEF AgentUnblocks
  <2> QED
    BY <1>2, <2>1, <2>2, SameLeftKeepsTime
    DEF Agent, AgentIgnores, AgentTakes, AgentTruncates, AgentFills
<1>3. ASSUME ListenerHandles PROVE KeepsTime
  <2>1. \A m : m.kind \in Kinds /\ ListenerApplies(m) => KeepsTime
    BY <1>1, SameLeftKeepsTime DEF ListenerApplies, Kinds
  <2>2. Head(inbox["listener"]) \in Messages
    BY <1>3, TakeTypes DEF ListenerHandles, Enforcers
  <2> QED
    BY <1>3, <2>1, <2>2, SameLeftKeepsTime DEF ListenerHandles, Messages
<1>4. ASSUME NEW e \in Enforcers, EnforcerDies(e) \/ Reboot(e) \/ EnforcerStarts(e)
      PROVE  KeepsTime
  BY <1>4, FaultKeepsTime, SameLeftKeepsTime
  DEF EnforcerDies, Reboot, HostReboots, EnforcerStarts
<1>5. ASSUME NEW t \in Threads, NEW op, NEW ip, Request(t, op, ip)
      PROVE  KeepsTime
  BY <1>5, SpendLeaves DEF Request, KeepsTime, Counters
<1>6. ASSUME NEW t \in Threads, Write(t) \/ Lift(t) PROVE KeepsTime
  BY <1>6, SameLeftKeepsTime DEF Write, Lift, commonVars
<1>7. ASSUME NEW t \in Threads, Announce(t) PROVE KeepsTime
  BY <1>7, FaultKeepsTime, SameLeftKeepsTime DEF Announce
<1>8. ASSUME NEW ts, CutOff(ts) PROVE KeepsTime
  BY <1>8, FaultKeepsTime DEF CutOff
<1> QED
  BY <1>2, <1>3, <1>4, <1>5, <1>6, <1>7, <1>8 DEF EnforcerStep, Border

LEMMA ClockFrame ==
  ASSUME CommonTypeOK, ListsTypeOK, ClockInv, KeepsTime,
         UNCHANGED clock, UNCHANGED col,
         mgr'.pc \in {"truncate", "fill", "row"}
           => mgr.pc \in {"truncate", "fill", "row"},
         mgr'.pc = "upsert" => UNCHANGED mgr
  PROVE  ClockInv'
<1>1. Owed' <= Owed /\ Owed' \in Nat
  BY DEF Owed
<1>2. clock' + Owed' + left'["commands"] + left'["collects"] <= MaxClock
  BY <1>1, ClockRoom DEF KeepsTime
<1> QED
  BY <1>2 DEF ClockInv

LEMMA ManagerClock ==
  ASSUME CommonTypeOK, ListsTypeOK, ClockInv, Manager
  PROVE  ClockInv'
<1>a. \A pc \in STRING : [mgr EXCEPT !.pc = pc].pc = pc
  BY DEF ListsTypeOK
<1>b. MgrIdle.pc = "idle"
  BY DEF MgrIdle
<1>1. ASSUME NEW cmd \in Commands, NEW ip \in Ips, MgrStart(cmd, ip)
      PROVE  ClockInv'
  <2>1. Owed = 0 /\ Owed' = 1
    BY <1>1 DEF MgrStart, Owed, MgrIdle
  <2>2. /\ left'["commands"] = left["commands"] - 1
        /\ left'["collects"] = left["collects"]
    BY <1>1, SpendLeaves DEF MgrStart, Counters
  <2> QED
    BY <1>1, <2>1, <2>2, ClockRoom DEF MgrStart, ClockInv, MgrIdle
<1>2. ASSUME MgrTruncate \/ MgrFill PROVE ClockInv'
  <2>1. /\ mgr.pc \in {"truncate", "fill"} /\ mgr'.pc \in {"fill", "row"}
        /\ UNCHANGED clock /\ UNCHANGED col /\ UNCHANGED left
    <3>1. CASE MgrTruncate
      BY <3>1, <1>a DEF MgrTruncate
    <3>2. CASE MgrFill
      BY <3>2, <1>a DEF MgrFill
    <3> QED
      BY <1>2, <3>1, <3>2
  <2> QED
    BY <2>1, ClockFrame, SameLeftKeepsTime
<1>3. ASSUME MgrReadsClock PROVE ClockInv'
  <2>1. Owed = 1 /\ Owed' = 0
    BY <1>3, <1>a DEF MgrReadsClock, Owed, ListsTypeOK
  <2>2. mgr'.now = clock + 1 /\ UNCHANGED <<left, col>>
    BY <1>3 DEF MgrReadsClock, ListsTypeOK, commonVars
  <2> QED
    BY <1>3, <2>1, <2>2, ClockRoom DEF MgrReadsClock, ClockInv
<1>7. ASSUME MgrUpsert PROVE ClockInv'
  BY <1>7, <1>a, ClockFrame, SameLeftKeepsTime DEF MgrUpsert, commonVars
<1>4. ASSUME MgrDelete PROVE ClockInv'
  BY <1>4, <1>a, ClockFrame, SameLeftKeepsTime DEF MgrDelete
<1>5. ASSUME MgrPublish PROVE ClockInv'
  <2>1. mgr'.pc \in {"change", "idle"}
    <3>1. AfterPublish.pc \in {"change", "idle"}
      BY <1>a, <1>b DEF AfterPublish
    <3>2. mgr' = AfterPublish \/ mgr' = MgrIdle
      BY <1>5 DEF MgrPublish
    <3> QED
      BY <3>1, <3>2, <1>b
  <2>2. KeepsTime
    BY <1>5, FaultKeepsTime, SameLeftKeepsTime DEF MgrPublish
  <2> QED
    BY <1>5, <2>1, <2>2, ClockFrame DEF MgrPublish
<1>6. ASSUME MgrDies PROVE ClockInv'
  BY <1>6, <1>b, ClockFrame, FaultKeepsTime DEF MgrDies
<1> QED
  BY <1>1, <1>2, <1>3, <1>4, <1>5, <1>6, <1>7 DEF Manager

LEMMA CollectorClock ==
  ASSUME CommonTypeOK, ListsTypeOK, ClockInv, Collector
  PROVE  ClockInv'
<1>1. ASSUME NEW ips, ColStart(ips) PROVE ClockInv'
  <2>1. /\ left'["collects"] = left["collects"] - 1
        /\ left'["commands"] = left["commands"]
    BY <1>1, SpendLeaves DEF ColStart, Counters
  <2>2. Owed' = Owed
    BY <1>1 DEF ColStart, Owed
  <2> QED
    BY <1>1, <2>1, <2>2, ClockRoom DEF ColStart, ClockInv
<1>2. ASSUME ColWrite \/ ColFails PROVE ClockInv'
  <2>1. KeepsTime /\ clock' = clock /\ mgr' = mgr /\ col' = ColIdle
    BY <1>2, FaultKeepsTime, SameLeftKeepsTime DEF ColWrite, ColFails, commonVars
  <2>2. Owed' = Owed
    BY <2>1 DEF Owed
  <2> QED
    BY <2>1, <2>2 DEF ClockInv, ColIdle, KeepsTime
<1> QED
  BY <1>1, <1>2 DEF Collector

LEMMA ShipperClock ==
  ASSUME CommonTypeOK, ListsTypeOK, ClockInv, Shipper
  PROVE  ClockInv'
<1>1. KeepsTime /\ UNCHANGED <<clock, col, mgr>>
  BY FaultKeepsTime, SameLeftKeepsTime
  DEF Shipper, ShipStart, ShipPublish, ShipFails, ShipSave, commonVars
<1> QED
  BY <1>1, ClockFrame

-----------------------------------------------------------------------------
(* The watermark passes no row.                                            *)

LEMMA RowOfBatch ==
  ASSUME ListsTypeOK, NEW i \in DOMAIN ship.rows
  PROVE  ship.rows[i] \in Rows /\ ship.rows[i][2] \in 1..MaxClock
<1>1. ship.rows[i] \in Rows
  BY DEF ListsTypeOK
<1> QED
  BY <1>1 DEF Rows

LEMMA LastOfBatch ==
  ASSUME ListsTypeOK, ship.rows # <<>>
  PROVE  Len(ship.rows) \in DOMAIN ship.rows /\ Len(ship.rows) \in Nat
<1>1. ship.rows \in Seq(Rows)
  BY DEF ListsTypeOK
<1> QED
  BY <1>1

LEMMA HorizonAhead ==
  ASSUME ListsTypeOK, ShipInv
  PROVE  /\ Horizon \in Nat /\ watermark \in Nat
         /\ watermark <= Horizon
         /\ ship.pc = "idle" => Horizon = watermark
<1>1. watermark \in Nat
  BY CommonAssumption DEF ListsTypeOK
<1>2. CASE ship.pc = "idle"
  BY <1>1, <1>2 DEF Horizon
<1>3. CASE ship.pc # "idle"
  <2>1. ship.rows # <<>>
    BY <1>3 DEF ShipInv, BatchShape
  <2>2. /\ ship.rows[Len(ship.rows)][2] \in Nat
        /\ ship.rows[Len(ship.rows)][2] > watermark
    BY <1>3, <2>1, LastOfBatch, RowOfBatch DEF ShipInv, BatchShape
  <2> QED
    BY <1>1, <1>3, <2>2 DEF Horizon
<1> QED
  BY <1>2, <1>3

\* What another program writes changes no promise of the batch: it is a row
\* behind the horizon, which late remembers, or one before it.
LEMMA WritesKeepShipInv ==
  ASSUME ListsTypeOK, ShipInv, ListsTypeOK',
         UNCHANGED <<ship, watermark, shipped>>,
         NEW rows, NoteLate(rows),
         \A ip \in Ips : \/ table'[ip] = table[ip]
                         \/ table'[ip].action # "block"
                         \/ <<ip, table'[ip].ts>> \in rows
  PROVE  ShipInv'
<1>1. Horizon' = Horizon /\ Batch' = Batch
  BY DEF Horizon, Batch
<1>2. late \subseteq late'
  BY DEF NoteLate
<1>3. ASSUME NEW ip \in Ips, table'[ip].action = "block",
             table'[ip].ts <= Horizon, table'[ip] # table[ip]
      PROVE  <<ip, table'[ip].ts>> \in late'
  <2>1. <<ip, table'[ip].ts>> \in rows
    BY <1>3
  <2>2. <<ip, table'[ip].ts>>[2] = table'[ip].ts
    OBVIOUS
  <2> QED
    BY <1>3, <2>1, <2>2 DEF NoteLate
<1>4. ship.pc # "idle" => BatchShape'
  BY DEF ShipInv, BatchShape
<1>5. ship.pc # "idle" => BatchComplete'
  BY <1>1, <1>2, <1>3 DEF ShipInv, BatchComplete
<1>6. NothingSkipped'
  <2> SUFFICES ASSUME NEW ip \in Ips, table'[ip].action = "block",
                      table'[ip].ts <= watermark
               PROVE  <<ip, table'[ip].ts>> \in shipped \cup late'
    BY DEF NothingSkipped
  <2>1. table'[ip].ts \in Nat
    BY CommonAssumption DEF ListsTypeOK
  <2>2. table'[ip].ts <= Horizon
    BY <2>1, HorizonAhead
  <2>3. CASE table'[ip] = table[ip]
    BY <2>3, <1>2 DEF ShipInv, NothingSkipped
  <2>4. CASE table'[ip] # table[ip]
    BY <2>4, <2>2, <1>3
  <2> QED
    BY <2>3, <2>4
<1> QED
  BY <1>4, <1>5, <1>6 DEF ShipInv

LEMMA FrameKeepsShipInv ==
  ShipInv /\ UNCHANGED <<table, ship, watermark, shipped, late>> => ShipInv'
  BY DEF ShipInv, BatchShape, BatchComplete, NothingSkipped, Batch, Horizon

LEMMA ManagerShip ==
  ASSUME ListsTypeOK, ListsTypeOK', ShipInv, Manager
  PROVE  ShipInv'
<1>1. ASSUME MgrUpsert PROVE ShipInv'
  <2>1. \A ip \in Ips :
          \/ table'[ip] = table[ip]
          \/ <<ip, table'[ip].ts>> \in {<<mgr.ip, mgr.now>>}
    BY <1>1 DEF MgrUpsert, ListsTypeOK
  <2> QED
    BY <1>1, <2>1, WritesKeepShipInv DEF MgrUpsert
<1>2. ASSUME MgrDelete PROVE ShipInv'
  <2>1. NoteLate({})
    BY <1>2 DEF MgrDelete, NoteLate
  <2>2. \A ip \in Ips : \/ table'[ip] = table[ip]
                        \/ table'[ip].action # "block"
    BY <1>2 DEF MgrDelete, NoRow, ListsTypeOK
  <2> QED
    BY <1>2, <2>1, <2>2, WritesKeepShipInv DEF MgrDelete
<1>3. ASSUME \/ \E cmd \in Commands, ip \in Ips : MgrStart(cmd, ip)
             \/ MgrTruncate \/ MgrFill \/ MgrReadsClock \/ MgrPublish \/ MgrDies
      PROVE  ShipInv'
  BY <1>3, FrameKeepsShipInv
  DEF MgrStart, MgrTruncate, MgrFill, MgrReadsClock, MgrPublish, MgrDies
<1> QED
  BY <1>1, <1>2, <1>3 DEF Manager

LEMMA CollectorShip ==
  ASSUME ListsTypeOK, ListsTypeOK', ShipInv, Collector
  PROVE  ShipInv'
<1>1. ASSUME ColWrite PROVE ShipInv'
  <2>1. \A ip \in Ips :
          \/ table'[ip] = table[ip]
          \/ <<ip, table'[ip].ts>> \in {<<i, col.now>> : i \in NewIps}
    BY <1>1 DEF ColWrite
  <2> QED
    BY <1>1, <2>1, WritesKeepShipInv DEF ColWrite
<1>2. ASSUME (\E ips : ColStart(ips)) \/ ColFails PROVE ShipInv'
  BY <1>2, FrameKeepsShipInv DEF ColStart, ColFails
<1> QED
  BY <1>1, <1>2 DEF Collector

LEMMA ShipperShip ==
  ASSUME ListsTypeOK, ListsTypeOK', ShipInv, Shipper
  PROVE  ShipInv'
<1>1. ASSUME ShipStart PROVE ShipInv'
  <2>1. PICK rows \in Seq(Rows) :
          /\ ship' = [pc |-> "publish", rows |-> rows, published |-> 1]
          /\ rows # <<>> /\ InOrder(rows)
          /\ \A i \in DOMAIN rows : rows[i] \in Pending
          /\ \A r \in Pending : \E i \in DOMAIN rows : rows[i] = r
    BY <1>1, ShipStartReads
  <2>2. /\ ship'.pc = "publish" /\ ship'.rows = rows /\ ship'.published = 1
        /\ UNCHANGED <<table, watermark, shipped, late>>
        /\ ship.pc = "idle"
    BY <1>1, <2>1 DEF ShipStart
  <2>3. Len(rows) \in DOMAIN rows /\ Len(rows) \in Nat /\ Len(rows) >= 1
        /\ DOMAIN rows = 1..Len(rows)
    BY <2>1
  <2>4. \A i \in DOMAIN rows : rows[i] \in Rows /\ rows[i][2] \in Nat
    BY <2>1 DEF Rows
  <2>5. \A i \in DOMAIN rows : rows[i][2] > watermark
    BY <2>1 DEF Pending, PendingIps
  <2>6. Horizon' = rows[Len(rows)][2]
    BY <2>2 DEF Horizon
  <2>7. \A i \in DOMAIN rows : rows[i][2] <= rows[Len(rows)][2]
    <3> SUFFICES ASSUME NEW i \in DOMAIN rows
                 PROVE  rows[i][2] <= rows[Len(rows)][2]
      OBVIOUS
    <3>1. i < Len(rows) \/ i = Len(rows)
      BY <2>3
    <3> QED
      BY <3>1, <2>1, <2>3, <2>4 DEF InOrder
  <2>8. BatchShape'
    <3>1. \A i \in DOMAIN rows : ~(i < 1)
      BY <2>3
    <3> QED
      BY <2>1, <2>2, <2>3, <2>5, <3>1 DEF BatchShape
  <2>9. BatchComplete'
    <3> SUFFICES ASSUME NEW ip \in Ips, table[ip].action = "block",
                        table[ip].ts <= Horizon'
                 PROVE  <<ip, table[ip].ts>> \in shipped \cup late \cup Batch'
      BY <2>2 DEF BatchComplete
    <3>1. CASE table[ip].ts <= watermark
      BY <3>1 DEF ShipInv, NothingSkipped
    <3>2. CASE ~(table[ip].ts <= watermark)
      <4>1. table[ip].ts > watermark
        <5>1. table[ip].ts \in Nat /\ watermark \in Nat
          BY DEF ListsTypeOK
        <5> QED
          BY <3>2, <5>1
      <4>2. <<ip, table[ip].ts>> \in Pending
        BY <4>1 DEF Pending, PendingIps
      <4>3. Batch' = {rows[i] : i \in DOMAIN rows}
        BY <2>2 DEF Batch
      <4> QED
        BY <4>2, <4>3, <2>1
    <3> QED
      BY <3>1, <3>2
  <2>10. NothingSkipped'
    BY <2>2 DEF ShipInv, NothingSkipped
  <2> QED
    BY <2>8, <2>9, <2>10 DEF ShipInv
<1>2. ASSUME ShipPublish PROVE ShipInv'
  <2>1. ship.pc = "publish" /\ BatchShape /\ BatchComplete /\ NothingSkipped
    BY <1>2 DEF ShipPublish, ShipInv
  <2>2. /\ ship'.pc = IF ship.published = Len(ship.rows) THEN "save"
                                                         ELSE "publish"
        /\ ship'.rows = ship.rows /\ ship'.published = ship.published + 1
        /\ UNCHANGED <<table, watermark, late>>
        /\ shipped' = shipped \cup {ShipRow}
    BY <1>2 DEF ShipPublish, ListsTypeOK
  <2>3. /\ ship.rows \in Seq(Rows) /\ ship.published \in Nat
        /\ ship.published <= Len(ship.rows) /\ Len(ship.rows) \in Nat
        /\ DOMAIN ship.rows = 1..Len(ship.rows)
    BY <2>1 DEF BatchShape, ListsTypeOK
  <2>4. \A i \in DOMAIN ship.rows :
          i < ship.published + 1 => ship.rows[i] \in shipped'
    <3> SUFFICES ASSUME NEW i \in DOMAIN ship.rows, i < ship.published + 1
                 PROVE  ship.rows[i] \in shipped'
      OBVIOUS
    <3>1. i < ship.published \/ i = ship.published
      BY <2>3
    <3> QED
      BY <3>1, <2>1, <2>2 DEF BatchShape, ShipRow
  <2>5. BatchShape'
    BY <2>1, <2>2, <2>3, <2>4 DEF BatchShape
  <2>6. Horizon' = Horizon /\ Batch' = Batch /\ shipped \subseteq shipped'
    BY <2>1, <2>2 DEF Horizon, Batch
  <2>7. BatchComplete'
    BY <2>1, <2>2, <2>6 DEF BatchComplete
  <2>8. NothingSkipped'
    BY <2>1, <2>2, <2>6 DEF NothingSkipped
  <2> QED
    BY <2>5, <2>7, <2>8 DEF ShipInv
<1>3. ASSUME ShipFails PROVE ShipInv'
  BY <1>3 DEF ShipFails, ShipIdle, ShipInv, NothingSkipped
<1>4. ASSUME ShipSave PROVE ShipInv'
  <2>1. /\ ship.pc = "save" /\ BatchShape /\ BatchComplete
        /\ ship.published = Len(ship.rows) + 1 /\ ship.rows # <<>>
    BY <1>4 DEF ShipSave, ShipInv, BatchShape
  <2>2. Len(ship.rows) \in Nat /\ DOMAIN ship.rows = 1..Len(ship.rows)
    BY <2>1, LastOfBatch DEF ListsTypeOK
  <2>3. watermark' = Horizon
    <3>1. ship.published - 1 = Len(ship.rows)
      BY <2>1, <2>2
    <3> QED
      BY <1>4, <2>1, <3>1 DEF ShipSave, Newest, Horizon
  <2>4. Batch \subseteq shipped
    BY <2>1, <2>2 DEF Batch, BatchShape
  <2>5. /\ ship'.pc = "idle"
        /\ UNCHANGED <<table, shipped, late>>
    BY <1>4 DEF ShipSave, ShipIdle
  <2>6. NothingSkipped'
    BY <2>1, <2>3, <2>4, <2>5 DEF NothingSkipped, BatchComplete
  <2> QED
    BY <2>5, <2>6 DEF ShipInv
<1> QED
  BY <1>1, <1>2, <1>3, <1>4 DEF Shipper

-----------------------------------------------------------------------------
(* Types and the watermark, together inductive.                            *)

ListsInv == TypeOK /\ ClockInv /\ ShipInv

LEMMA InitLists == Init => ListsInv
<1> SUFFICES ASSUME Init PROVE ListsInv
  OBVIOUS
<1>1. TypeOK
  BY InitTypes
<1>2. ClockInv
  <2>1. left \in Budgets /\ clock = 0 /\ Owed = 0 /\ col.pc = "idle"
        /\ mgr.pc = "idle"
    BY DEF Init, CommonInit, ListsInit, MgrIdle, ColIdle, Owed
  <2>2. left["commands"] \in Nat /\ left["collects"] \in Nat
    BY <1>1 DEF TypeOK, CommonTypeOK
  <2> QED
    BY <2>1, <2>2, CommonAssumption DEF ClockInv
<1>3. ShipInv
  BY DEF Init, ListsInit, ShipInv, ShipIdle, NothingSkipped, NoRow
<1> QED
  BY <1>1, <1>2, <1>3 DEF ListsInv

LEMMA ListsStep == ListsInv /\ [Next]_vars => ListsInv'
<1> SUFFICES ASSUME ListsInv, [Next]_vars PROVE ListsInv'
  OBVIOUS
<1>a. /\ CommonTypeOK /\ ListsTypeOK /\ EnforcersTypeOK /\ BorderTypeOK
      /\ ClockInv /\ ShipInv
  BY DEF ListsInv, TypeOK
<1>b. UNCHANGED borderVars => BorderTypeOK'
  BY <1>a DEF borderVars, BorderTypeOK
<1>c. UNCHANGED listVars /\ KeepsTime => ClockInv' /\ ShipInv'
  BY <1>a, ClockFrame, FrameKeepsShipInv DEF listVars
<1>1. ASSUME Manager \/ Collector \/ Shipper,
             UNCHANGED <<enforcerVars, borderVars>>
      PROVE  ListsInv'
  <2>1. CommonTypeOK' /\ ListsTypeOK'
    BY <1>1, <1>a, ManagerTypes, CollectorTypes, ShipperTypes
  <2>2. ClockInv'
    BY <1>1, <1>a, ManagerClock, CollectorClock, ShipperClock
  <2>3. ShipInv'
    BY <1>1, <1>a, <2>1, ManagerShip, CollectorShip, ShipperShip
  <2> QED
    BY <1>1, <1>a, <1>b, <2>1, <2>2, <2>3, EnforcersFrame DEF ListsInv, TypeOK
<1>2. ASSUME EnforcerStep, UNCHANGED <<listVars, borderVars>>
      PROVE  ListsInv'
  <2>1. CommonTypeOK' /\ EnforcersTypeOK'
    BY <1>2, <1>a, AgentTypes, ListenerTypes, HostTypes DEF EnforcerStep, Reboot
  <2> QED
    BY <1>2, <1>a, <1>b, <1>c, <2>1, ListsFrame, HostsKeepTime
    DEF ListsInv, TypeOK
<1>3. ASSUME Border, UNCHANGED <<listVars, enforcerVars>>
      PROVE  ListsInv'
  <2>1. CommonTypeOK' /\ BorderTypeOK'
    BY <1>3, <1>a, BorderTypes
  <2> QED
    BY <1>3, <1>a, <1>c, <2>1, ListsFrame, EnforcersFrame, HostsKeepTime
    DEF ListsInv, TypeOK
<1>4. ASSUME UNCHANGED vars PROVE ListsInv'
  <2>1. UNCHANGED <<commonVars, listVars, enforcerVars, borderVars, left>>
    BY <1>4 DEF vars, commonVars
  <2> QED
    BY <2>1, <1>a, <1>b, <1>c, CommonFrame, ListsFrame, EnforcersFrame,
       SameLeftKeepsTime DEF ListsInv, TypeOK
<1> QED
  BY <1>1, <1>2, <1>3, <1>4 DEF Next

LEMMA ListsAlways == Spec => []ListsInv
  BY InitLists, ListsStep, PTL DEF Spec

-----------------------------------------------------------------------------
(* The API's tables stay apart.                                            *)

LEMMA InitTables == Init => TablesInv
  BY DEF Init, BorderInit, TablesInv, TablesApart, InTables, ReqIdle

LEMMA FrameTables == TablesInv /\ UNCHANGED borderVars => TablesInv'
  BY DEF TablesInv, TablesApart, InTables, borderVars

\* A request that goes on, on the address it works on or on none.
LEMMA StepWorks ==
  ASSUME BorderTypeOK, NEW t \in Threads,
         NEW pc \in {"idle", "write", "lift", "lifted", "publish"}, Step(t, pc)
  PROVE  /\ \A u \in Threads : u # t => req'[u] = req[u]
         /\ req'[t].pc = pc
         /\ pc # "idle" => req'[t].ip = req[t].ip /\ req'[t].op = req[t].op
<1>1. req'[t] = IF pc = "idle" THEN ReqIdle ELSE [req[t] EXCEPT !.pc = pc]
  BY DEF Step, BorderTypeOK
<1>2. \A u \in Threads : u # t => req'[u] = req[u]
  BY DEF Step, BorderTypeOK
<1>3. /\ [req[t] EXCEPT !.pc = pc].pc = pc
      /\ [req[t] EXCEPT !.pc = pc].ip = req[t].ip
      /\ [req[t] EXCEPT !.pc = pc].op = req[t].op
  BY DEF BorderTypeOK
<1> QED
  BY <1>1, <1>2, <1>3 DEF ReqIdle

\* A request that goes on disturbs no other address.
LEMMA OtherAddress ==
  ASSUME BorderTypeOK, NEW t \in Threads, req[t].pc # "idle",
         NEW pc \in {"idle", "write", "lift", "lifted", "publish"}, Step(t, pc),
         NEW ip \in Ips, ip # req[t].ip, TablesApart(ip),
         ip \in unsettled' <=> ip \in unsettled,
         ip \in blocks' <=> ip \in blocks, ip \in allowlist' <=> ip \in allowlist
  PROVE  TablesApart(ip)'
<1>1. \A u \in Threads : InTables(u, ip) => u # t
  BY DEF InTables
<1>2. \A u \in Threads : InTables(u, ip)' => u # t
  <2>1. CASE pc = "idle"
    BY <2>1, StepWorks DEF InTables
  <2>2. CASE pc # "idle"
    BY <2>2, StepWorks DEF InTables
  <2> QED
    BY <2>1, <2>2
<1>3. \A u \in Threads : u # t => req'[u] = req[u]
  BY StepWorks
<1>4. \A u \in Threads : InTables(u, ip)' <=> InTables(u, ip)
  BY <1>1, <1>2, <1>3 DEF InTables
<1> QED
  BY <1>1, <1>3, <1>4 DEF TablesApart

LEMMA RequestTables ==
  ASSUME BorderTypeOK, TablesInv,
         NEW t \in Threads, NEW op \in Operations, NEW ip \in Ips,
         Request(t, op, ip), NEW a \in Ips
  PROVE  TablesApart(a)'
<1>1. TablesApart(a)
  BY DEF TablesInv
<1>2. UNCHANGED <<blocks, allowlist>>
  BY DEF Request
<1>3. CASE op = "block" /\ ip \in allowlist
  <2>1. UNCHANGED <<req, unsettled>>
    BY <1>3 DEF Request
  <2> QED
    BY <1>1, <1>2, <2>1 DEF TablesApart, InTables
<1>4. CASE ~(op = "block" /\ ip \in allowlist)
  <2>1. /\ req' = [req EXCEPT ![t] = [pc |-> "write", op |-> op, ip |-> ip]]
        /\ req[t].pc = "idle"
        /\ unsettled' = IF \E u \in Threads : InTables(u, ip)
                        THEN unsettled \cup {ip} ELSE unsettled
    BY <1>4 DEF Request
  <2>2. /\ \A u \in Threads : u # t => req'[u] = req[u]
        /\ req'[t].pc = "write" /\ req'[t].op = op /\ req'[t].ip = ip
    BY <2>1 DEF BorderTypeOK
  <2>3. CASE a # ip
    <3>1. \A u \in Threads : InTables(u, a)' <=> InTables(u, a)
      BY <2>1, <2>2, <2>3 DEF InTables
    <3>2. \A u \in Threads : InTables(u, a) => req'[u] = req[u]
      BY <2>1, <2>2 DEF InTables
    <3>3. a \in unsettled' <=> a \in unsettled
      BY <2>1, <2>3
    <3> QED
      BY <1>1, <1>2, <3>1, <3>2, <3>3 DEF TablesApart
  <2>4. CASE a = ip /\ \E u \in Threads : InTables(u, ip)
    BY <2>1, <2>4 DEF TablesApart
  <2>5. CASE a = ip /\ \A u \in Threads : ~InTables(u, ip)
    <3>1. \A u \in Threads : InTables(u, a)' => u = t
      BY <2>2, <2>5 DEF InTables
    <3>2. unsettled' = unsettled
      BY <2>1, <2>5
    <3>3. a \notin unsettled => a \notin blocks \cap allowlist
      BY <1>1, <2>5 DEF TablesApart
    <3>4. req'[t].op = "block" => a \notin allowlist
      BY <1>4, <2>2, <2>5
    <3> QED
      BY <1>2, <3>1, <3>2, <3>3, <3>4 DEF TablesApart
  <2> QED
    BY <2>3, <2>4, <2>5
<1> QED
  BY <1>3, <1>4

\* A thread that leaves the tables, with its address out of one of them.
LEMMA SettlesTables ==
  ASSUME BorderTypeOK, NEW t \in Threads, NEW a \in Ips, a = req[t].ip,
         TablesApart(a), InTables(t, a),
         NEW pc \in {"lifted", "publish"}, Step(t, pc), Settles(t),
         a \notin blocks' \cap allowlist'
  PROVE  TablesApart(a)'
<1>1. \A u \in Threads : InTables(u, a)' => u # t /\ InTables(u, a)
  BY StepWorks DEF InTables
<1>2. CASE \E u \in Threads \ {t} : InTables(u, a)
  <2>1. unsettled' = unsettled
    BY <1>2 DEF Settles
  <2>2. a \in unsettled
    BY <1>2 DEF TablesApart
  <2> QED
    BY <2>1, <2>2 DEF TablesApart
<1>3. CASE ~\E u \in Threads \ {t} : InTables(u, a)
  <2>1. \A u \in Threads : ~InTables(u, a)'
    BY <1>1, <1>3
  <2> QED
    BY <2>1 DEF TablesApart
<1> QED
  BY <1>2, <1>3

LEMMA WriteTables ==
  ASSUME BorderTypeOK, TablesInv, NEW t \in Threads, Write(t), NEW a \in Ips
  PROVE  TablesApart(a)'
<1> DEFINE ip == req[t].ip
<1>1. TablesApart(a)
  BY DEF TablesInv
<1>2. ip \in Ips /\ req[t].op \in Operations /\ req[t].pc = "write"
  BY DEF BorderTypeOK, Write
<1>3. InTables(t, ip)
  BY <1>2 DEF InTables
<1>4. Step(t, IF req[t].op = "add" THEN "lift" ELSE "publish")
  BY DEF Write
<1>5. CASE a # ip
  <2>1. a \in unsettled' <=> a \in unsettled
    BY <1>5 DEF Write, Settles
  <2>2. (a \in blocks' <=> a \in blocks) /\ (a \in allowlist' <=> a \in allowlist)
    BY <1>5 DEF Write
  <2> QED
    BY <1>1, <1>2, <1>4, <1>5, <2>1, <2>2, OtherAddress
<1>6. CASE a = ip /\ req[t].op \in {"unblock", "remove"}
  <2>1. a \notin blocks' \cap allowlist' /\ Settles(t) /\ Step(t, "publish")
    BY <1>6 DEF Write
  <2> QED
    BY <1>1, <1>3, <1>6, <2>1, SettlesTables
<1>7. CASE a = ip /\ req[t].op \in {"block", "add"}
  <2> SUFFICES ASSUME a \notin unsettled PROVE TablesApart(a)'
    BY <1>7 DEF Write, TablesApart
  <2>1. \A u \in Threads : InTables(u, a) => u = t
    BY <1>1, <1>3, <1>7 DEF TablesApart
  <2>2. \A u \in Threads : InTables(u, a)' => u = t
    BY <1>4, <2>1, StepWorks DEF InTables
  <2>3. a \notin blocks \cap allowlist
    BY <1>1, <1>2, <2>1 DEF TablesApart
  <2>4. CASE req[t].op = "block"
    <3>1. a \notin allowlist /\ allowlist' = allowlist
      BY <1>1, <1>2, <1>3, <1>7, <2>4 DEF TablesApart, Write
    <3>2. req'[t].pc = "publish"
      BY <1>4, <2>4, StepWorks
    <3> QED
      BY <2>2, <3>1, <3>2 DEF TablesApart
  <2>5. CASE req[t].op = "add"
    <3>1. req'[t].pc = "lift" /\ InTables(t, a)'
      BY <1>4, <1>7, <2>5, StepWorks DEF InTables
    <3> QED
      BY <2>2, <3>1 DEF TablesApart
  <2> QED
    BY <1>7, <2>4, <2>5
<1> QED
  BY <1>2, <1>5, <1>6, <1>7 DEF Operations

LEMMA LiftTables ==
  ASSUME BorderTypeOK, TablesInv, NEW t \in Threads, Lift(t), NEW a \in Ips
  PROVE  TablesApart(a)'
<1> DEFINE ip == req[t].ip
<1>1. TablesApart(a)
  BY DEF TablesInv
<1>2. ip \in Ips /\ InTables(t, ip) /\ req[t].pc # "idle"
  BY DEF BorderTypeOK, Lift, InTables
<1>3. PICK pc \in {"lifted", "publish"} : Step(t, pc)
  BY DEF Lift
<1>4. CASE a # ip
  <2>1. /\ a \in unsettled' <=> a \in unsettled
        /\ a \in blocks' <=> a \in blocks
        /\ a \in allowlist' <=> a \in allowlist
    BY <1>4 DEF Lift, Settles
  <2> QED
    BY <1>1, <1>2, <1>3, <1>4, <2>1, OtherAddress
<1>5. CASE a = ip
  <2>1. a \notin blocks' \cap allowlist' /\ Settles(t)
    BY <1>5 DEF Lift
  <2> QED
    BY <1>1, <1>2, <1>3, <1>5, <2>1, SettlesTables
<1> QED
  BY <1>4, <1>5

LEMMA AnnounceTables ==
  ASSUME BorderTypeOK, TablesInv, NEW t \in Threads, Announce(t), NEW a \in Ips
  PROVE  TablesApart(a)'
<1>1. TablesApart(a)
  BY DEF TablesInv
<1>2. UNCHANGED <<blocks, allowlist, unsettled>> /\ req[t].pc \in {"lifted", "publish"}
  BY DEF Announce
<1>3. PICK pc \in {"idle", "publish"} : Step(t, pc)
  BY DEF Announce
<1>4. req'[t].pc \in {"idle", "publish"} /\ \A u \in Threads : u # t => req'[u] = req[u]
  BY <1>3, StepWorks
<1>5. \A u \in Threads : /\ InTables(u, a)' <=> InTables(u, a)
                         /\ InTables(u, a) => req'[u] = req[u]
  BY <1>2, <1>4 DEF InTables
<1>6. /\ a \in unsettled' <=> a \in unsettled
      /\ a \in allowlist' <=> a \in allowlist
      /\ a \in (blocks \cap allowlist)' <=> a \in blocks \cap allowlist
  BY <1>2
<1> QED
  BY <1>1, <1>5, <1>6 DEF TablesApart

\* What is cut off between its statements is on the record.
LEMMA CutOffTables ==
  ASSUME BorderTypeOK, TablesInv, NEW ts \in SUBSET Threads, CutOff(ts), NEW a \in Ips
  PROVE  TablesApart(a)'
<1>1. TablesApart(a)
  BY DEF TablesInv
<1>2. /\ UNCHANGED <<blocks, allowlist>>
      /\ unsettled' = unsettled \cup Ending(ts, {"lift"})
      /\ \A u \in Threads : req'[u] = IF u \in ts THEN ReqIdle ELSE req[u]
  BY DEF CutOff
<1>3. \A u \in Threads : InTables(u, a)' => u \notin ts /\ InTables(u, a)
  <2> SUFFICES ASSUME NEW u \in Threads, InTables(u, a)'
               PROVE  u \notin ts /\ InTables(u, a)
    OBVIOUS
  <2>1. ReqIdle.pc = "idle"
    BY DEF ReqIdle
  <2>2. req'[u] # ReqIdle
    BY <2>1 DEF InTables
  <2> QED
    BY <1>2, <2>2 DEF InTables
<1>4. \A u \in ts : req[u].pc = "lift" => req[u].ip \in unsettled'
  BY <1>2 DEF Ending
<1>5. \A u \in Threads : InTables(u, a) /\ req[u].pc = "lift" /\ a \notin unsettled'
                           => InTables(u, a)' /\ req'[u].pc = "lift"
  BY <1>2, <1>4 DEF InTables
<1>6. \A u \in Threads : InTables(u, a)' => req'[u] = req[u]
  BY <1>2, <1>3
<1> QED
  BY <1>1, <1>2, <1>3, <1>5, <1>6 DEF TablesApart

LEMMA BorderTables ==
  ASSUME BorderTypeOK, TablesInv, Border
  PROVE  TablesInv'
<1>1. ASSUME NEW a \in Ips PROVE TablesApart(a)'
  <2>1. ASSUME NEW t \in Threads, Write(t) \/ Lift(t) \/ Announce(t)
        PROVE  TablesApart(a)'
    BY <2>1, WriteTables, LiftTables, AnnounceTables
  <2>2. ASSUME NEW ts \in SUBSET Threads, CutOff(ts) PROVE TablesApart(a)'
    BY <2>2, CutOffTables
  <2>3. ASSUME NEW t \in Threads, NEW op \in Operations, NEW ip \in Ips,
               Request(t, op, ip)
        PROVE  TablesApart(a)'
    BY <2>3, RequestTables
  <2> QED
    BY <2>1, <2>2, <2>3 DEF Border
<1> QED
  BY <1>1 DEF TablesInv

-----------------------------------------------------------------------------
(* What appending and taking a message does to what waits.                 *)

LEMMA AppendAt ==
  ASSUME NEW S, NEW q \in Seq(S), NEW m \in S
  PROVE  /\ DOMAIN Append(q, m) = 1..(Len(q) + 1)
         /\ DOMAIN q = 1..Len(q) /\ Len(q) \in Nat
         /\ \A i \in 1..Len(q) : Append(q, m)[i] = q[i]
         /\ Append(q, m)[Len(q) + 1] = m
  OBVIOUS

LEMMA TailAt ==
  ASSUME NEW S, NEW q \in Seq(S), q # <<>>
  PROVE  /\ DOMAIN q = 1..Len(q) /\ Len(q) \in Nat /\ Len(q) >= 1
         /\ DOMAIN Tail(q) = 1..(Len(q) - 1)
         /\ \A i \in 1..(Len(q) - 1) : Tail(q)[i] = q[i + 1]
         /\ Head(q) = q[1]
  OBVIOUS

LEMMA EmptyWaits ==
  ASSUME NEW ip, NEW kinds
  PROVE  ~Waits(<<>>, ip, kinds)
  BY DEF Waits

LEMMA WaitsAppend ==
  ASSUME NEW S, NEW q \in Seq(S), NEW m \in S, NEW ip, NEW kinds
  PROVE  Waits(Append(q, m), ip, kinds) <=>
           Waits(q, ip, kinds) \/ Hits(m, ip, kinds)
<1> DEFINE n == Len(q)
           p == Append(q, m)
<1>1. /\ DOMAIN p = 1..(n + 1) /\ DOMAIN q = 1..n /\ n \in Nat
      /\ \A i \in 1..n : p[i] = q[i]
      /\ p[n + 1] = m
  BY AppendAt
<1> HIDE DEF n, p
<1>2. ASSUME Waits(p, ip, kinds) PROVE Waits(q, ip, kinds) \/ Hits(m, ip, kinds)
  <2>1. PICK i \in 1..(n + 1) : Hits(p[i], ip, kinds)
    BY <1>1, <1>2 DEF Waits
  <2>2. CASE i = n + 1
    BY <1>1, <2>1, <2>2
  <2>3. CASE i \in 1..n
    BY <1>1, <2>1, <2>3 DEF Waits
  <2> QED
    BY <1>1, <2>2, <2>3
<1>3. ASSUME Waits(q, ip, kinds) PROVE Waits(p, ip, kinds)
  <2>1. PICK i \in 1..n : Hits(q[i], ip, kinds)
    BY <1>1, <1>3 DEF Waits
  <2> QED
    BY <1>1, <2>1 DEF Waits
<1>4. ASSUME Hits(m, ip, kinds) PROVE Waits(p, ip, kinds)
  <2>1. n + 1 \in DOMAIN p
    BY <1>1
  <2> QED
    BY <1>1, <1>4, <2>1 DEF Waits
<1> QED
  BY <1>2, <1>3, <1>4 DEF p

LEMMA LastAppendHit ==
  ASSUME NEW S, NEW q \in Seq(S), NEW m \in S, NEW ip, NEW kinds, NEW kind,
         Hits(m, ip, kinds)
  PROVE  LastIs(Append(q, m), ip, kinds, kind) <=> m.kind = kind
<1> DEFINE n == Len(q)
           p == Append(q, m)
<1>1. /\ DOMAIN p = 1..(n + 1) /\ n \in Nat
      /\ p[n + 1] = m
  BY AppendAt
<1> HIDE DEF n, p
<1>2. n + 1 \in DOMAIN p /\ \A j \in DOMAIN p : ~(j > n + 1)
  BY <1>1
<1>3. ASSUME m.kind = kind PROVE LastIs(p, ip, kinds, kind)
  BY <1>1, <1>2, <1>3 DEF LastIs
<1>4. ASSUME LastIs(p, ip, kinds, kind) PROVE m.kind = kind
  <2>1. PICK i \in DOMAIN p :
          /\ p[i].kind = kind
          /\ \A j \in DOMAIN p : j > i => ~Hits(p[j], ip, kinds)
    BY <1>4 DEF LastIs
  <2>2. ~(n + 1 > i)
    BY <1>1, <1>2, <2>1
  <2>3. i = n + 1
    BY <1>1, <2>2
  <2> QED
    BY <1>1, <2>1, <2>3
<1> QED
  BY <1>3, <1>4 DEF p

LEMMA LastAppendMiss ==
  ASSUME NEW S, NEW q \in Seq(S), NEW m \in S, NEW ip, NEW kinds, NEW kind,
         ~Hits(m, ip, kinds)
  PROVE  LastIs(Append(q, m), ip, kinds, kind) <=> LastIs(q, ip, kinds, kind)
<1> DEFINE n == Len(q)
           p == Append(q, m)
<1>1. /\ DOMAIN p = 1..(n + 1) /\ DOMAIN q = 1..n /\ n \in Nat
      /\ \A i \in 1..n : p[i] = q[i]
      /\ p[n + 1] = m
  BY AppendAt
<1> HIDE DEF n, p
<1>2. \A i \in DOMAIN p : Hits(p[i], ip, kinds) => i \in DOMAIN q
  BY <1>1
<1>3. \A i \in DOMAIN q : i \in DOMAIN p /\ p[i] = q[i]
  BY <1>1
<1>4. ASSUME LastIs(q, ip, kinds, kind) PROVE LastIs(p, ip, kinds, kind)
  <2>1. PICK i \in DOMAIN q :
          /\ Hits(q[i], ip, kinds) /\ q[i].kind = kind
          /\ \A j \in DOMAIN q : j > i => ~Hits(q[j], ip, kinds)
    BY <1>4 DEF LastIs
  <2>2. \A j \in DOMAIN p : j > i => ~Hits(p[j], ip, kinds)
    BY <1>2, <1>3, <2>1
  <2> QED
    BY <1>3, <2>1, <2>2 DEF LastIs
<1>5. ASSUME LastIs(p, ip, kinds, kind) PROVE LastIs(q, ip, kinds, kind)
  <2>1. PICK i \in DOMAIN p :
          /\ Hits(p[i], ip, kinds) /\ p[i].kind = kind
          /\ \A j \in DOMAIN p : j > i => ~Hits(p[j], ip, kinds)
    BY <1>5 DEF LastIs
  <2>2. i \in DOMAIN q
    BY <1>2, <2>1
  <2>3. \A j \in DOMAIN q : j > i => ~Hits(q[j], ip, kinds)
    BY <1>3, <2>1
  <2> QED
    BY <1>3, <2>1, <2>2, <2>3 DEF LastIs
<1> QED
  BY <1>4, <1>5 DEF p

LEMMA WaitsTail ==
  ASSUME NEW S, NEW q \in Seq(S), q # <<>>, NEW ip, NEW kinds
  PROVE  Waits(q, ip, kinds) <=>
           Hits(Head(q), ip, kinds) \/ Waits(Tail(q), ip, kinds)
<1> DEFINE n == Len(q)
           r == Tail(q)
<1>1. /\ DOMAIN q = 1..n /\ n \in Nat /\ n >= 1
      /\ DOMAIN r = 1..(n - 1)
      /\ \A i \in 1..(n - 1) : r[i] = q[i + 1]
      /\ Head(q) = q[1]
  BY TailAt
<1> HIDE DEF n, r
<1>2. \A i \in DOMAIN r : i + 1 \in DOMAIN q /\ r[i] = q[i + 1]
  BY <1>1
<1>3. \A i \in DOMAIN q : i # 1 => i - 1 \in DOMAIN r /\ r[i - 1] = q[i]
  BY <1>1
<1>4. ASSUME Waits(q, ip, kinds)
      PROVE  Hits(Head(q), ip, kinds) \/ Waits(r, ip, kinds)
  <2>1. PICK i \in DOMAIN q : Hits(q[i], ip, kinds)
    BY <1>4 DEF Waits
  <2> QED
    BY <1>1, <1>3, <2>1 DEF Waits
<1>5. Hits(Head(q), ip, kinds) => Waits(q, ip, kinds)
  <2>1. 1 \in DOMAIN q
    BY <1>1
  <2> QED
    BY <1>1, <2>1 DEF Waits
<1>6. Waits(r, ip, kinds) => Waits(q, ip, kinds)
  BY <1>2 DEF Waits
<1> QED
  BY <1>4, <1>5, <1>6 DEF r

LEMMA LastTail ==
  ASSUME NEW S, NEW q \in Seq(S), q # <<>>, NEW ip, NEW kinds, NEW kind
  PROVE  LastIs(q, ip, kinds, kind) <=>
           IF Waits(Tail(q), ip, kinds) THEN LastIs(Tail(q), ip, kinds, kind)
           ELSE Hits(Head(q), ip, kinds) /\ Head(q).kind = kind
<1> DEFINE n == Len(q)
           r == Tail(q)
<1>1. /\ DOMAIN q = 1..n /\ n \in Nat /\ n >= 1
      /\ DOMAIN r = 1..(n - 1)
      /\ \A i \in 1..(n - 1) : r[i] = q[i + 1]
      /\ Head(q) = q[1]
  BY TailAt
<1> HIDE DEF n, r
<1>2. \A i \in DOMAIN r : i + 1 \in DOMAIN q /\ r[i] = q[i + 1]
  BY <1>1
<1>3. \A i \in DOMAIN q : i # 1 => i - 1 \in DOMAIN r /\ r[i - 1] = q[i]
  BY <1>1
<1>4. ASSUME LastIs(r, ip, kinds, kind) PROVE LastIs(q, ip, kinds, kind)
  <2>1. PICK i \in DOMAIN r :
          /\ Hits(r[i], ip, kinds) /\ r[i].kind = kind
          /\ \A j \in DOMAIN r : j > i => ~Hits(r[j], ip, kinds)
    BY <1>4 DEF LastIs
  <2>2. i + 1 \in DOMAIN q /\ q[i + 1] = r[i]
    BY <1>2
  <2>3. ASSUME NEW j \in DOMAIN q, j > i + 1
        PROVE  ~Hits(q[j], ip, kinds)
    <3>1. i \in Nat /\ j \in Nat
      BY <1>1
    <3>2. j # 1 /\ j - 1 > i
      BY <1>1, <2>3, <3>1
    <3> QED
      BY <1>3, <2>1, <3>2
  <2> QED
    BY <2>1, <2>2, <2>3 DEF LastIs
<1>5. ASSUME ~Waits(r, ip, kinds), Hits(Head(q), ip, kinds), Head(q).kind = kind
      PROVE  LastIs(q, ip, kinds, kind)
  <2>1. 1 \in DOMAIN q /\ q[1] = Head(q)
    BY <1>1
  <2>2. \A j \in DOMAIN q : j > 1 => ~Hits(q[j], ip, kinds)
    BY <1>1, <1>3, <1>5 DEF Waits
  <2> QED
    BY <1>5, <2>1, <2>2 DEF LastIs
<1>6. ASSUME LastIs(q, ip, kinds, kind)
      PROVE  IF Waits(r, ip, kinds) THEN LastIs(r, ip, kinds, kind)
             ELSE Hits(Head(q), ip, kinds) /\ Head(q).kind = kind
  <2>1. PICK i \in DOMAIN q :
          /\ Hits(q[i], ip, kinds) /\ q[i].kind = kind
          /\ \A j \in DOMAIN q : j > i => ~Hits(q[j], ip, kinds)
    BY <1>6 DEF LastIs
  <2>2. \A j \in DOMAIN r : j + 1 > i => ~Hits(r[j], ip, kinds)
    BY <1>2, <2>1
  <2>3. CASE i = 1
    <3>1. \A j \in DOMAIN r : j + 1 > 1
      BY <1>1
    <3>2. ~Waits(r, ip, kinds)
      BY <2>2, <2>3, <3>1 DEF Waits
    <3> QED
      BY <1>1, <2>1, <2>3, <3>2
  <2>4. CASE i # 1
    <3>1. i - 1 \in DOMAIN r /\ r[i - 1] = q[i]
      BY <1>3, <2>4
    <3>2. \A j \in DOMAIN r : j > i - 1 => j + 1 > i
      BY <1>1
    <3>3. LastIs(r, ip, kinds, kind)
      BY <2>1, <2>2, <3>1, <3>2 DEF LastIs
    <3>4. Waits(r, ip, kinds)
      BY <2>1, <3>1 DEF Waits
    <3> QED
      BY <3>3, <3>4
  <2> QED
    BY <2>3, <2>4
<1>7. LastIs(r, ip, kinds, kind) => Waits(r, ip, kinds)
  BY DEF LastIs, Waits
<1> QED
  BY <1>4, <1>5, <1>6, <1>7 DEF r

-----------------------------------------------------------------------------
(* The whitelist file follows what was announced.                          *)

LEMMA InboxType ==
  ASSUME CommonTypeOK, NEW e \in Enforcers
  PROVE  inbox[e] \in Seq(Messages)
  BY DEF CommonTypeOK

LEMMA PublishReaches ==
  ASSUME CommonTypeOK, NEW m \in Messages, Publish(m), NEW e \in Enforcers
  PROVE  /\ online'[e] = online[e]
         /\ \A ip : ip \in missed[e] => ip \in missed'[e]
         /\ online[e] => inbox'[e] = Append(inbox[e], m)
         /\ ~online[e] => inbox'[e] = inbox[e] /\ m.ip \in missed'[e]
         /\ m.signed = "listener" /\ e = "agent" => m.ip \in missed'[e]
  BY DEF CommonTypeOK, Publish, Trusted

LEMMA ListedFollows ==
  ASSUME NEW m \in Messages, Publish(m), NEW ip \in Ips
  PROVE  /\ Hits(m, ip, Changes) => (ip \in listed' <=> m.kind = "add")
         /\ ~Hits(m, ip, Changes) => (ip \in listed' <=> ip \in listed)
  BY DEF Publish, Hits, Changes

\* A step that leaves the queue's changes, the agent's change and, as far as
\* the address goes, the file alone.
LEMMA ChangeKept ==
  ASSUME NEW ip \in Ips, ChangeArrives(ip),
         ip \in missed["agent"] => ip \in missed'["agent"],
         Waits(inbox'["agent"], ip, Changes) <=> Waits(inbox["agent"], ip, Changes),
         LastIs(inbox'["agent"], ip, Changes, "add")
           <=> LastIs(inbox["agent"], ip, Changes, "add"),
         Changing(ip)' <=> Changing(ip),
         Changing(ip) => agent'.kind = agent.kind,
         ip \in listed' <=> ip \in listed,
         ip \notin raced' /\ ~MgrAhead(ip)' =>
           /\ ip \notin raced /\ ~MgrAhead(ip)
           /\ ip \in FileToBe' <=> ip \in FileToBe
  PROVE  ChangeArrives(ip)'
  BY DEF ChangeArrives

\* A step that takes nothing from what is due for the address.
LEMMA ReleaseKept ==
  ASSUME NEW ip \in Ips, ReleaseDue(ip),
         ip \in missed["agent"] => ip \in missed'["agent"],
         ip \notin raced' /\ ip \notin missed'["agent"] /\ ip \in FileToBe'
           /\ ~AddDue(ip)'
           => ip \notin raced /\ ip \in FileToBe /\ ~AddDue(ip),
         ip \in rules'["agent"] => ip \in rules["agent"],
         ip \in skipped["agent"] => ip \in skipped'["agent"],
         agent' = agent \/ agent'.pc # "apply"
  PROVE  ReleaseDue(ip)'
<1> SUFFICES ASSUME ip \notin raced', ip \notin missed'["agent"],
                    ip \in FileToBe', ~AddDue(ip)'
             PROVE  /\ ip \in rules'["agent"] => ip \in skipped'["agent"]
                    /\ agent'.pc = "apply" /\ agent'.kind = "block"
                         /\ agent'.ip = ip => Refused'
  BY DEF ReleaseDue
<1>1. /\ ip \in rules["agent"] => ip \in skipped["agent"]
      /\ agent.pc = "apply" /\ agent.kind = "block" /\ agent.ip = ip => Refused
  BY DEF ReleaseDue
<1>2. agent' = agent => Refused' = Refused
  BY DEF Refused
<1> QED
  BY <1>1, <1>2

\* What the manager does to the file is nobody else's business.
SameAgent == /\ agent' = agent
             /\ rules'["agent"] = rules["agent"]
             /\ skipped'["agent"] = skipped["agent"]
SameQueue == /\ inbox'["agent"] = inbox["agent"]
             /\ missed'["agent"] = missed["agent"]
             /\ online'["agent"] = online["agent"]

LEMMA QueueKept ==
  ASSUME inbox'["agent"] = inbox["agent"], NEW ip, NEW kinds, NEW kind
  PROVE  /\ Waits(inbox'["agent"], ip, kinds) <=> Waits(inbox["agent"], ip, kinds)
         /\ LastIs(inbox'["agent"], ip, kinds, kind)
              <=> LastIs(inbox["agent"], ip, kinds, kind)
  OBVIOUS

LEMMA AgentKindsKept ==
  ASSUME WhitelistInv, UNCHANGED agent, online'["agent"] = online["agent"]
  PROVE  AgentKinds'
  BY DEF WhitelistInv, AgentKinds

LEMMA QuietWhitelist ==
  ASSUME WhitelistInv, SameAgent, SameQueue,
         UNCHANGED <<listed, whitelist, saving, raced>>,
         \/ UNCHANGED mgr
         \/ /\ {mgr.pc, mgr'.pc} \subseteq {"row", "upsert", "list"}
            /\ mgr'.ip = mgr.ip /\ mgr'.cmd = mgr.cmd
  PROVE  WhitelistInv'
<1>1. /\ mgr'.pc = "fill" <=> mgr.pc = "fill"
      /\ mgr.pc = "fill" => MgrList' = MgrList
      /\ AgentList' = AgentList
  BY DEF SameAgent, MgrList, AgentList
<1>2. FileToBe' = FileToBe
  BY <1>1 DEF FileToBe, SameAgent
<1>3. FileInv'
  BY <1>1 DEF WhitelistInv, FileInv, SameAgent
<1>4. AgentKinds'
  BY AgentKindsKept DEF SameAgent, SameQueue
<1>5. ASSUME NEW ip \in Ips PROVE ChangeArrives(ip)' /\ ReleaseDue(ip)'
  <2>1. ChangeArrives(ip) /\ ReleaseDue(ip)
    BY DEF WhitelistInv
  <2>2. /\ MgrAhead(ip)' <=> MgrAhead(ip)
        /\ MgrAhead(ip) => mgr'.cmd = mgr.cmd
        /\ Changing(ip)' <=> Changing(ip)
    BY DEF MgrAhead, Changing, SameAgent
  <2>3. AddDue(ip)' <=> AddDue(ip)
    BY <2>2, QueueKept DEF AddDue, SameAgent, SameQueue
  <2>4. ChangeArrives(ip)'
    BY <1>2, <2>1, <2>2, QueueKept, ChangeKept DEF SameAgent, SameQueue
  <2>5. ReleaseDue(ip)'
    BY <1>2, <2>1, <2>3, ReleaseKept DEF SameAgent, SameQueue
  <2> QED
    BY <2>4, <2>5
<1> QED
  BY <1>3, <1>4, <1>5 DEF WhitelistInv

\* The same in a queue the message reached.
LEMMA Appended ==
  ASSUME CommonTypeOK, NEW m \in Messages, NEW e \in Enforcers,
         inbox'[e] = Append(inbox[e], m), NEW ip, NEW kinds, NEW kind
  PROVE  /\ Waits(inbox'[e], ip, kinds)
              <=> Waits(inbox[e], ip, kinds) \/ Hits(m, ip, kinds)
         /\ LastIs(inbox'[e], ip, kinds, kind)
              <=> IF Hits(m, ip, kinds) THEN m.kind = kind
                  ELSE LastIs(inbox[e], ip, kinds, kind)
<1> DEFINE q == inbox[e]
<1>1. q \in Seq(Messages)
  BY InboxType
<1>2. inbox'[e] = Append(q, m)
  OBVIOUS
<1> HIDE DEF q
<1>3. Waits(Append(q, m), ip, kinds)
        <=> Waits(q, ip, kinds) \/ Hits(m, ip, kinds)
  BY <1>1, WaitsAppend
<1>4. LastIs(Append(q, m), ip, kinds, kind)
        <=> IF Hits(m, ip, kinds) THEN m.kind = kind
            ELSE LastIs(q, ip, kinds, kind)
  <2>1. CASE Hits(m, ip, kinds)
    BY <1>1, <2>1, LastAppendHit
  <2>2. CASE ~Hits(m, ip, kinds)
    BY <1>1, <2>2, LastAppendMiss
  <2> QED
    BY <2>1, <2>2
<1> QED
  BY <1>2, <1>3, <1>4 DEF q

\* A message that is published: what it changes of the file's story is in the
\* queue, or the agent missed it.
LEMMA PublishWhitelist ==
  ASSUME CommonTypeOK, WhitelistInv, NEW m \in Messages, Publish(m), SameAgent,
         UNCHANGED fileVars,
         (mgr'.pc # "fill" /\ mgr.pc # "fill") \/ UNCHANGED mgr,
         \A ip \in Ips : \/ MgrAhead(ip)' <=> MgrAhead(ip)
                         \/ Hits(m, ip, Changes),
         \A ip \in Ips : MgrAhead(ip) /\ mgr.cmd = "whitelist"
                           => \/ (MgrAhead(ip) /\ mgr.cmd = "whitelist")'
                              \/ Hits(m, ip, {"add"})
  PROVE  WhitelistInv'
<1> USE DEF Enforcers
<1>1. /\ online'["agent"] = online["agent"]
      /\ \A ip : ip \in missed["agent"] => ip \in missed'["agent"]
      /\ online["agent"] => inbox'["agent"] = Append(inbox["agent"], m)
      /\ ~online["agent"] => /\ inbox'["agent"] = inbox["agent"]
                             /\ m.ip \in missed'["agent"]
  BY PublishReaches
<1>2. ASSUME online["agent"], NEW ip, NEW kinds, NEW kind
      PROVE  /\ Waits(inbox'["agent"], ip, kinds)
                  <=> Waits(inbox["agent"], ip, kinds) \/ Hits(m, ip, kinds)
             /\ LastIs(inbox'["agent"], ip, kinds, kind)
                  <=> IF Hits(m, ip, kinds) THEN m.kind = kind
                      ELSE LastIs(inbox["agent"], ip, kinds, kind)
  BY <1>1, <1>2, Appended
<1>3. FileToBe' = FileToBe /\ raced' = raced
  BY DEF FileToBe, SameAgent, AgentList, MgrList, fileVars
<1>4. FileInv'
  BY DEF WhitelistInv, FileInv, SameAgent, fileVars
<1>5. AgentKinds'
  BY <1>1, AgentKindsKept DEF SameAgent
<1>6. ASSUME NEW ip \in Ips PROVE ChangeArrives(ip)'
  <2>1. ChangeArrives(ip)
    BY DEF WhitelistInv
  <2>2. CASE Hits(m, ip, Changes)
    <3>1. m.ip = ip /\ (ip \in listed' <=> m.kind = "add")
      BY <2>2, ListedFollows DEF Hits
    <3>2. CASE online["agent"]
      <4>1. Waits(inbox'["agent"], ip, Changes)
        BY <1>1, <1>2, <2>2, <3>2
      <4>2. LastIs(inbox'["agent"], ip, Changes, "add") <=> m.kind = "add"
        BY <1>1, <1>2, <2>2, <3>2
      <4> QED
        BY <3>1, <4>1, <4>2 DEF ChangeArrives
    <3>3. CASE ~online["agent"]
      BY <1>1, <3>1, <3>3 DEF ChangeArrives
    <3> QED
      BY <3>2, <3>3
  <2>3. CASE ~Hits(m, ip, Changes)
    <3>1. ip \in listed' <=> ip \in listed
      BY <2>3, ListedFollows
    <3>2. Waits(inbox'["agent"], ip, Changes) <=> Waits(inbox["agent"], ip, Changes)
      BY <1>1, <1>2, <2>3
    <3>3. LastIs(inbox'["agent"], ip, Changes, "add")
            <=> LastIs(inbox["agent"], ip, Changes, "add")
      BY <1>1, <1>2, <2>3
    <3>4. Changing(ip)' <=> Changing(ip)
      BY DEF Changing, SameAgent
    <3>5. ip \in missed["agent"] => ip \in missed'["agent"]
      BY <1>1
    <3>6. MgrAhead(ip)' <=> MgrAhead(ip)
      BY <2>3
    <3> QED
      BY <1>3, <2>1, <3>1, <3>2, <3>3, <3>4, <3>5, <3>6, ChangeKept
      DEF SameAgent
  <2> QED
    BY <2>2, <2>3
<1>7. ASSUME NEW ip \in Ips PROVE ReleaseDue(ip)'
  <2>1. ReleaseDue(ip)
    BY DEF WhitelistInv
  <2>2. ASSUME ip \notin missed'["agent"], AddDue(ip) PROVE AddDue(ip)'
    <3>1. CASE MgrAhead(ip) /\ mgr.cmd = "whitelist"
      <4>1. CASE (MgrAhead(ip) /\ mgr.cmd = "whitelist")'
        BY <4>1 DEF AddDue
      <4>2. CASE Hits(m, ip, {"add"})
        <5>1. online["agent"]
          BY <1>1, <2>2, <4>2 DEF Hits
        <5>2. Waits(inbox'["agent"], ip, {"add"})
          BY <1>1, <1>2, <4>2, <5>1
        <5> QED
          BY <5>2 DEF AddDue
      <4> QED
        BY <3>1, <4>1, <4>2
    <3>2. CASE Waits(inbox["agent"], ip, {"add"})
      <4>1. Waits(inbox'["agent"], ip, {"add"})
        BY <1>1, <1>2, <3>2
      <4> QED
        BY <4>1 DEF AddDue
    <3>3. CASE agent.pc \in {"truncate", "fill", "unblock"} /\ agent.ip = ip
                 /\ agent.kind = "add"
      BY <3>3 DEF AddDue, SameAgent
    <3> QED
      BY <2>2, <3>1, <3>2, <3>3 DEF AddDue
  <2>3. ip \in missed["agent"] => ip \in missed'["agent"]
    BY <1>1
  <2> QED
    BY <1>3, <2>1, <2>2, <2>3, ReleaseKept DEF SameAgent
<1> QED
  BY <1>4, <1>5, <1>6, <1>7 DEF WhitelistInv

\* Messages that are lost: the agent missed them.
LEMMA LostWhitelist ==
  ASSUME CommonTypeOK, WhitelistInv, NEW S \in SUBSET Ips, PublishLost(S),
         SameAgent, FileInv',
         \A ip \in Ips : ip \notin raced' =>
           ip \notin raced /\ (ip \in FileToBe' <=> ip \in FileToBe),
         \A ip \in Ips : ip \notin S \/ UNCHANGED mgr =>
           /\ MgrAhead(ip)' <=> MgrAhead(ip)
           /\ MgrAhead(ip) => mgr'.cmd = mgr.cmd
  PROVE  WhitelistInv'
<1> USE DEF Enforcers
<1>1. /\ inbox' = inbox /\ online' = online /\ listed' = listed
      /\ missed'["agent"] = missed["agent"] \cup S
  BY DEF PublishLost, CommonTypeOK
<1>2. AgentKinds'
  BY <1>1, AgentKindsKept DEF SameAgent
<1>3. ASSUME NEW ip \in Ips PROVE ChangeArrives(ip)' /\ ReleaseDue(ip)'
  <2>1. CASE ip \in S
    BY <1>1, <2>1 DEF ChangeArrives, ReleaseDue
  <2>2. CASE ip \notin S
    <3>1. ChangeArrives(ip) /\ ReleaseDue(ip)
      BY DEF WhitelistInv
    <3>2. /\ MgrAhead(ip)' <=> MgrAhead(ip)
          /\ MgrAhead(ip) => mgr'.cmd = mgr.cmd
          /\ Changing(ip)' <=> Changing(ip)
      BY <2>2 DEF Changing, SameAgent
    <3>3. AddDue(ip)' <=> AddDue(ip)
      BY <1>1, <3>2, QueueKept DEF AddDue, SameAgent
    <3>4. ip \in missed["agent"] => ip \in missed'["agent"]
      BY <1>1
    <3>5. ChangeArrives(ip)'
      BY <1>1, <3>1, <3>2, <3>4, QueueKept, ChangeKept DEF SameAgent
    <3>6. ReleaseDue(ip)'
      BY <1>1, <3>1, <3>3, <3>4, ReleaseKept DEF SameAgent
    <3> QED
      BY <3>5, <3>6
  <2> QED
    BY <2>1, <2>2
<1> QED
  BY <1>2, <1>3 DEF WhitelistInv

\* The same where nobody touches the file.
LEMMA LostQuietly ==
  ASSUME CommonTypeOK, WhitelistInv, NEW S \in SUBSET Ips, PublishLost(S),
         SameAgent, UNCHANGED fileVars,
         (mgr'.pc # "fill" /\ mgr.pc # "fill") \/ UNCHANGED mgr,
         \A ip \in Ips : ip \notin S \/ UNCHANGED mgr =>
           /\ MgrAhead(ip)' <=> MgrAhead(ip)
           /\ MgrAhead(ip) => mgr'.cmd = mgr.cmd
  PROVE  WhitelistInv'
<1>1. FileToBe' = FileToBe /\ raced' = raced
  BY DEF FileToBe, SameAgent, AgentList, MgrList, fileVars
<1>2. FileInv'
  BY DEF WhitelistInv, FileInv, SameAgent, fileVars
<1> QED
  BY <1>1, <1>2, LostWhitelist

LEMMA ManagerWhitelist ==
  ASSUME CommonTypeOK, ListsTypeOK, WhitelistInv, Manager, UNCHANGED enforcerVars
  PROVE  WhitelistInv'
<1> USE DEF Enforcers
<1>a. SameAgent /\ UNCHANGED agent /\ (AgentList' = AgentList)
  BY DEF SameAgent, enforcerVars, AgentList
<1>b. UNCHANGED busVars => SameQueue /\ UNCHANGED listed
  BY DEF busVars, SameQueue
<1>c. \A pc \in STRING : /\ [mgr EXCEPT !.pc = pc].pc = pc
                         /\ [mgr EXCEPT !.pc = pc].ip = mgr.ip
                         /\ [mgr EXCEPT !.pc = pc].cmd = mgr.cmd
                         /\ [mgr EXCEPT !.pc = pc].wl = mgr.wl
  BY DEF ListsTypeOK
<1>d. ASSUME UNCHANGED busVars, FileInv',
             \A ip \in Ips :
               /\ MgrAhead(ip) => MgrAhead(ip)' /\ mgr'.cmd = mgr.cmd
               /\ ip \notin raced' /\ ~MgrAhead(ip)'
                    => ip \notin raced /\ (ip \in FileToBe' <=> ip \in FileToBe)
               /\ ip \notin raced' /\ ip \in FileToBe' /\ ~AddDue(ip)'
                    => ip \notin raced /\ ip \in FileToBe
      PROVE  WhitelistInv'
  <2>1. SameQueue /\ UNCHANGED listed
    BY <1>b, <1>d
  <2>2. AgentKinds'
    BY <1>a, <2>1, AgentKindsKept DEF SameQueue
  <2>3. ASSUME NEW ip \in Ips PROVE ChangeArrives(ip)' /\ ReleaseDue(ip)'
    <3>1. ChangeArrives(ip) /\ ReleaseDue(ip)
      BY DEF WhitelistInv
    <3>2. Changing(ip)' <=> Changing(ip)
      BY <1>a DEF Changing
    <3>3. AddDue(ip) => AddDue(ip)'
      BY <1>a, <1>d, <2>1, QueueKept DEF AddDue, SameQueue
    <3>4. ip \notin raced' /\ ~MgrAhead(ip)' =>
            /\ ip \notin raced /\ ~MgrAhead(ip)
            /\ ip \in FileToBe' <=> ip \in FileToBe
      BY <1>d
    <3>5. ChangeArrives(ip)'
      BY <1>a, <2>1, <3>1, <3>2, <3>4, QueueKept, ChangeKept DEF SameQueue
    <3>6. ip \notin raced' /\ ip \notin missed'["agent"] /\ ip \in FileToBe'
            /\ ~AddDue(ip)'
             => ip \notin raced /\ ip \in FileToBe /\ ~AddDue(ip)
      BY <1>d, <3>3
    <3>7. ReleaseDue(ip)'
      BY <1>a, <2>1, <3>1, <3>6, ReleaseKept DEF SameQueue, SameAgent
    <3> QED
      BY <3>5, <3>7
  <2> QED
    BY <1>d, <2>2, <2>3 DEF WhitelistInv
<1>e. saving \in SUBSET Savers
  BY DEF CommonTypeOK
<1>1. ASSUME NEW cmd \in Commands, NEW ip \in Ips, MgrStart(cmd, ip)
      PROVE  WhitelistInv'
  <2>1. /\ mgr.pc = "idle" /\ UNCHANGED <<whitelist, saving>>
        /\ raced \subseteq raced' /\ UNCHANGED busVars
    BY <1>1 DEF MgrStart, NoteLoad
  <2>2. mgr'.pc = "truncate"
    BY <1>1 DEF MgrStart, MgrIdle
  <2>3. FileToBe' = FileToBe
    BY <1>a, <2>1, <2>2 DEF FileToBe
  <2>4. raced' # Ips => raced # Ips
    <3>1. raced' \in {raced, raced \cup {ip}}
      BY <1>1 DEF MgrStart, NoteLoad
    <3>2. raced = Ips => raced \cup {ip} = Ips
      OBVIOUS
    <3> QED
      BY <3>1, <3>2
  <2>5. FileInv'
    BY <1>a, <2>1, <2>2, <2>4 DEF WhitelistInv, FileInv
  <2>6. \A a \in Ips : ~MgrAhead(a) /\ ~MgrAhead(a)'
    BY <2>1, <2>2 DEF MgrAhead
  <2> QED
    BY <1>d, <2>1, <2>3, <2>5, <2>6
<1>2. ASSUME MgrTruncate PROVE WhitelistInv'
  <2>1. /\ mgr.pc = "truncate" /\ mgr'.pc = "fill" /\ mgr'.ip = mgr.ip
        /\ mgr'.cmd = mgr.cmd /\ mgr'.wl = mgr.wl
        /\ UNCHANGED busVars
    BY <1>2, <1>c DEF MgrTruncate
  <2>2. TruncateWhitelist("mgr", mgr.wl)
    BY <1>2 DEF MgrTruncate
  <2>3. ~whitelist'.valid /\ saving' = saving \cup {"mgr"}
    BY <2>2 DEF TruncateWhitelist
  <2>4. ASSUME NEW ip \in Ips, ip \notin raced'
        PROVE  /\ ip \notin raced /\ whitelist.valid /\ saving = {}
               /\ ip \in whitelist.ips <=> ip \in mgr.wl
    BY <2>2, <2>4 DEF TruncateWhitelist
  <2>5. \A ip \in Ips : ip \notin raced' => agent.pc # "fill"
    BY <2>4 DEF WhitelistInv, FileInv
  <2>6. FileInv'
    <3>1. raced' # Ips => saving = {}
      BY <2>2 DEF TruncateWhitelist
    <3> QED
      BY <1>a, <2>1, <2>3, <3>1 DEF WhitelistInv, FileInv, Savers
  <2>7. \A ip \in Ips : ip \notin raced' => (ip \in FileToBe <=> ip \in mgr.wl)
    BY <2>1, <2>4, <2>5 DEF FileToBe
  <2>8. FileToBe' = IF mgr.cmd = "whitelist" THEN mgr.wl \cup {mgr.ip}
                                             ELSE mgr.wl \ {mgr.ip}
    BY <2>1 DEF FileToBe, MgrList
  <2>9. \A ip \in Ips : /\ ~MgrAhead(ip)
                        /\ MgrAhead(ip)' <=> ip = mgr.ip
    BY <2>1 DEF MgrAhead
  <2>10. \A ip \in Ips : ip = mgr.ip /\ mgr.cmd = "whitelist" => AddDue(ip)'
    BY <2>1, <2>9 DEF AddDue
  <2> QED
    BY <1>d, <2>1, <2>4, <2>6, <2>7, <2>8, <2>9, <2>10
<1>3. ASSUME MgrFill PROVE WhitelistInv'
  <2>1. /\ mgr.pc = "fill" /\ mgr'.pc = "row" /\ mgr'.ip = mgr.ip
        /\ mgr'.cmd = mgr.cmd /\ mgr'.wl = mgr.wl
        /\ UNCHANGED busVars
    BY <1>3, <1>c DEF MgrFill
  <2>2. FillWhitelist("mgr", MgrList, mgr.ip)
    BY <1>3 DEF MgrFill
  <2>3. saving' = saving \ {"mgr"} /\ "mgr" \in saving
    BY <2>1, <2>2 DEF FillWhitelist, WhitelistInv, FileInv
  <2>4. raced' # Ips => /\ whitelist' = [valid |-> TRUE, ips |-> MgrList]
                        /\ saving = {"mgr"} /\ raced' = raced \ {mgr.ip}
    BY <2>2 DEF FillWhitelist
  <2>5. raced' # Ips => agent.pc # "fill"
    BY <2>4 DEF WhitelistInv, FileInv
  <2>6. FileInv'
    <3>1. raced' # Ips => saving' = {} /\ whitelist'.valid
      BY <2>3, <2>4
    <3> QED
      BY <1>a, <2>1, <2>3, <3>1 DEF WhitelistInv, FileInv, Savers
  <2>7. raced' # Ips => FileToBe' = MgrList /\ FileToBe = MgrList
    BY <1>a, <2>1, <2>4, <2>5 DEF FileToBe
  <2>8. \A ip \in Ips : /\ MgrAhead(ip)' <=> MgrAhead(ip)
                        /\ MgrAhead(mgr.ip)
    BY <2>1 DEF MgrAhead
  <2>9. mgr.ip \in MgrList => AddDue(mgr.ip)'
    <3>1. mgr.ip \in MgrList => mgr.cmd = "whitelist"
      BY DEF MgrList
    <3> QED
      BY <2>1, <2>8, <3>1 DEF AddDue, MgrAhead
  <2>10. \A ip \in Ips : ip \notin raced' /\ ip # mgr.ip => ip \notin raced
    BY <2>4
  <2>11. \A ip \in Ips : ip \notin raced' => raced' # Ips
    OBVIOUS
  <2> QED
    BY <1>d, <2>1, <2>6, <2>7, <2>8, <2>9, <2>10, <2>11
<1>4. ASSUME MgrReadsClock \/ MgrUpsert \/ MgrDelete PROVE WhitelistInv'
  <2>1. /\ {mgr.pc, mgr'.pc} \subseteq {"row", "upsert", "list"}
        /\ mgr'.ip = mgr.ip /\ mgr'.cmd = mgr.cmd
    <3>1. CASE MgrReadsClock
      BY <3>1 DEF MgrReadsClock, ListsTypeOK
    <3>2. CASE MgrUpsert \/ MgrDelete
      <4>1. mgr.pc \in {"row", "upsert"} /\ mgr' = [mgr EXCEPT !.pc = "list"]
        BY <3>2 DEF MgrUpsert, MgrDelete
      <4> QED
        BY <1>c, <4>1
    <3> QED
      BY <1>4, <3>1, <3>2
  <2>2. UNCHANGED busVars /\ UNCHANGED fileVars
    BY <1>4 DEF MgrReadsClock, MgrUpsert, MgrDelete, commonVars, busVars, fileVars
  <2>3. UNCHANGED <<listed, whitelist, saving, raced>> /\ SameQueue
    BY <1>b, <2>2 DEF fileVars
  <2> QED
    BY <1>a, <2>1, <2>3, QuietWhitelist
<1>5. ASSUME MgrPublish PROVE WhitelistInv'
  <2>1. mgr.pc \in {"list", "change"} /\ UNCHANGED fileVars
    BY <1>5 DEF MgrPublish
  <2>2. /\ AfterPublish.pc \in {"change", "idle"}
        /\ MgrIdle.pc = "idle"
    BY <1>c DEF AfterPublish, MgrIdle
  <2>3. mgr'.pc \in {"change", "idle"}
    BY <1>5, <2>2 DEF MgrPublish
  <2>4. \A ip \in Ips : /\ ~MgrAhead(ip)'
                        /\ MgrAhead(ip) <=> mgr.pc = "list" /\ ip = mgr.ip
    BY <2>1, <2>3 DEF MgrAhead
  <2>5. mgr.ip \in Ips /\ mgr.cmd \in Commands
    BY DEF ListsTypeOK
  <2>6. CASE Publish(MgrMessage)
    <3>1. mgr.pc = "list" => /\ Hits(MgrMessage, mgr.ip, Changes)
                             /\ mgr.cmd = "whitelist"
                                  => Hits(MgrMessage, mgr.ip, {"add"})
      BY DEF MgrMessage, Hits, Changes
    <3> QED
      BY <1>a, <2>1, <2>3, <2>4, <2>6, <3>1, MgrMessages, PublishWhitelist
  <2>7. CASE PublishLost({mgr.ip})
    <3>1. \A ip \in Ips : ip \notin {mgr.ip} \/ UNCHANGED mgr =>
            /\ MgrAhead(ip)' <=> MgrAhead(ip)
            /\ MgrAhead(ip) => mgr'.cmd = mgr.cmd
      BY <2>4 DEF MgrAhead
    <3> QED
      BY <1>a, <2>1, <2>3, <2>5, <2>7, <3>1, LostQuietly
  <2> QED
    BY <1>5, <2>6, <2>7 DEF MgrPublish
<1>6. ASSUME MgrDies PROVE WhitelistInv'
  <2>1. /\ mgr.pc \in {"fill", "row", "upsert"} /\ PublishLost({mgr.ip})
        /\ AbandonWhitelist("mgr") /\ mgr'.pc = "idle"
    BY <1>6 DEF MgrDies, MgrIdle
  <2>2. /\ saving' = saving \ {"mgr"} /\ UNCHANGED whitelist
        /\ mgr.pc = "fill" => raced' = Ips
        /\ mgr.pc # "fill" => raced' = raced /\ saving' = saving
    BY <2>1 DEF AbandonWhitelist, WhitelistInv, FileInv
  <2>3. FileInv'
    BY <1>a, <2>1, <2>2 DEF WhitelistInv, FileInv
  <2>4. mgr.pc # "fill" => FileToBe' = FileToBe
    BY <1>a, <2>1, <2>2 DEF FileToBe
  <2>5. \A ip \in Ips : ip \notin raced' =>
          ip \notin raced /\ (ip \in FileToBe' <=> ip \in FileToBe)
    BY <2>2, <2>4
  <2>6. \A ip \in Ips : /\ ~MgrAhead(ip)'
                        /\ MgrAhead(ip) => ip = mgr.ip
    BY <2>1 DEF MgrAhead
  <2>7. {mgr.ip} \in SUBSET Ips /\ mgr' # mgr
    BY <2>1 DEF ListsTypeOK
  <2> QED
    BY <1>a, <2>1, <2>3, <2>5, <2>6, <2>7, LostWhitelist
<1> QED
  BY <1>1, <1>2, <1>3, <1>4, <1>5, <1>6 DEF Manager

\* The same in a queue whose first message was taken.
LEMMA Taken ==
  ASSUME CommonTypeOK, NEW e \in Enforcers, inbox[e] # <<>>, Take(e),
         NEW ip, NEW kinds, NEW kind
  PROVE  /\ Waits(inbox[e], ip, kinds)
              <=> Hits(Head(inbox[e]), ip, kinds) \/ Waits(inbox'[e], ip, kinds)
         /\ LastIs(inbox[e], ip, kinds, kind)
              <=> IF Waits(inbox'[e], ip, kinds)
                  THEN LastIs(inbox'[e], ip, kinds, kind)
                  ELSE /\ Hits(Head(inbox[e]), ip, kinds)
                       /\ Head(inbox[e]).kind = kind
<1> DEFINE q == inbox[e]
<1>1. q \in Seq(Messages) /\ q # <<>>
  BY InboxType
<1>2. inbox'[e] = Tail(q)
  BY DEF Take, CommonTypeOK
<1> HIDE DEF q
<1>3. Waits(q, ip, kinds) <=> Hits(Head(q), ip, kinds) \/ Waits(Tail(q), ip, kinds)
  BY <1>1, WaitsTail
<1>4. LastIs(q, ip, kinds, kind)
        <=> IF Waits(Tail(q), ip, kinds) THEN LastIs(Tail(q), ip, kinds, kind)
            ELSE Hits(Head(q), ip, kinds) /\ Head(q).kind = kind
  BY <1>1, LastTail
<1> QED
  BY <1>2, <1>3, <1>4 DEF q

LEMMA LastWaits ==
  ASSUME NEW q, NEW ip, NEW kinds, NEW kind, LastIs(q, ip, kinds, kind)
  PROVE  Waits(q, ip, kinds)
  BY DEF LastIs, Waits

LEMMA AgentIgnoresWhitelist ==
  ASSUME CommonTypeOK, EnforcersTypeOK, WhitelistInv, AgentIgnores, UNCHANGED mgr
  PROVE  WhitelistInv'
<1> USE DEF Enforcers
<1>1. /\ inbox["agent"] # <<>> /\ Take("agent")
      /\ UNCHANGED <<online, missed, listed, whitelist, saving, raced>>
      /\ UNCHANGED <<rules, agent>>
      /\ \A ip : ip \in skipped["agent"] => ip \in skipped'["agent"]
  BY DEF AgentIgnores, AgentReads, fileVars, EnforcersTypeOK
<1>2. \A ip, kinds : ~Hits(Head(inbox["agent"]), ip, kinds)
  BY DEF AgentIgnores, Trusted, Hits
<1>3. ASSUME NEW ip, NEW kinds, NEW kind
      PROVE  /\ Waits(inbox'["agent"], ip, kinds)
                  <=> Waits(inbox["agent"], ip, kinds)
             /\ LastIs(inbox'["agent"], ip, kinds, kind)
                  <=> LastIs(inbox["agent"], ip, kinds, kind)
  BY <1>1, <1>2, Taken, LastWaits
<1>4. FileToBe' = FileToBe /\ FileInv'
  BY <1>1 DEF FileToBe, MgrList, AgentList, WhitelistInv, FileInv
<1>5. AgentKinds'
  BY <1>1, AgentKindsKept
<1>6. ASSUME NEW ip \in Ips PROVE ChangeArrives(ip)' /\ ReleaseDue(ip)'
  <2>1. ChangeArrives(ip) /\ ReleaseDue(ip)
    BY DEF WhitelistInv
  <2>2. /\ MgrAhead(ip)' <=> MgrAhead(ip)
        /\ Changing(ip)' <=> Changing(ip)
    BY <1>1 DEF MgrAhead, Changing
  <2>3. AddDue(ip)' <=> AddDue(ip)
    BY <1>1, <1>3, <2>2 DEF AddDue
  <2>4. ChangeArrives(ip)'
    BY <1>1, <1>3, <1>4, <2>1, <2>2, ChangeKept
  <2>5. ReleaseDue(ip)'
    BY <1>1, <1>4, <2>1, <2>3, ReleaseKept
  <2> QED
    BY <2>4, <2>5
<1> QED
  BY <1>4, <1>5, <1>6 DEF WhitelistInv

LEMMA AgentTakesWhitelist ==
  ASSUME CommonTypeOK, EnforcersTypeOK, WhitelistInv, AgentTakes, UNCHANGED mgr
  PROVE  WhitelistInv'
<1> USE DEF Enforcers
<1> DEFINE m == Head(inbox["agent"])
<1>1. /\ inbox["agent"] # <<>> /\ Take("agent") /\ online["agent"]
      /\ agent.pc = "idle" /\ Trusted("agent", m) /\ NoteLoad(m.ip)
      /\ UNCHANGED <<online, missed, listed, whitelist, saving, rules, skipped>>
  BY DEF AgentTakes, AgentReads, NoteLoad
<1>2. /\ agent'.pc = IF m.kind \in Changes THEN "truncate" ELSE "apply"
      /\ agent'.kind = m.kind /\ agent'.ip = m.ip /\ agent'.wl = LoadWhitelist
  BY DEF AgentTakes, Changes
<1>3. m \in Messages /\ m.kind \in Kinds /\ m.ip \in Ips /\ m.signed = "all"
  BY <1>1, TakeTypes DEF Messages, Trusted, Secrets
<1>4. ASSUME NEW ip, NEW kinds, NEW kind
      PROVE  /\ Waits(inbox["agent"], ip, kinds)
                  <=> Hits(m, ip, kinds) \/ Waits(inbox'["agent"], ip, kinds)
             /\ LastIs(inbox["agent"], ip, kinds, kind)
                  <=> IF Waits(inbox'["agent"], ip, kinds)
                      THEN LastIs(inbox'["agent"], ip, kinds, kind)
                      ELSE Hits(m, ip, kinds) /\ m.kind = kind
  BY <1>1, Taken
<1>5. \A ip, kinds : Hits(m, ip, kinds) <=> m.ip = ip /\ m.kind \in kinds
  BY <1>3 DEF Hits
<1> HIDE DEF m
<1>a. /\ \A ip \in Ips : ip \notin raced' => ip \notin raced
      /\ m.ip \notin raced' => whitelist.valid
      /\ raced' # Ips => raced # Ips
  BY <1>1, <1>3 DEF NoteLoad, CommonTypeOK
<1>6. agent'.pc # "fill" /\ agent.pc # "fill"
  BY <1>1, <1>2
<1>7. FileToBe' = FileToBe
  BY <1>1, <1>6 DEF FileToBe, MgrList
<1>8. FileInv'
  BY <1>1, <1>6, <1>a DEF WhitelistInv, FileInv
<1>9. AgentKinds'
  BY <1>1, <1>2, <1>3 DEF AgentKinds, Changes, Kinds
<1>10. ASSUME NEW ip \in Ips PROVE ChangeArrives(ip)'
  <2>1. ChangeArrives(ip) /\ ~Changing(ip)
    BY <1>1 DEF WhitelistInv, Changing
  <2>2. MgrAhead(ip)' <=> MgrAhead(ip)
    BY DEF MgrAhead
  <2>3. Changing(ip)' <=> Hits(m, ip, Changes)
    BY <1>2, <1>5 DEF Changing
  <2>4. CASE Waits(inbox'["agent"], ip, Changes)
    BY <1>1, <1>4, <2>1, <2>4 DEF ChangeArrives
  <2>5. CASE ~Waits(inbox'["agent"], ip, Changes) /\ Hits(m, ip, Changes)
    <3>1. /\ Waits(inbox["agent"], ip, Changes)
          /\ LastIs(inbox["agent"], ip, Changes, "add") <=> m.kind = "add"
      BY <1>4, <2>5
    <3> QED
      BY <1>1, <1>2, <2>1, <2>3, <2>5, <3>1 DEF ChangeArrives
  <2>6. CASE ~Waits(inbox'["agent"], ip, Changes) /\ ~Hits(m, ip, Changes)
    <3>1. ~Waits(inbox["agent"], ip, Changes)
      BY <1>4, <2>6
    <3>2. /\ ~Waits(inbox'["agent"], ip, Changes) /\ ~Changing(ip)'
          /\ ip \notin raced' => ip \notin raced
      BY <1>a, <2>3, <2>6
    <3> QED
      BY <1>1, <1>7, <2>1, <2>2, <3>1, <3>2 DEF ChangeArrives
  <2> QED
    BY <2>4, <2>5, <2>6
<1>11. ASSUME NEW ip \in Ips PROVE ReleaseDue(ip)'
  <2> SUFFICES ASSUME ip \notin raced', ip \notin missed'["agent"],
                      ip \in FileToBe', ~AddDue(ip)'
               PROVE  /\ ip \in rules'["agent"] => ip \in skipped'["agent"]
                      /\ agent'.pc = "apply" /\ agent'.kind = "block"
                           /\ agent'.ip = ip => Refused'
    BY DEF ReleaseDue
  <2>1. /\ ip \notin raced
        /\ ip = m.ip => whitelist.valid /\ mgr.pc # "fill"
    BY <1>1, <1>a DEF WhitelistInv, FileInv
  <2>2. ~Hits(m, ip, {"add"}) /\ ~Waits(inbox'["agent"], ip, {"add"})
    BY <1>2, <1>5 DEF AddDue, Changes
  <2>3. ~AddDue(ip)
    BY <1>1, <1>4, <2>2 DEF AddDue, MgrAhead
  <2>4. ip \in rules["agent"] => ip \in skipped["agent"]
    BY <1>1, <1>7, <2>1, <2>3 DEF WhitelistInv, ReleaseDue
  <2>5. ip = m.ip => ip \in agent'.wl
    BY <1>1, <1>2, <1>6, <1>7, <2>1 DEF LoadWhitelist, FileToBe
  <2> QED
    BY <1>1, <1>2, <2>4, <2>5 DEF Refused
<1> QED
  BY <1>8, <1>9, <1>10, <1>11 DEF WhitelistInv

\* The agent goes on with the message it has: the queue stays.
LEMMA AgentGoesOn ==
  ASSUME WhitelistInv, UNCHANGED mgr, UNCHANGED busVars,
         FileInv', AgentKinds', agent'.pc # "apply",
         \A ip \in Ips :
           ~Changing(ip)' /\ Changing(ip) /\ ip \notin raced' /\ ~MgrAhead(ip)
             => (ip \in FileToBe' <=> agent.kind = "add"),
         \A ip \in Ips : Changing(ip)' => Changing(ip) /\ agent'.kind = agent.kind,
         \A ip \in Ips : ~Changing(ip) /\ ip \notin raced'
             => ip \notin raced /\ (ip \in FileToBe' <=> ip \in FileToBe),
         \A ip \in Ips :
           ip \notin raced' /\ ip \notin missed["agent"] /\ ip \in FileToBe' /\ ~AddDue(ip)'
             => (ip \in rules'["agent"] => ip \in skipped'["agent"])
  PROVE  WhitelistInv'
<1>1. /\ inbox'["agent"] = inbox["agent"] /\ missed' = missed
      /\ listed' = listed
  BY DEF busVars
<1>2. ASSUME NEW ip \in Ips PROVE ChangeArrives(ip)'
  <2>1. ChangeArrives(ip)
    BY DEF WhitelistInv
  <2>2. MgrAhead(ip)' <=> MgrAhead(ip)
    BY DEF MgrAhead
  <2>3. CASE ip \in missed["agent"]
    BY <1>1, <2>3 DEF ChangeArrives
  <2>4. CASE ip \notin missed["agent"] /\ Waits(inbox["agent"], ip, Changes)
    BY <1>1, <2>1, <2>4 DEF ChangeArrives
  <2>5. CASE ip \notin missed["agent"] /\ ~Waits(inbox["agent"], ip, Changes)
    <3>1. ~Waits(inbox'["agent"], ip, Changes)
      BY <1>1, <2>5
    <3>2. CASE Changing(ip)'
      BY <1>1, <2>1, <2>5, <3>1, <3>2 DEF ChangeArrives
    <3>3. CASE ~Changing(ip)' /\ Changing(ip)
      BY <1>1, <2>1, <2>2, <2>5, <3>1, <3>3 DEF ChangeArrives
    <3>4. CASE ~Changing(ip)' /\ ~Changing(ip)
      BY <1>1, <2>1, <2>2, <2>5, <3>1, <3>4 DEF ChangeArrives
    <3> QED
      BY <3>2, <3>3, <3>4
  <2> QED
    BY <2>3, <2>4, <2>5
<1>3. ASSUME NEW ip \in Ips PROVE ReleaseDue(ip)'
  BY <1>1 DEF ReleaseDue
<1> QED
  BY <1>2, <1>3 DEF WhitelistInv

LEMMA AgentAppliesWhitelist ==
  ASSUME CommonTypeOK, EnforcersTypeOK, WhitelistInv, AgentApplies, UNCHANGED mgr
  PROVE  WhitelistInv'
<1> USE DEF Enforcers
<1>1. /\ agent.pc = "apply" /\ agent'.pc = "idle"
      /\ UNCHANGED busVars /\ UNCHANGED <<whitelist, saving, raced>>
  BY DEF AgentApplies, AgentIdle, fileVars
<1>2. FileToBe' = FileToBe /\ FileInv' /\ AgentKinds'
  BY <1>1 DEF FileToBe, MgrList, WhitelistInv, FileInv, AgentKinds
<1>3. \A ip : ~Changing(ip) /\ ~Changing(ip)'
  BY <1>1 DEF Changing
<1>4. ASSUME NEW ip \in Ips, ip \notin raced', ip \notin missed["agent"],
             ip \in FileToBe', ~AddDue(ip)', ip \in rules'["agent"]
      PROVE  ip \in skipped'["agent"]
  <2>1. ~AddDue(ip)
    BY <1>1, <1>4 DEF AddDue, MgrAhead, busVars
  <2>2. /\ ip \in rules["agent"] => ip \in skipped["agent"]
        /\ agent.kind = "block" /\ agent.ip = ip => Refused
    BY <1>1, <1>2, <1>4, <2>1 DEF WhitelistInv, ReleaseDue
  <2>3. CASE agent.kind = "unblock"
    <3>1. RemoveRules("agent", agent.ip)
      BY <2>3 DEF AgentApplies
    <3> QED
      BY <1>4, <2>2, <3>1 DEF RemoveRules, EnforcersTypeOK
  <2>4. CASE agent.kind # "unblock" /\ Refused
    <3>1. /\ skipped' = [skipped EXCEPT !["agent"] = @ \cup {agent.ip}]
          /\ UNCHANGED rules
      BY <2>4 DEF AgentApplies
    <3> QED
      BY <1>4, <2>2, <3>1 DEF EnforcersTypeOK
  <2>5. CASE agent.kind # "unblock" /\ ~Refused
    <3>1. AddRule("agent", agent.ip)
      BY <2>5 DEF AgentApplies
    <3>2. agent.kind = "block"
      BY <1>1, <2>5 DEF WhitelistInv, AgentKinds
    <3>3. ip # agent.ip
      BY <2>2, <2>5, <3>2
    <3> QED
      BY <1>4, <2>2, <3>1, <3>3 DEF AddRule, EnforcersTypeOK
  <2> QED
    BY <2>3, <2>4, <2>5
<1> QED
  BY <1>1, <1>2, <1>3, <1>4, AgentGoesOn

LEMMA AgentTruncatesWhitelist ==
  ASSUME CommonTypeOK, EnforcersTypeOK, WhitelistInv, AgentTruncates, UNCHANGED mgr
  PROVE  WhitelistInv'
<1>1. /\ agent.pc = "truncate" /\ agent'.pc = "fill" /\ agent'.ip = agent.ip
      /\ agent'.kind = agent.kind /\ agent'.wl = agent.wl
  BY DEF AgentTruncates, EnforcersTypeOK
<1>2. TruncateWhitelist("agent", agent.wl)
  BY DEF AgentTruncates
<1>3. ASSUME NEW ip \in Ips, ip \notin raced'
      PROVE  /\ ip \notin raced /\ whitelist.valid /\ saving = {}
             /\ ip \in whitelist.ips <=> ip \in agent.wl
             /\ mgr.pc # "fill"
  <2>1. /\ ip \notin raced /\ whitelist.valid /\ saving = {}
        /\ ip \in whitelist.ips <=> ip \in agent.wl
    BY <1>2, <1>3 DEF TruncateWhitelist
  <2> QED
    BY <2>1 DEF WhitelistInv, FileInv
<1>4. FileInv'
  <2>1. ~whitelist'.valid /\ saving' = saving \cup {"agent"}
    BY <1>2 DEF TruncateWhitelist
  <2>2. raced' # Ips => saving = {}
    BY <1>2 DEF TruncateWhitelist
  <2> QED
    BY <1>1, <2>1, <2>2 DEF WhitelistInv, FileInv, Savers
<1>5. UNCHANGED busVars /\ UNCHANGED <<rules, skipped>>
  BY DEF AgentTruncates
<1>6. AgentKinds'
  BY <1>1, <1>5 DEF WhitelistInv, AgentKinds, busVars
<1>7. \A ip \in Ips : ip \notin raced' => (ip \in FileToBe <=> ip \in agent.wl)
  BY <1>1, <1>3 DEF FileToBe
<1>8. \A ip \in Ips : ip \notin raced' =>
        FileToBe' = IF agent.kind = "add" THEN agent.wl \cup {agent.ip}
                                          ELSE agent.wl \ {agent.ip}
  BY <1>1, <1>3 DEF FileToBe, AgentList
<1>9. \A ip : Changing(ip)' <=> Changing(ip)
  BY <1>1 DEF Changing
<1>10. \A ip : ~Changing(ip) => ip # agent.ip
  BY <1>1 DEF Changing
<1>11. ASSUME NEW ip \in Ips, ip \notin raced', ip \notin missed["agent"],
              ip \in FileToBe', ~AddDue(ip)', ip \in rules'["agent"]
       PROVE  ip \in skipped'["agent"]
  <2>1. ~AddDue(ip)
    BY <1>1, <1>5, <1>11 DEF AddDue, MgrAhead, busVars
  <2>2. ip # agent.ip
    BY <1>1, <1>8, <1>11 DEF AddDue
  <2>3. ip \in FileToBe
    BY <1>7, <1>8, <1>11, <2>2
  <2> QED
    BY <1>3, <1>5, <1>11, <2>1, <2>3 DEF WhitelistInv, ReleaseDue
<1> QED
  BY <1>1, <1>3, <1>4, <1>5, <1>6, <1>7, <1>8, <1>9, <1>10, <1>11, AgentGoesOn

LEMMA AgentFillsWhitelist ==
  ASSUME CommonTypeOK, EnforcersTypeOK, WhitelistInv, AgentFills, UNCHANGED mgr
  PROVE  WhitelistInv'
<1>1. /\ agent.pc = "fill"
      /\ agent.kind = "add" => /\ agent'.pc = "unblock" /\ agent'.kind = "add"
                               /\ agent'.ip = agent.ip
      /\ agent.kind # "add" => agent'.pc = "idle"
  BY DEF AgentFills, EnforcersTypeOK, AgentIdle
<1>2. /\ saving' = saving \ {"agent"} /\ "agent" \in saving
      /\ raced' # Ips => /\ whitelist' = [valid |-> TRUE, ips |-> AgentList]
                         /\ saving = {"agent"} /\ raced' = raced \ {agent.ip}
  BY <1>1 DEF AgentFills, FillWhitelist, WhitelistInv, FileInv
<1>3. raced' # Ips => mgr.pc # "fill"
  BY <1>2 DEF WhitelistInv, FileInv
<1>4. FileInv'
  <2>1. raced' # Ips => saving' = {} /\ whitelist'.valid
    BY <1>2
  <2>2. agent'.pc # "fill"
    BY <1>1
  <2> QED
    BY <1>2, <2>1, <2>2 DEF WhitelistInv, FileInv, Savers
<1>5. UNCHANGED busVars /\ UNCHANGED <<rules, skipped>>
  BY DEF AgentFills
<1>6. AgentKinds'
  BY <1>1, <1>5 DEF WhitelistInv, AgentKinds, busVars
<1>7. \A ip \in Ips : ip \notin raced' => FileToBe' = AgentList /\ FileToBe = AgentList
  BY <1>1, <1>2, <1>3 DEF FileToBe
<1>8. \A ip : ~Changing(ip)' /\ (Changing(ip) <=> ip = agent.ip)
  BY <1>1 DEF Changing
<1>9. agent.ip \in AgentList <=> agent.kind = "add"
  BY DEF AgentList
<1>10. \A ip \in Ips : ip \notin raced' /\ ip # agent.ip => ip \notin raced
  BY <1>2
<1>11. ASSUME NEW ip \in Ips, ip \notin raced', ip \notin missed["agent"],
              ip \in FileToBe', ~AddDue(ip)', ip \in rules'["agent"]
       PROVE  ip \in skipped'["agent"]
  <2>1. ~AddDue(ip)
    BY <1>1, <1>5, <1>11 DEF AddDue, MgrAhead, busVars
  <2>2. ip # agent.ip
    BY <1>1, <1>7, <1>9, <1>11 DEF AddDue
  <2> QED
    BY <1>5, <1>7, <1>10, <1>11, <2>1, <2>2 DEF WhitelistInv, ReleaseDue
<1> QED
  BY <1>1, <1>4, <1>5, <1>6, <1>7, <1>8, <1>9, <1>10, <1>11, AgentGoesOn

LEMMA AgentUnblocksWhitelist ==
  ASSUME CommonTypeOK, EnforcersTypeOK, WhitelistInv, AgentUnblocks, UNCHANGED mgr
  PROVE  WhitelistInv'
<1> USE DEF Enforcers
<1>1. /\ agent.pc = "unblock" /\ agent'.pc = "idle"
      /\ UNCHANGED busVars /\ UNCHANGED <<whitelist, saving, raced>>
      /\ RemoveRules("agent", agent.ip)
  BY DEF AgentUnblocks, AgentIdle, fileVars
<1>2. FileToBe' = FileToBe /\ FileInv' /\ AgentKinds'
  BY <1>1 DEF FileToBe, MgrList, WhitelistInv, FileInv, AgentKinds
<1>3. \A ip : ~Changing(ip) /\ ~Changing(ip)'
  BY <1>1 DEF Changing
<1>4. ASSUME NEW ip \in Ips, ip \notin raced', ip \notin missed["agent"],
             ip \in FileToBe', ~AddDue(ip)', ip \in rules'["agent"]
      PROVE  ip \in skipped'["agent"]
  <2>1. CASE ip = agent.ip
    BY <1>1, <1>4, <2>1 DEF RemoveRules, EnforcersTypeOK
  <2>2. CASE ip # agent.ip
    <3>1. ~AddDue(ip)
      BY <1>1, <1>4, <2>2 DEF AddDue, MgrAhead, busVars
    <3>2. ip \in rules["agent"] => ip \in skipped["agent"]
      BY <1>1, <1>2, <1>4, <3>1 DEF WhitelistInv, ReleaseDue
    <3> QED
      BY <1>1, <1>4, <2>2, <3>2 DEF RemoveRules, EnforcersTypeOK
  <2> QED
    BY <2>1, <2>2
<1> QED
  BY <1>1, <1>2, <1>3, <1>4, AgentGoesOn

\* The agent, or its host, goes down: nothing is under way to it any more, and
\* what was is on the record.
LEMMA AgentEndsWhitelist ==
  ASSUME CommonTypeOK, EnforcersTypeOK, WhitelistInv, Disconnect("agent"),
         UNCHANGED <<mgr, listed, whitelist>>,
         \A ip \in Ips : /\ ip \in rules'["agent"] => ip \in rules["agent"]
                         /\ ip \in skipped["agent"] => ip \in skipped'["agent"]
  PROVE  WhitelistInv'
<1> USE DEF Enforcers
<1>1. /\ inbox'["agent"] = <<>> /\ agent'.pc = "idle"
      /\ missed'["agent"] = missed["agent"] \cup InHand("agent")
      /\ saving' = saving \ {"agent"}
      /\ agent.pc = "fill" => raced' = Ips
      /\ agent.pc # "fill" => raced' = raced /\ saving' = saving
  BY DEF Disconnect, CommonTypeOK, AgentIdle, AbandonWhitelist, WhitelistInv, FileInv
<1>2. FileInv' /\ AgentKinds'
  BY <1>1 DEF WhitelistInv, FileInv, AgentKinds
<1>3. \A ip \in Ips : ip \notin raced' =>
        ip \notin raced /\ (ip \in FileToBe' <=> ip \in FileToBe)
  BY <1>1 DEF FileToBe, MgrList
<1>4. ASSUME NEW ip \in Ips, ip \notin missed'["agent"]
      PROVE  /\ ip \notin missed["agent"]
             /\ \A kinds : /\ ~Waits(inbox["agent"], ip, kinds)
                           /\ ~Waits(inbox'["agent"], ip, kinds)
             /\ agent.pc = "idle" \/ agent.ip # ip
  <2>1. ip \notin missed["agent"] /\ ip \notin InHand("agent")
    BY <1>1, <1>4
  <2>2. /\ \A i \in DOMAIN inbox["agent"] : inbox["agent"][i].ip # ip
        /\ agent.pc = "idle" \/ agent.ip # ip
    BY <2>1 DEF InHand
  <2>3. \A kinds : ~Waits(inbox["agent"], ip, kinds)
    BY <2>2 DEF Waits, Hits
  <2> QED
    BY <1>1, <2>1, <2>2, <2>3, EmptyWaits
<1>5. ASSUME NEW ip \in Ips PROVE ChangeArrives(ip)'
  <2>1. CASE ip \in missed'["agent"]
    BY <2>1 DEF ChangeArrives
  <2>2. CASE ip \notin missed'["agent"]
    <3>1. ~Changing(ip) /\ ~Changing(ip)'
      BY <1>1, <1>4, <2>2 DEF Changing
    <3>2. MgrAhead(ip)' <=> MgrAhead(ip)
      BY DEF MgrAhead
    <3>3. ip \notin missed["agent"] /\ ~Waits(inbox["agent"], ip, Changes)
          /\ ~Waits(inbox'["agent"], ip, Changes)
      BY <1>4, <2>2
    <3> QED
      BY <1>3, <3>1, <3>2, <3>3 DEF WhitelistInv, ChangeArrives
  <2> QED
    BY <2>1, <2>2
<1>6. ASSUME NEW ip \in Ips PROVE ReleaseDue(ip)'
  <2>1. CASE ip \in missed'["agent"]
    BY <2>1 DEF ReleaseDue
  <2>2. CASE ip \notin missed'["agent"]
    <3>1. AddDue(ip)' <=> AddDue(ip)
      BY <1>1, <1>4, <2>2 DEF AddDue, MgrAhead
    <3> QED
      BY <1>1, <1>3, <1>4, <2>2, <3>1 DEF WhitelistInv, ReleaseDue
  <2> QED
    BY <2>1, <2>2
<1> QED
  BY <1>2, <1>5, <1>6 DEF WhitelistInv

\* The other enforcer's business.
LEMMA OtherHost ==
  ASSUME CommonTypeOK, Disconnect("listener")
  PROVE  UNCHANGED agent /\ UNCHANGED fileVars /\ SameQueue
  BY DEF Disconnect, CommonTypeOK, SameQueue, Enforcers

LEMMA HostWhitelist ==
  ASSUME CommonTypeOK, EnforcersTypeOK, WhitelistInv, UNCHANGED mgr,
         NEW e \in Enforcers,
         EnforcerDies(e) \/ HostReboots(e) \/ EnforcerStarts(e)
  PROVE  WhitelistInv'
<1> USE DEF Enforcers
<1>1. CASE EnforcerStarts(e)
  <2>1. /\ UNCHANGED <<inbox, missed, listed, whitelist, saving, raced, rules,
                       agent, skipped>>
        /\ e = "listener" => online'["agent"] = online["agent"]
        /\ e = "agent" => online'["agent"] /\ ~online["agent"]
    BY <1>1 DEF EnforcerStarts, fileVars, enforcerVars, CommonTypeOK
  <2>2. FileToBe' = FileToBe /\ FileInv'
    BY <2>1 DEF FileToBe, MgrList, AgentList, WhitelistInv, FileInv
  <2>3. AgentKinds'
    BY <2>1 DEF WhitelistInv, AgentKinds
  <2>4. \A ip \in Ips : ChangeArrives(ip)' /\ ReleaseDue(ip)'
    BY <2>1, <2>2
    DEF WhitelistInv, ChangeArrives, ReleaseDue, Changing, MgrAhead, AddDue,
        Refused
  <2> QED
    BY <2>2, <2>3, <2>4 DEF WhitelistInv
<1>2. CASE EnforcerDies(e) \/ HostReboots(e)
  <2>1. /\ Disconnect(e) /\ UNCHANGED <<listed, whitelist>>
        /\ rules' = rules \/ rules' = [rules EXCEPT ![e] = {}]
        /\ skipped' = skipped \/ skipped' = [skipped EXCEPT ![e] = @ \cup rules[e]]
    BY <1>2
    DEF EnforcerDies, HostReboots, Disconnect, AbandonWhitelist, fileVars
  <2>2. CASE e = "agent"
    <3>1. \A ip \in Ips : /\ ip \in rules'["agent"] => ip \in rules["agent"]
                          /\ ip \in skipped["agent"] => ip \in skipped'["agent"]
      BY <2>1, <2>2 DEF EnforcersTypeOK
    <3> QED
      BY <2>1, <2>2, <3>1, AgentEndsWhitelist
  <2>3. CASE e = "listener"
    <3>1. UNCHANGED agent /\ UNCHANGED fileVars /\ SameQueue
      BY <2>1, <2>3, OtherHost
    <3>2. SameAgent
      BY <2>1, <2>3, <3>1 DEF SameAgent, EnforcersTypeOK
    <3> QED
      BY <2>1, <3>1, <3>2, QuietWhitelist DEF fileVars
  <2> QED
    BY <2>2, <2>3
<1> QED
  BY <1>1, <1>2

LEMMA ListenerFrame ==
  ASSUME CommonTypeOK, EnforcersTypeOK, ListenerHandles
  PROVE  /\ SameAgent /\ SameQueue
         /\ UNCHANGED <<online, missed, listed, whitelist, saving, raced, agent>>
<1> USE DEF Enforcers
<1>1. /\ UNCHANGED <<online, missed, listed, whitelist, saving, raced, agent>>
      /\ Take("listener")
  BY DEF ListenerHandles, fileVars
<1>2. SameQueue
  BY <1>1 DEF Take, CommonTypeOK, SameQueue
<1>3. \A ip : AddRule("listener", ip) \/ RemoveRules("listener", ip)
                => /\ rules'["agent"] = rules["agent"]
                   /\ skipped'["agent"] = skipped["agent"]
  BY DEF AddRule, RemoveRules, EnforcersTypeOK
<1>4. \A m \in Messages : ListenerApplies(m)
                => /\ rules'["agent"] = rules["agent"]
                   /\ skipped'["agent"] = skipped["agent"]
  BY <1>3 DEF ListenerApplies, Messages, Kinds
<1>5. Head(inbox["listener"]) \in Messages
  BY <1>1, TakeTypes DEF ListenerHandles
<1>6. /\ rules'["agent"] = rules["agent"]
      /\ skipped'["agent"] = skipped["agent"]
  BY <1>4, <1>5 DEF ListenerHandles, EnforcersTypeOK
<1> QED
  BY <1>1, <1>2, <1>6 DEF SameAgent

LEMMA EnforcersWhitelist ==
  ASSUME CommonTypeOK, EnforcersTypeOK, WhitelistInv, EnforcerStep, UNCHANGED mgr
  PROVE  WhitelistInv'
<1>1. CASE Agent
  BY <1>1, AgentIgnoresWhitelist, AgentTakesWhitelist, AgentAppliesWhitelist,
     AgentTruncatesWhitelist, AgentFillsWhitelist, AgentUnblocksWhitelist
  DEF Agent
<1>2. CASE ListenerHandles
  BY <1>2, ListenerFrame, QuietWhitelist
<1>3. CASE \E e \in Enforcers : EnforcerDies(e) \/ Reboot(e) \/ EnforcerStarts(e)
  BY <1>3, HostWhitelist DEF Reboot
<1> QED
  BY <1>1, <1>2, <1>3 DEF EnforcerStep

\* What a step of the border announces.
LEMMA BorderSends ==
  ASSUME BorderTypeOK, Border
  PROVE  /\ UNCHANGED fileVars
         /\ \/ UNCHANGED busVars
            \/ \E m \in Messages : Publish(m)
            \/ \E S \in SUBSET Ips : PublishLost(S)
<1>1. ASSUME NEW t \in Threads, NEW op, NEW ip, Request(t, op, ip)
      PROVE  UNCHANGED busVars /\ UNCHANGED fileVars
  BY <1>1 DEF Request
<1>2. ASSUME NEW t \in Threads, Write(t) \/ Lift(t)
      PROVE  UNCHANGED busVars /\ UNCHANGED fileVars
  BY <1>2 DEF Write, Lift, commonVars, busVars, fileVars
<1>3. ASSUME NEW t \in Threads, Announce(t)
      PROVE  /\ UNCHANGED fileVars
             /\ \/ \E m \in Messages : Publish(m)
                \/ \E S \in SUBSET Ips : PublishLost(S)
  <2>1. req[t].ip \in Ips /\ req[t].op \in Operations
    BY DEF BorderTypeOK
  <2>2. \A kind \in {"unblock", req[t].op} :
          [kind |-> kind, ip |-> req[t].ip, signed |-> apiSigns] \in Messages
    BY <2>1 DEF Messages, Operations, Kinds, BorderTypeOK
  <2>3. {req[t].ip} \in SUBSET Ips
    BY <2>1
  <2> QED
    BY <1>3, <2>2, <2>3 DEF Announce
<1>4. ASSUME NEW ts \in SUBSET Threads, CutOff(ts)
      PROVE  /\ UNCHANGED fileVars
             /\ \E S \in SUBSET Ips : PublishLost(S)
  <2>1. Ending(ts, {"lift", "lifted", "publish"}) \in SUBSET Ips
    BY EndingTypes
  <2> QED
    BY <1>4, <2>1 DEF CutOff
<1>5. \A t \in Threads : {t} \in SUBSET Threads
  OBVIOUS
<1>6. Threads \in SUBSET Threads
  OBVIOUS
<1> QED
  BY <1>1, <1>2, <1>3, <1>4, <1>5, <1>6 DEF Border

LEMMA SendersWhitelist ==
  ASSUME CommonTypeOK, WhitelistInv, UNCHANGED mgr, UNCHANGED enforcerVars,
         UNCHANGED fileVars,
         \/ UNCHANGED busVars
         \/ \E m \in Messages : Publish(m)
         \/ \E S \in SUBSET Ips : PublishLost(S)
  PROVE  WhitelistInv'
<1>1. SameAgent
  BY DEF SameAgent, enforcerVars
<1>2. \A ip : MgrAhead(ip)' <=> MgrAhead(ip)
  BY DEF MgrAhead
<1>3. CASE UNCHANGED busVars
  <2>1. SameQueue /\ UNCHANGED listed
    BY <1>3 DEF busVars, SameQueue
  <2> QED
    BY <1>1, <2>1, QuietWhitelist DEF fileVars
<1>4. CASE \E m \in Messages : Publish(m)
  BY <1>1, <1>2, <1>4, PublishWhitelist
<1>5. CASE \E S \in SUBSET Ips : PublishLost(S)
  BY <1>1, <1>2, <1>5, LostQuietly
<1> QED
  BY <1>3, <1>4, <1>5

\* What a step of the collector and the publisher announces.
LEMMA CronSends ==
  ASSUME ListsTypeOK, ShipInv, Collector \/ Shipper
  PROVE  /\ UNCHANGED fileVars /\ UNCHANGED mgr
         /\ UNCHANGED busVars \/ (\E m \in Messages : Publish(m))
<1>1. CASE Collector
  BY <1>1 DEF Collector, ColStart, ColWrite, ColFails, commonVars, busVars,
              fileVars
<1>2. CASE ShipStart \/ ShipFails \/ ShipSave
  BY <1>2 DEF ShipStart, ShipFails, ShipSave, commonVars, busVars, fileVars
<1>3. CASE ShipPublish
  <2>1. ship.published \in DOMAIN ship.rows
    BY <1>3 DEF ShipPublish, ShipInv, BatchShape, ListsTypeOK
  <2>2. ShipRow \in Rows
    BY <2>1 DEF ShipRow, ListsTypeOK
  <2>3. [kind |-> "block", ip |-> ShipRow[1], signed |-> "all"] \in Messages
    BY <2>2 DEF Messages, Kinds, Rows, Secrets
  <2> QED
    BY <1>3, <2>3 DEF ShipPublish
<1> QED
  BY <1>1, <1>2, <1>3 DEF Shipper

LEMMA InitWhitelist == Init => WhitelistInv
<1> SUFFICES ASSUME Init PROVE WhitelistInv
  OBVIOUS
<1>1. /\ inbox["agent"] = <<>> /\ agent.pc = "idle" /\ mgr.pc = "idle"
      /\ whitelist.valid /\ whitelist.ips = {} /\ listed = {} /\ saving = {}
  BY DEF Init, CommonInit, ListsInit, EnforcersInit, MgrIdle, AgentIdle, Enforcers
<1>2. \A ip, kinds : ~Waits(inbox["agent"], ip, kinds)
  BY <1>1, EmptyWaits
<1>3. FileToBe = {}
  BY <1>1 DEF FileToBe
<1>4. FileInv /\ AgentKinds
  BY <1>1 DEF FileInv, AgentKinds, Savers
<1>5. \A ip \in Ips : ChangeArrives(ip) /\ ReleaseDue(ip)
  BY <1>1, <1>2, <1>3 DEF ChangeArrives, ReleaseDue, Changing
<1> QED
  BY <1>4, <1>5 DEF WhitelistInv

LEMMA WhitelistStep ==
  ListsInv /\ WhitelistInv /\ [Next]_vars => WhitelistInv'
<1> SUFFICES ASSUME ListsInv, WhitelistInv, [Next]_vars PROVE WhitelistInv'
  OBVIOUS
<1>a. /\ CommonTypeOK /\ ListsTypeOK /\ EnforcersTypeOK /\ BorderTypeOK
      /\ ShipInv
  BY DEF ListsInv, TypeOK
<1>1. CASE (Manager \/ Collector \/ Shipper)
             /\ UNCHANGED <<enforcerVars, borderVars>>
  BY <1>1, <1>a, ManagerWhitelist, CronSends, SendersWhitelist
<1>2. CASE EnforcerStep /\ UNCHANGED <<listVars, borderVars>>
  BY <1>2, <1>a, EnforcersWhitelist DEF listVars
<1>3. CASE Border /\ UNCHANGED <<listVars, enforcerVars>>
  BY <1>3, <1>a, BorderSends, SendersWhitelist DEF listVars
<1>4. CASE UNCHANGED vars
  <2>1. UNCHANGED <<mgr, enforcerVars, fileVars, busVars>>
    BY <1>4 DEF vars, commonVars, listVars, fileVars, busVars
  <2> QED
    BY <2>1, <1>a, SendersWhitelist
<1> QED
  BY <1>1, <1>2, <1>3, <1>4 DEF Next

LEMMA WhitelistAlways == Spec => []WhitelistInv
  BY InitWhitelist, ListsAlways, WhitelistStep, PTL DEF Spec

-----------------------------------------------------------------------------
(* The enforcers will agree.                                               *)

\* A step leaves open nothing about the address that was not open before, and
\* does not change what e will come to.
Keeps(e, ip) ==
    ip \notin missed'[e] /\ ~InDoubt(e, ip)'
        => /\ ip \notin missed[e] /\ ~InDoubt(e, ip)
           /\ WillDrop(e, ip)' <=> WillDrop(e, ip)

LEMMA KeepsAgreement ==
  ASSUME AgreeInv, \A ip \in Ips : \A e \in Enforcers : Keeps(e, ip)
  PROVE  AgreeInv'
<1> SUFFICES ASSUME NEW ip \in Ips,
                    \A e \in Enforcers : ip \notin missed'[e] /\ ~InDoubt(e, ip)'
             PROVE  WillDrop("agent", ip)' <=> WillDrop("listener", ip)'
  BY DEF AgreeInv, WillAgree
<1>1. \A e \in Enforcers : /\ ip \notin missed[e] /\ ~InDoubt(e, ip)
                           /\ WillDrop(e, ip)' <=> WillDrop(e, ip)
  BY DEF Keeps
<1>2. WillDrop("agent", ip) <=> WillDrop("listener", ip)
  BY <1>1 DEF AgreeInv, WillAgree
<1> QED
  BY <1>1, <1>2 DEF Enforcers

\* What the agent has missed leaves the address open, whatever the step does.
LEMMA MissedOrKept ==
  ASSUME AgreeInv, NEW a, a \in missed'["agent"],
         \A ip \in Ips : ip # a => \A e \in Enforcers : Keeps(e, ip)
  PROVE  AgreeInv'
<1> SUFFICES ASSUME NEW ip \in Ips,
                    \A e \in Enforcers : ip \notin missed'[e] /\ ~InDoubt(e, ip)'
             PROVE  WillDrop("agent", ip)' <=> WillDrop("listener", ip)'
  BY DEF AgreeInv, WillAgree
<1>1. ip # a
  BY DEF Enforcers
<1>2. \A e \in Enforcers : /\ ip \notin missed[e] /\ ~InDoubt(e, ip)
                           /\ WillDrop(e, ip)' <=> WillDrop(e, ip)
  BY <1>1 DEF Keeps
<1>3. WillDrop("agent", ip) <=> WillDrop("listener", ip)
  BY <1>2 DEF AgreeInv, WillAgree
<1> QED
  BY <1>2, <1>3 DEF Enforcers

LEMMA KeepsFrame ==
  ASSUME NEW e \in Enforcers, NEW ip \in Ips,
         Waits(inbox'[e], ip, Orders) <=> Waits(inbox[e], ip, Orders),
         LastIs(inbox'[e], ip, Orders, "block")
           <=> LastIs(inbox[e], ip, Orders, "block"),
         ip \in missed[e] => ip \in missed'[e],
         ip \in skipped[e] => ip \in skipped'[e],
         ip \in rules'[e] <=> ip \in rules[e],
         Carrying(e, ip)' <=> Carrying(e, ip),
         Carrying(e, ip) => agent'.kind = agent.kind
  PROVE  Keeps(e, ip)
  BY DEF Keeps, InDoubt, WillDrop

LEMMA SameQueueKeeps ==
  ASSUME NEW e \in Enforcers, NEW ip \in Ips, inbox'[e] = inbox[e],
         ip \in missed[e] => ip \in missed'[e],
         ip \in skipped[e] => ip \in skipped'[e],
         ip \in rules'[e] <=> ip \in rules[e],
         e = "agent" => agent' = agent
  PROVE  Keeps(e, ip)
<1>1. /\ Carrying(e, ip)' <=> Carrying(e, ip)
      /\ Carrying(e, ip) => agent'.kind = agent.kind
  BY DEF Carrying
<1> QED
  BY <1>1, KeepsFrame

LEMMA SendersAgree ==
  ASSUME CommonTypeOK, AgreeInv, UNCHANGED enforcerVars,
         \/ UNCHANGED busVars
         \/ \E m \in Messages : Publish(m)
         \/ \E S \in SUBSET Ips : PublishLost(S)
  PROVE  AgreeInv'
<1>a. UNCHANGED <<rules, agent, skipped>>
  BY DEF enforcerVars
<1>1. CASE UNCHANGED busVars
  BY <1>a, <1>1, SameQueueKeeps, KeepsAgreement DEF busVars
<1>2. ASSUME NEW S \in SUBSET Ips, PublishLost(S) PROVE AgreeInv'
  <2>1. \A e \in Enforcers : missed[e] \subseteq missed'[e]
    BY <1>2 DEF PublishLost, CommonTypeOK
  <2> QED
    BY <1>a, <1>2, <2>1, SameQueueKeeps, KeepsAgreement DEF PublishLost
<1>3. ASSUME NEW m \in Messages, Publish(m) PROVE AgreeInv'
  <2> SUFFICES ASSUME NEW ip \in Ips PROVE WillAgree(ip)'
    BY DEF AgreeInv
  <2>1. WillAgree(ip)
    BY DEF AgreeInv
  <2>2. \A e \in Enforcers :
          /\ \A a : a \in missed[e] => a \in missed'[e]
          /\ online[e] => inbox'[e] = Append(inbox[e], m)
          /\ ~online[e] => inbox'[e] = inbox[e] /\ m.ip \in missed'[e]
    BY <1>3, PublishReaches
  <2>3. ASSUME NEW e \in Enforcers, online[e]
        PROVE  /\ Waits(inbox'[e], ip, Orders)
                    <=> Waits(inbox[e], ip, Orders) \/ Hits(m, ip, Orders)
               /\ LastIs(inbox'[e], ip, Orders, "block")
                    <=> IF Hits(m, ip, Orders) THEN m.kind = "block"
                        ELSE LastIs(inbox[e], ip, Orders, "block")
    <3>1. inbox'[e] = Append(inbox[e], m)
      BY <2>2, <2>3
    <3> QED
      BY <3>1, Appended
  <2>4. CASE Hits(m, ip, Orders)
    <3>1. ASSUME NEW e \in Enforcers, ip \notin missed'[e]
          PROVE  WillDrop(e, ip)' <=> m.kind = "block"
      <4>1. online[e]
        BY <2>2, <2>4, <3>1 DEF Hits
      <4>2. /\ Waits(inbox'[e], ip, Orders)
            /\ LastIs(inbox'[e], ip, Orders, "block") <=> m.kind = "block"
        BY <2>3, <2>4, <4>1
      <4> QED
        BY <4>2 DEF WillDrop
    <3> QED
      BY <3>1 DEF WillAgree, Enforcers
  <2>5. CASE ~Hits(m, ip, Orders)
    <3>1. ASSUME NEW e \in Enforcers PROVE Keeps(e, ip)
      <4>1. /\ Carrying(e, ip)' <=> Carrying(e, ip)
            /\ Carrying(e, ip) => agent'.kind = agent.kind
        BY <1>a DEF Carrying
      <4>2. ip \in missed[e] => ip \in missed'[e]
        BY <2>2
      <4>3. CASE online[e]
        BY <1>a, <2>3, <2>5, <4>1, <4>2, <4>3, KeepsFrame
      <4>4. CASE ~online[e]
        BY <1>a, <2>2, <4>1, <4>2, <4>4, KeepsFrame
      <4> QED
        BY <4>3, <4>4
    <3>2. ASSUME \A e \in Enforcers : ip \notin missed'[e] /\ ~InDoubt(e, ip)'
          PROVE  WillDrop("agent", ip)' <=> WillDrop("listener", ip)'
      <4>1. \A e \in Enforcers : /\ ip \notin missed[e] /\ ~InDoubt(e, ip)
                                 /\ WillDrop(e, ip)' <=> WillDrop(e, ip)
        BY <3>1, <3>2 DEF Keeps
      <4> QED
        BY <2>1, <4>1 DEF WillAgree, Enforcers
    <3> QED
      BY <3>2 DEF WillAgree
  <2> QED
    BY <2>4, <2>5
<1> QED
  BY <1>1, <1>2, <1>3

\* What is at stake for an enforcer that the step does not concern.
LEMMA OtherKeeps ==
  ASSUME NEW e \in Enforcers, NEW ip \in Ips, inbox'[e] = inbox[e],
         missed'[e] = missed[e], rules'[e] = rules[e], skipped'[e] = skipped[e],
         e = "agent" => agent' = agent
  PROVE  Keeps(e, ip)
  BY SameQueueKeeps

LEMMA TakeOther ==
  ASSUME CommonTypeOK, NEW e \in Enforcers, NEW f \in Enforcers, f # e, Take(e)
  PROVE  inbox'[f] = inbox[f]
  BY DEF Take, CommonTypeOK

\* Carrying out an order for an address concerns that enforcer and address, and
\* succeeds or is on the record.
LEMMA RuleOutcome ==
  ASSUME EnforcersTypeOK, NEW e \in Enforcers, NEW a \in Ips
  PROVE  /\ AddRule(e, a) \/ RemoveRules(e, a) =>
              /\ \A f \in Enforcers : f # e => /\ rules'[f] = rules[f]
                                               /\ skipped'[f] = skipped[f]
              /\ \A ip \in Ips : ip # a =>
                   /\ ip \in rules'[e] <=> ip \in rules[e]
                   /\ ip \in skipped'[e] <=> ip \in skipped[e]
         /\ AddRule(e, a) => a \in rules'[e] \/ a \in skipped'[e]
         /\ RemoveRules(e, a) => a \notin rules'[e] \/ a \in skipped'[e]
  BY DEF AddRule, RemoveRules, EnforcersTypeOK

LEMMA AgentAgrees ==
  ASSUME CommonTypeOK, EnforcersTypeOK, AgentKinds, AgreeInv, Agent
  PROVE  AgreeInv'
<1> USE DEF Enforcers
<1>a. agent.ip \in Ips /\ agent.kind \in Kinds
  BY DEF EnforcersTypeOK
<1>1. CASE AgentIgnores
  <2>1. /\ inbox["agent"] # <<>> /\ Take("agent")
        /\ UNCHANGED <<missed, rules, agent>>
        /\ \A ip : ip \in skipped["agent"] => ip \in skipped'["agent"]
        /\ skipped'["listener"] = skipped["listener"]
    BY <1>1 DEF AgentIgnores, AgentReads, EnforcersTypeOK
  <2>2. \A ip, kinds : ~Hits(Head(inbox["agent"]), ip, kinds)
    BY <1>1 DEF AgentIgnores, Trusted, Hits
  <2>3. ASSUME NEW ip \in Ips PROVE Keeps("agent", ip)
    <3>1. /\ Waits(inbox'["agent"], ip, Orders)
               <=> Waits(inbox["agent"], ip, Orders)
          /\ LastIs(inbox'["agent"], ip, Orders, "block")
               <=> LastIs(inbox["agent"], ip, Orders, "block")
      BY <2>1, <2>2, Taken, LastWaits
    <3>2. /\ Carrying("agent", ip)' <=> Carrying("agent", ip)
          /\ Carrying("agent", ip) => agent'.kind = agent.kind
      BY <2>1 DEF Carrying
    <3> QED
      BY <2>1, <3>1, <3>2, KeepsFrame
  <2>4. ASSUME NEW ip \in Ips PROVE Keeps("listener", ip)
    BY <2>1, TakeOther, OtherKeeps
  <2> QED
    BY <2>3, <2>4, KeepsAgreement
<1>2. CASE AgentTakes
  <2> DEFINE m == Head(inbox["agent"])
  <2>1. /\ inbox["agent"] # <<>> /\ Take("agent")
        /\ agent.pc = "idle" /\ Trusted("agent", m)
        /\ UNCHANGED <<missed, rules, skipped>>
        /\ agent'.pc # "idle" /\ agent'.kind = m.kind /\ agent'.ip = m.ip
    BY <1>2 DEF AgentTakes, AgentReads
  <2>a. m.signed = "all"
    <3>1. m.signed \in Secrets
      BY <2>1, TakeTypes DEF Messages
    <3> QED
      BY <2>1, <3>1 DEF Trusted, Secrets
  <2>2. ASSUME NEW ip \in Ips PROVE Keeps("agent", ip)
    <3>1. /\ Waits(inbox["agent"], ip, Orders)
               <=> Hits(m, ip, Orders) \/ Waits(inbox'["agent"], ip, Orders)
          /\ LastIs(inbox["agent"], ip, Orders, "block")
               <=> IF Waits(inbox'["agent"], ip, Orders)
                   THEN LastIs(inbox'["agent"], ip, Orders, "block")
                   ELSE Hits(m, ip, Orders) /\ m.kind = "block"
      BY <2>1, Taken
    <3>2. /\ Carrying("agent", ip)' <=> Hits(m, ip, Orders)
          /\ ~Carrying("agent", ip)
      BY <2>1, <2>a DEF Carrying, Hits
    <3> QED
      BY <2>1, <3>1, <3>2 DEF Keeps, InDoubt, WillDrop
  <2>3. ASSUME NEW ip \in Ips PROVE Keeps("listener", ip)
    BY <2>1, TakeOther, OtherKeeps
  <2> QED
    BY <2>2, <2>3, KeepsAgreement
<1>3. CASE AgentApplies \/ AgentUnblocks
  <2>1. /\ UNCHANGED <<inbox, missed>> /\ agent'.pc = "idle" /\ agent.pc # "idle"
        /\ agent.kind \in Orders
    BY <1>3 DEF AgentApplies, AgentUnblocks, busVars, AgentIdle, AgentKinds, Orders
  <2>2. /\ rules'["listener"] = rules["listener"]
        /\ skipped'["listener"] = skipped["listener"]
        /\ \A ip \in Ips : ip # agent.ip =>
             /\ ip \in rules'["agent"] <=> ip \in rules["agent"]
             /\ ip \in skipped'["agent"] <=> ip \in skipped["agent"]
        /\ \/ agent.ip \in skipped'["agent"]
           \/ agent.ip \in rules'["agent"] <=> agent.kind = "block"
    <3>1. CASE RemoveRules("agent", agent.ip) /\ agent.kind # "block"
      BY <1>a, <3>1, RuleOutcome
    <3>2. CASE AddRule("agent", agent.ip) /\ agent.kind = "block"
      BY <1>a, <3>2, RuleOutcome
    <3>3. CASE /\ skipped' = [skipped EXCEPT !["agent"] = @ \cup {agent.ip}]
               /\ UNCHANGED rules
      BY <3>3 DEF EnforcersTypeOK
    <3>4. CASE AgentApplies
      BY <3>1, <3>2, <3>3, <3>4 DEF AgentApplies, AgentKinds
    <3>5. CASE AgentUnblocks
      BY <3>1, <3>5 DEF AgentUnblocks, AgentKinds
    <3> QED
      BY <1>3, <3>4, <3>5
  <2>3. ASSUME NEW ip \in Ips PROVE Keeps("agent", ip)
    <3>1. /\ ~Carrying("agent", ip)'
          /\ Carrying("agent", ip) <=> ip = agent.ip
      BY <2>1 DEF Carrying
    <3>2. CASE ip = agent.ip
      BY <2>1, <2>2, <3>1, <3>2 DEF Keeps, InDoubt, WillDrop
    <3>3. CASE ip # agent.ip
      BY <2>1, <2>2, <3>1, <3>3, QueueKept, KeepsFrame
    <3> QED
      BY <3>2, <3>3
  <2>4. ASSUME NEW ip \in Ips PROVE Keeps("listener", ip)
    BY <2>1, <2>2, OtherKeeps
  <2> QED
    BY <2>3, <2>4, KeepsAgreement
<1>4. CASE AgentTruncates \/ AgentFills
  <2>1. UNCHANGED <<inbox, missed, rules, skipped>>
    BY <1>4 DEF AgentTruncates, AgentFills, busVars
  <2>2. /\ agent.kind \in Changes /\ agent.pc # "idle"
        /\ \/ agent'.pc # "idle" /\ agent'.kind = agent.kind
                /\ agent'.ip = agent.ip
           \/ agent'.pc = "idle" /\ agent.kind = "remove"
    BY <1>4
    DEF AgentTruncates, AgentFills, AgentKinds, AgentIdle, EnforcersTypeOK, Changes
  <2>3. ASSUME NEW ip \in Ips
        PROVE  /\ Carrying("agent", ip)' <=> Carrying("agent", ip)
               /\ Carrying("agent", ip) => agent'.kind = agent.kind
    BY <2>2 DEF Carrying, Orders
  <2>4. ASSUME NEW ip \in Ips PROVE Keeps("agent", ip)
    BY <2>1, <2>3, QueueKept, KeepsFrame
  <2>5. ASSUME NEW ip \in Ips PROVE Keeps("listener", ip)
    BY <2>1, OtherKeeps
  <2> QED
    BY <2>4, <2>5, KeepsAgreement
<1> QED
  BY <1>1, <1>2, <1>3, <1>4 DEF Agent

LEMMA ListenerAgrees ==
  ASSUME CommonTypeOK, EnforcersTypeOK, OneSided, AgreeInv, ListenerHandles
  PROVE  AgreeInv'
<1> USE DEF Enforcers
<1> DEFINE m == Head(inbox["listener"])
<1>1. /\ inbox["listener"] # <<>> /\ Take("listener")
      /\ SameAgent /\ SameQueue /\ UNCHANGED missed
  BY ListenerFrame DEF ListenerHandles
<1>2. m \in Messages
  BY <1>1, TakeTypes
<1>3. m.ip \in Ips /\ m.kind \in Kinds /\ m.signed \in Secrets
  BY <1>2 DEF Messages
<1>4. \/ m.signed # "none" /\ ListenerApplies(m)
      \/ /\ m.signed = "none"
         /\ skipped' = [skipped EXCEPT !["listener"] = @ \cup {m.ip}]
         /\ UNCHANGED rules
  BY <1>3 DEF ListenerHandles, Trusted, Secrets
<1>a. m.signed = "listener" => m.ip \in missed'["agent"]
  <2>1. 1 \in DOMAIN inbox["listener"] /\ m = inbox["listener"][1]
    BY <1>1, InboxType
  <2> QED
    BY <1>1, <2>1 DEF OneSided
<1>5. ASSUME NEW ip, NEW kinds, NEW kind
      PROVE  /\ Waits(inbox["listener"], ip, kinds)
                  <=> Hits(m, ip, kinds) \/ Waits(inbox'["listener"], ip, kinds)
             /\ LastIs(inbox["listener"], ip, kinds, kind)
                  <=> IF Waits(inbox'["listener"], ip, kinds)
                      THEN LastIs(inbox'["listener"], ip, kinds, kind)
                      ELSE Hits(m, ip, kinds) /\ m.kind = kind
  BY <1>1, Taken
<1> HIDE DEF m
<1>6. ASSUME NEW ip \in Ips, m.signed = "listener" => ip # m.ip
      PROVE  Keeps("listener", ip)
  <2>1. ~Carrying("listener", ip) /\ ~Carrying("listener", ip)'
    BY DEF Carrying
  <2>2. CASE Hits(m, ip, Orders)
    <3>1. m.signed = "all" /\ m.ip = ip /\ m.kind \in Orders
      BY <2>2 DEF Hits
    <3>2. \/ ip \in skipped'["listener"]
          \/ ip \in rules'["listener"] <=> m.kind = "block"
      <4>1. CASE m.kind = "block"
        BY <1>3, <1>4, <3>1, <4>1, RuleOutcome DEF ListenerApplies
      <4>2. CASE m.kind \in {"unblock", "add"}
        BY <1>3, <1>4, <3>1, <4>2, RuleOutcome DEF ListenerApplies
      <4> QED
        BY <3>1, <4>1, <4>2 DEF Orders
    <3> QED
      BY <1>1, <1>5, <2>1, <2>2, <3>2 DEF Keeps, InDoubt, WillDrop
  <2>3. CASE ~Hits(m, ip, Orders)
    <3>1. /\ ip \in skipped["listener"] => ip \in skipped'["listener"]
          /\ ip \in rules'["listener"] <=> ip \in rules["listener"]
      <4>1. CASE m.signed = "none"
        BY <1>4, <4>1 DEF EnforcersTypeOK
      <4>2. CASE m.signed # "none" /\ m.kind \in Orders
        <5>1. ip # m.ip
          BY <1>3, <1>6, <2>3, <4>2 DEF Hits, Secrets
        <5>2. AddRule("listener", m.ip) \/ RemoveRules("listener", m.ip)
          BY <1>4, <4>2 DEF ListenerApplies, Orders
        <5> QED
          BY <1>3, <5>1, <5>2, RuleOutcome
      <4>3. CASE m.signed # "none" /\ m.kind \notin Orders
        BY <1>3, <1>4, <4>3 DEF ListenerApplies, Orders, Kinds
      <4> QED
        BY <1>3, <4>1, <4>2, <4>3
    <3>2. /\ Waits(inbox'["listener"], ip, Orders)
               <=> Waits(inbox["listener"], ip, Orders)
          /\ LastIs(inbox'["listener"], ip, Orders, "block")
               <=> LastIs(inbox["listener"], ip, Orders, "block")
      BY <1>5, <2>3, LastWaits
    <3> QED
      BY <1>1, <2>1, <3>1, <3>2, KeepsFrame
  <2> QED
    BY <2>2, <2>3
<1>7. ASSUME NEW ip \in Ips PROVE Keeps("agent", ip)
  BY <1>1, OtherKeeps DEF SameAgent, SameQueue
<1>8. CASE m.signed = "listener"
  <2>1. \A ip \in Ips : ip # m.ip => \A e \in Enforcers : Keeps(e, ip)
    BY <1>6, <1>7
  <2> QED
    BY <1>a, <1>8, <2>1, MissedOrKept
<1>9. CASE m.signed # "listener"
  BY <1>6, <1>7, <1>9, KeepsAgreement
<1> QED
  BY <1>8, <1>9

LEMMA HostAgrees ==
  ASSUME CommonTypeOK, EnforcersTypeOK, AgreeInv, NEW e \in Enforcers,
         EnforcerDies(e) \/ HostReboots(e) \/ EnforcerStarts(e)
  PROVE  AgreeInv'
<1>1. CASE EnforcerStarts(e)
  <2>1. UNCHANGED <<inbox, missed, rules, agent, skipped>>
    BY <1>1 DEF EnforcerStarts, enforcerVars
  <2> QED
    BY <2>1, OtherKeeps, KeepsAgreement
<1>2. CASE EnforcerDies(e) \/ HostReboots(e)
  <2>1. /\ Disconnect(e)
        /\ \/ UNCHANGED <<rules, skipped>>
           \/ /\ rules' = [rules EXCEPT ![e] = {}]
              /\ skipped' = [skipped EXCEPT ![e] = @ \cup rules[e]]
    BY <1>2 DEF EnforcerDies, HostReboots
  <2>2. /\ inbox'[e] = <<>> /\ missed'[e] = missed[e] \cup InHand(e)
        /\ \A f \in Enforcers : f # e => /\ inbox'[f] = inbox[f]
                                         /\ missed'[f] = missed[f]
        /\ e = "agent" => agent'.pc = "idle"
        /\ e # "agent" => agent' = agent
    BY <2>1 DEF Disconnect, CommonTypeOK, AgentIdle
  <2>3. \A f \in Enforcers : f # e => /\ rules'[f] = rules[f]
                                      /\ skipped'[f] = skipped[f]
    BY <2>1 DEF EnforcersTypeOK
  <2>4. ASSUME NEW ip \in Ips PROVE Keeps(e, ip)
    <3> SUFFICES ASSUME ip \notin missed'[e], ~InDoubt(e, ip)'
                 PROVE  /\ ip \notin missed[e] /\ ~InDoubt(e, ip)
                        /\ WillDrop(e, ip)' <=> WillDrop(e, ip)
      BY DEF Keeps
    <3>1. ip \notin missed[e] /\ ip \notin InHand(e)
      BY <2>2
    <3>2. \A i \in DOMAIN inbox[e] : inbox[e][i].ip # ip
      BY <3>1 DEF InHand
    <3>3. ~Waits(inbox[e], ip, Orders)
      BY <3>2 DEF Waits, Hits
    <3>4. ~Waits(inbox'[e], ip, Orders)
      BY <2>2, EmptyWaits
    <3>5. ~Carrying(e, ip) /\ ~Carrying(e, ip)'
      BY <2>2, <3>1 DEF Carrying, InHand
    <3>6. ip \notin skipped'[e]
      BY <3>4, <3>5 DEF InDoubt
    <3>7. /\ ip \notin skipped[e]
          /\ ip \in rules'[e] <=> ip \in rules[e]
      BY <2>1, <3>6 DEF EnforcersTypeOK
    <3> QED
      BY <3>1, <3>3, <3>4, <3>5, <3>7 DEF InDoubt, WillDrop
  <2>5. ASSUME NEW f \in Enforcers, f # e, NEW ip \in Ips PROVE Keeps(f, ip)
    <3>1. f = "agent" => agent' = agent
      BY <2>2, <2>5
    <3> QED
      BY <2>2, <2>3, <2>5, <3>1, OtherKeeps
  <2> QED
    BY <2>4, <2>5, KeepsAgreement
<1> QED
  BY <1>1, <1>2

\* What a command of the operator announces.
LEMMA ManagerSends ==
  ASSUME ListsTypeOK, Manager
  PROVE  \/ UNCHANGED busVars
         \/ \E m \in Messages : Publish(m)
         \/ \E S \in SUBSET Ips : PublishLost(S)
<1>1. {mgr.ip} \in SUBSET Ips
  BY DEF ListsTypeOK
<1>2. CASE MgrPublish \/ MgrDies
  BY <1>1, <1>2, MgrMessages DEF MgrPublish, MgrDies
<1>3. CASE \/ \E cmd \in Commands, ip \in Ips : MgrStart(cmd, ip)
           \/ MgrTruncate \/ MgrFill \/ MgrReadsClock \/ MgrUpsert \/ MgrDelete
  BY <1>3 DEF MgrStart, MgrTruncate, MgrFill, MgrReadsClock, MgrUpsert, MgrDelete,
              commonVars, busVars
<1> QED
  BY <1>2, <1>3 DEF Manager

\* What a step does to the listener's queue.
LEMMA OneSidedKept ==
  ASSUME CommonTypeOK, OneSided,
         \A ip : ip \in missed["agent"] => ip \in missed'["agent"],
         \/ inbox'["listener"] \in {inbox["listener"], <<>>}
         \/ inbox["listener"] # <<>> /\ inbox'["listener"] = Tail(inbox["listener"])
         \/ \E m \in Messages :
              /\ inbox'["listener"] = Append(inbox["listener"], m)
              /\ m.signed = "listener" => m.ip \in missed'["agent"]
  PROVE  OneSided'
<1> DEFINE q == inbox["listener"]
<1>1. q \in Seq(Messages)
  BY InboxType DEF Enforcers
<1>2. \A i \in DOMAIN q : q[i].signed = "listener" => q[i].ip \in missed'["agent"]
  BY DEF OneSided
<1>3. CASE inbox'["listener"] \in {q, <<>>}
  BY <1>2, <1>3 DEF OneSided
<1> HIDE DEF q
<1>4. ASSUME q # <<>>, inbox'["listener"] = Tail(q) PROVE OneSided'
  <2>1. /\ DOMAIN q = 1..Len(q) /\ Len(q) \in Nat
        /\ DOMAIN Tail(q) = 1..(Len(q) - 1)
        /\ \A i \in 1..(Len(q) - 1) : Tail(q)[i] = q[i + 1]
    BY <1>1, <1>4, TailAt
  <2>2. \A i \in 1..(Len(q) - 1) : i + 1 \in DOMAIN q
    BY <2>1
  <2> QED
    BY <1>2, <1>4, <2>1, <2>2 DEF OneSided
<1>5. ASSUME NEW m \in Messages, inbox'["listener"] = Append(q, m),
             m.signed = "listener" => m.ip \in missed'["agent"]
      PROVE  OneSided'
  <2>1. /\ DOMAIN Append(q, m) = 1..(Len(q) + 1)
        /\ DOMAIN q = 1..Len(q) /\ Len(q) \in Nat
        /\ \A i \in 1..Len(q) : Append(q, m)[i] = q[i]
        /\ Append(q, m)[Len(q) + 1] = m
    BY <1>1, AppendAt
  <2>2. \A i \in 1..(Len(q) + 1) : i = Len(q) + 1 \/ i \in DOMAIN q
    BY <2>1
  <2> QED
    BY <1>2, <1>5, <2>1, <2>2 DEF OneSided
<1> QED
  BY <1>3, <1>4, <1>5 DEF q

LEMMA SendersOneSided ==
  ASSUME CommonTypeOK, OneSided,
         \/ UNCHANGED busVars
         \/ \E m \in Messages : Publish(m)
         \/ \E S \in SUBSET Ips : PublishLost(S)
  PROVE  OneSided'
<1> USE DEF Enforcers
<1>1. CASE UNCHANGED busVars
  BY <1>1, OneSidedKept DEF busVars
<1>2. ASSUME NEW S \in SUBSET Ips, PublishLost(S) PROVE OneSided'
  <2>1. /\ inbox' = inbox
        /\ \A ip : ip \in missed["agent"] => ip \in missed'["agent"]
    BY <1>2 DEF PublishLost
  <2> QED
    BY <2>1, OneSidedKept
<1>3. ASSUME NEW m \in Messages, Publish(m) PROVE OneSided'
  <2>1. /\ \A ip : ip \in missed["agent"] => ip \in missed'["agent"]
        /\ m.signed = "listener" => m.ip \in missed'["agent"]
    BY <1>3, PublishReaches
  <2>2. \/ inbox'["listener"] = Append(inbox["listener"], m)
        \/ inbox'["listener"] = inbox["listener"]
    BY <1>3, PublishReaches
  <2> QED
    BY <2>1, <2>2, OneSidedKept
<1> QED
  BY <1>1, <1>2, <1>3

LEMMA EnforcersOneSided ==
  ASSUME CommonTypeOK, EnforcersTypeOK, OneSided, EnforcerStep
  PROVE  OneSided'
<1> USE DEF Enforcers
<1>1. CASE AgentIgnores \/ AgentTakes
  <2>1. Take("agent") /\ UNCHANGED missed
    BY <1>1 DEF AgentIgnores, AgentTakes
  <2>2. inbox'["listener"] = inbox["listener"]
    BY <2>1, TakeOther
  <2> QED
    BY <2>1, <2>2, OneSidedKept
<1>2. CASE AgentApplies \/ AgentTruncates \/ AgentFills \/ AgentUnblocks
  <2>1. UNCHANGED <<inbox, missed>>
    BY <1>2 DEF AgentApplies, AgentTruncates, AgentFills, AgentUnblocks, busVars
  <2> QED
    BY <2>1, OneSidedKept
<1>3. CASE ListenerHandles
  <2>1. /\ inbox["listener"] # <<>> /\ Take("listener") /\ UNCHANGED missed
    BY <1>3 DEF ListenerHandles
  <2>2. inbox'["listener"] = Tail(inbox["listener"])
    BY <2>1 DEF Take, CommonTypeOK
  <2> QED
    BY <2>1, <2>2, OneSidedKept
<1>4. ASSUME NEW e \in Enforcers, EnforcerDies(e) \/ HostReboots(e)
      PROVE  OneSided'
  <2>1. Disconnect(e)
    BY <1>4 DEF EnforcerDies, HostReboots
  <2>2. \A ip : ip \in missed["agent"] => ip \in missed'["agent"]
    BY <2>1 DEF Disconnect, CommonTypeOK
  <2>3. inbox'["listener"] \in {inbox["listener"], <<>>}
    BY <2>1 DEF Disconnect, CommonTypeOK
  <2> QED
    BY <2>2, <2>3, OneSidedKept
<1>5. ASSUME NEW e \in Enforcers, EnforcerStarts(e) PROVE OneSided'
  <2>1. UNCHANGED <<inbox, missed>>
    BY <1>5 DEF EnforcerStarts
  <2> QED
    BY <2>1, OneSidedKept
<1> QED
  BY <1>1, <1>2, <1>3, <1>4, <1>5 DEF EnforcerStep, Agent, Reboot

LEMMA OneSidedStep == ListsInv /\ OneSided /\ [Next]_vars => OneSided'
<1> SUFFICES ASSUME ListsInv, OneSided, [Next]_vars PROVE OneSided'
  OBVIOUS
<1>a. /\ CommonTypeOK /\ ListsTypeOK /\ EnforcersTypeOK /\ BorderTypeOK
      /\ ShipInv
  BY DEF ListsInv, TypeOK
<1>1. CASE Manager \/ Collector \/ Shipper
  BY <1>1, <1>a, ManagerSends, CronSends, SendersOneSided
<1>2. CASE EnforcerStep
  BY <1>2, <1>a, EnforcersOneSided
<1>3. CASE Border
  BY <1>3, <1>a, BorderSends, SendersOneSided
<1>4. CASE UNCHANGED vars
  <2>1. UNCHANGED busVars
    BY <1>4 DEF vars, commonVars, busVars
  <2> QED
    BY <2>1, <1>a, SendersOneSided
<1> QED
  BY <1>1, <1>2, <1>3, <1>4 DEF Next

LEMMA OneSidedAlways == Spec => []OneSided
<1>1. Init => OneSided
  BY DEF Init, CommonInit, OneSided, Enforcers
<1> QED
  BY <1>1, ListsAlways, OneSidedStep, PTL DEF Spec

LEMMA InitAgree == Init => AgreeInv
<1> SUFFICES ASSUME Init PROVE AgreeInv
  OBVIOUS
<1>1. /\ \A e \in Enforcers : inbox[e] = <<>> /\ rules[e] = {}
      /\ agent.pc = "idle"
  BY DEF Init, CommonInit, EnforcersInit, AgentIdle
<1>2. \A e \in Enforcers, ip \in Ips : ~Waits(inbox[e], ip, Orders)
  BY <1>1, EmptyWaits
<1>3. \A e \in Enforcers, ip \in Ips : ~WillDrop(e, ip)
  BY <1>1, <1>2 DEF WillDrop, Carrying
<1> QED
  BY <1>3 DEF AgreeInv, WillAgree, Enforcers

LEMMA AgreeStep ==
  ListsInv /\ WhitelistInv /\ OneSided /\ AgreeInv /\ [Next]_vars => AgreeInv'
<1> SUFFICES ASSUME ListsInv, WhitelistInv, OneSided, AgreeInv, [Next]_vars
             PROVE  AgreeInv'
  OBVIOUS
<1>a. /\ CommonTypeOK /\ ListsTypeOK /\ EnforcersTypeOK /\ BorderTypeOK
      /\ ShipInv /\ AgentKinds
  BY DEF ListsInv, TypeOK, WhitelistInv
<1>1. CASE (Manager \/ Collector \/ Shipper)
             /\ UNCHANGED <<enforcerVars, borderVars>>
  BY <1>1, <1>a, ManagerSends, CronSends, SendersAgree
<1>2. CASE EnforcerStep /\ UNCHANGED <<listVars, borderVars>>
  BY <1>2, <1>a, AgentAgrees, ListenerAgrees, HostAgrees
  DEF EnforcerStep, Reboot
<1>3. CASE Border /\ UNCHANGED <<listVars, enforcerVars>>
  BY <1>3, <1>a, BorderSends, SendersAgree
<1>4. CASE UNCHANGED vars
  <2>1. UNCHANGED <<enforcerVars, busVars>>
    BY <1>4 DEF vars, commonVars, busVars
  <2> QED
    BY <2>1, <1>a, SendersAgree
<1> QED
  BY <1>1, <1>2, <1>3, <1>4 DEF Next

LEMMA AgreeAlways == Spec => []AgreeInv
  BY InitAgree, ListsAlways, WhitelistAlways, OneSidedAlways, AgreeStep, PTL
  DEF Spec

LEMMA TablesStep == ListsInv /\ TablesInv /\ [Next]_vars => TablesInv'
<1> SUFFICES ASSUME ListsInv, TablesInv, [Next]_vars PROVE TablesInv'
  OBVIOUS
<1>1. CASE Border
  BY <1>1, BorderTables DEF ListsInv, TypeOK
<1>2. CASE ~Border
  <2>1. UNCHANGED borderVars
    BY <1>2 DEF Next, vars
  <2> QED
    BY <2>1, FrameTables
<1> QED
  BY <1>1, <1>2

LEMMA TablesAlways == Spec => []TablesInv
  BY InitTables, ListsAlways, TablesStep, PTL DEF Spec

-----------------------------------------------------------------------------
(* The theorems.                                                           *)

\* Nothing about the address waits for an enforcer, or is in its hands.
LEMMA NothingUnderWay ==
  ASSUME NEW e \in Enforcers, NEW ip \in Ips, ~UnderWay(e, ip)
  PROVE  /\ \A kinds : ~Waits(inbox[e], ip, kinds)
         /\ e = "agent" => agent.pc = "idle" \/ agent.ip # ip
<1>1. ip \notin InHand(e)
  BY DEF UnderWay
<1>2. \A i \in DOMAIN inbox[e] : inbox[e][i].ip # ip
  BY <1>1 DEF InHand
<1> QED
  BY <1>1, <1>2 DEF InHand, Waits, Hits

\* The programs of the fleet keep their state in its types: the messages have
\* the fields the enforcers read, the database a timestamp the publisher can
\* compare, the batch a row for every index it is sent by
\* (src/v4/client/6-block-ips.py, 7-iptables-agent.py, 8-manage-ip-lists.py,
\* src/v4/server/listen-to-mosquitto.py, src/v4/security-v4/api.py).
THEOREM TypeInvariance == Spec => []TypeOK
<1>1. ListsInv => TypeOK
  BY DEF ListsInv
<1> QED
  BY <1>1, ListsAlways, PTL

\* The watermark of src/v4/client/6-block-ips.py passes no row it did not
\* publish but for one written behind it, with any number of addresses, passes
\* of the collector, commands and failures in the middle of a batch.
THEOREM NothingSkippedHolds == Spec => []NothingSkipped
<1>1. ListsInv => NothingSkipped
  BY DEF ListsInv, ShipInv
<1> QED
  BY <1>1, ListsAlways, PTL

\* The border API (src/v4/security-v4/api.py) keeps no address in both of its
\* tables while no request is at work on them, unless requests for the address
\* overlapped in them or an allowing one ended between its statements, and none
\* for it has run alone since: the refusal of a block with 409 and the unblock in
\* whitelist_add are enough, for any number of threads, requests and crashes.
THEOREM TablesDisjointHolds == Spec => []TablesDisjoint
<1>1. ListsInv /\ TablesInv => TablesDisjoint
  <2> SUFFICES ASSUME ListsInv, TablesInv, NEW ip \in blocks \cap allowlist,
                      ip \in Ips, ip \notin unsettled
               PROVE  \E t \in Threads : InTables(t, ip)
    BY DEF TablesDisjoint, ListsInv, TypeOK, BorderTypeOK
  <2> QED
    BY DEF TablesInv, TablesApart
<1> QED
  BY <1>1, ListsAlways, TablesAlways, PTL

\* The whitelist file of a client host says of an address what the last
\* announced change said, whether the operator's command or the agent wrote it
\* (src/v4/client/8-manage-ip-lists.py, 7-iptables-agent.py): a stale copy that is
\* saved harms only the addresses that were changed since it was loaded, and what
\* overlapping saves or a death in one did to an address is gone when its next
\* change is saved alone.
THEOREM WhitelistFollowsChangesHolds == Spec => []WhitelistFollowsChanges
<1>1. WhitelistInv => WhitelistFollowsChanges
  <2> SUFFICES ASSUME WhitelistInv, NEW ip \in Ips,
                      whitelist.valid, ip \notin raced,
                      ~(mgr.pc # "idle" /\ mgr.ip = ip),
                      ~UnderWay("agent", ip), ip \notin missed["agent"]
               PROVE  ip \in whitelist.ips <=> ip \in listed
    BY DEF WhitelistFollowsChanges
  <2>1. /\ ~Waits(inbox["agent"], ip, Changes)
        /\ agent.pc = "idle" \/ agent.ip # ip
    BY NothingUnderWay DEF Enforcers
  <2>2. ~Changing(ip) /\ ~MgrAhead(ip)
    BY <2>1 DEF Changing, MgrAhead
  <2>3. FileToBe = whitelist.ips
    BY DEF WhitelistInv, FileInv, FileToBe
  <2> QED
    BY <2>1, <2>2, <2>3 DEF WhitelistInv, ChangeArrives
<1> QED
  BY <1>1, WhitelistAlways, PTL

\* The chain of a client host drops no address of its whitelist, but for one a
\* command or a message is at work on, one whose message was missed or whose
\* iptables command failed, and one the file may have wrong after overlapping
\* saves, a death in one, or a stale copy (src/v4/client/7-iptables-agent.py,
\* "ip is whitelisted; block denied").
THEOREM WhitelistedNotBlockedHolds == Spec => []WhitelistedNotBlocked
<1>1. WhitelistInv => WhitelistedNotBlocked
  <2> SUFFICES ASSUME WhitelistInv, NEW ip \in Ips,
                      whitelist.valid, ip \in whitelist.ips, ip \notin raced,
                      ip \in rules["agent"],
                      ~(mgr.pc # "idle" /\ mgr.ip = ip),
                      ~UnderWay("agent", ip), ip \notin missed["agent"]
               PROVE  ip \in skipped["agent"]
    BY DEF WhitelistedNotBlocked
  <2>1. /\ ~Waits(inbox["agent"], ip, {"add"})
        /\ agent.pc = "idle" \/ agent.ip # ip
    BY NothingUnderWay DEF Enforcers
  <2>2. ~AddDue(ip)
    BY <2>1 DEF AddDue, MgrAhead
  <2>3. ip \in FileToBe
    BY DEF WhitelistInv, FileInv, FileToBe
  <2> QED
    BY <2>2, <2>3 DEF WhitelistInv, ReleaseDue
<1> QED
  BY <1>1, WhitelistAlways, PTL

\* The agent of the client host and the listener of the border host drop the
\* same addresses when they have handled what they heard, but for those they
\* missed, refused or failed on (src/v4/client/7-iptables-agent.py on_message,
\* src/v4/server/listen-to-mosquitto.py apply_action), whoever sends and however
\* often they die, reboot and start again.
THEOREM EnforcersAgreeHolds == Spec => []EnforcersAgree
<1>1. AgreeInv => EnforcersAgree
  <2> SUFFICES ASSUME AgreeInv, NEW ip \in Ips,
                      \A e \in Enforcers : /\ ~UnderWay(e, ip)
                                           /\ ip \notin missed[e] \cup skipped[e]
               PROVE  ip \in rules["agent"] <=> ip \in rules["listener"]
    BY DEF EnforcersAgree
  <2>1. ASSUME NEW e \in Enforcers
        PROVE  /\ ip \notin missed[e] /\ ~InDoubt(e, ip)
               /\ WillDrop(e, ip) <=> ip \in rules[e]
    <3>1. ~Waits(inbox[e], ip, Orders) /\ ~Carrying(e, ip)
      BY NothingUnderWay DEF Carrying
    <3> QED
      BY <3>1 DEF InDoubt, WillDrop
  <2> QED
    BY <2>1 DEF AgreeInv, WillAgree, Enforcers
<1> QED
  BY <1>1, AgreeAlways, PTL
=============================================================================
