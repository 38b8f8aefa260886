-------------------------- MODULE AgentNodeProofs --------------------------
(***************************************************************************)
(* AgentNode for any addresses, ttls, limits and bounds: its types; the    *)
(* two promises of the outbox, that nothing is announced before it was     *)
(* tried locally and that the announced feed has no gap; and that the      *)
(* kernel rules, the rows of the table and the allowlist agree.            *)
(***************************************************************************)
EXTENDS AgentNode, FiniteSetTheorems, SequenceTheorems, TLAPS

\* The inductive invariant.
AgentInv == TypeOK /\ FeedInv

\* The rows of table outbox, the frames, and where main can be.
Rows == [ip : IPs, applied : BOOLEAN, published : BOOLEAN]
Frames == [ip : IPs \cup {NoIP}, ttl : Nat, kind : Kind, list : SUBSET IPs]
Reaping == pc["main"] \in {"reap", "reaped"}

----------------------------------------------------------------------------
(* Operators the actions are built from.                                   *)

LEMMA EffectiveTtlType == \A ttl \in Nat : EffectiveTtl(ttl) \in Nat \ {0}
BY ConstantsAssumption DEF EffectiveTtl

LEMMA RuleEndType ==
    ASSUME TablesOK, NEW ttl \in Nat
    PROVE  RuleEnd(ttl) \in Nat
BY ConstantsAssumption DEF TablesOK, RuleEnd, Lower, Forever

LEMMA NewRowType ==
    ASSUME TablesOK, NEW ip, NEW ttl \in Nat
    PROVE  NewRow(ip, ttl) \in [active : BOOLEAN, expires : Nat]
BY ConstantsAssumption DEF TablesOK, NewRow

LEMMA FunctionIsSeq ==
    ASSUME NEW S, NEW n \in Nat, NEW s \in [1..n -> S]
    PROVE  s \in Seq(S)
BY SeqDef

\* A listing of a set is a sequence over it.
LEMMA ListingsType ==
    ASSUME NEW S, NEW s \in Listings(S), IsFiniteSet(S)
    PROVE  s \in Seq(S) /\ DOMAIN s = 1..Cardinality(S)
BY FS_CardinalityType, SeqDef DEF Listings

LEMMA OutboxDomain ==
    TablesOK => /\ Len(outbox) \in Nat
                /\ DOMAIN outbox = 1..Len(outbox)
                /\ DOMAIN outbox \subseteq Nat
                /\ outbox \in [DOMAIN outbox -> Rows]
<1> SUFFICES ASSUME TablesOK PROVE /\ Len(outbox) \in Nat
                                   /\ DOMAIN outbox = 1..Len(outbox)
                                   /\ outbox \in [DOMAIN outbox -> Rows]
  OBVIOUS
<1> QED
  BY LenProperties DEF TablesOK, Rows

LEMMA PendingFinite == TablesOK => IsFiniteSet(Pending) /\ IsFiniteSet(Page)
<1> SUFFICES ASSUME TablesOK PROVE IsFiniteSet(Pending) /\ IsFiniteSet(Page)
  OBVIOUS
<1>1. Len(outbox) \in Int /\ DOMAIN outbox = 1..Len(outbox)
  BY OutboxDomain
<1>2. IsFiniteSet(1..Len(outbox))
  BY <1>1, FS_Interval
<1>3. Pending \in SUBSET (1..Len(outbox)) /\ Page \in SUBSET (1..Len(outbox))
  BY <1>1 DEF Pending, Page
<1> QED
  BY <1>2, <1>3, FS_Subset

\* The page is an initial part of what is pending.
LEMMA PageIsPrefix ==
    ASSUME TablesOK, NEW i \in Page, NEW j \in Pending, j < i
    PROVE  j \in Page
<1> DEFINE below(k) == {x \in Pending : x < k}
<1>1. Pending \subseteq Nat /\ i \in Nat /\ j \in Nat
  BY OutboxDomain DEF Pending, Page
<1>2. below(j) \in SUBSET below(i)
  <2>1. \A x \in Pending : x < j => x < i
    BY <1>1
  <2> QED
    BY <2>1
<1>3. IsFiniteSet(below(i)) /\ IsFiniteSet(below(j))
  BY PendingFinite, FS_Subset
<1>4. Cardinality(below(j)) <= Cardinality(below(i))
  BY <1>2, <1>3, FS_Subset
<1>5. Cardinality(below(i)) < PumpLimit
  BY DEF Page
<1>6. Cardinality(below(j)) \in Nat /\ Cardinality(below(i)) \in Nat
  BY <1>3, FS_CardinalityType
<1>7. Cardinality(below(j)) < PumpLimit
  BY <1>4, <1>5, <1>6, ConstantsAssumption
<1> QED
  BY <1>7 DEF Page

\* The history variables keep their type whatever happens.
LEMMA CausesType == ASSUME NEW failed, Causes(failed) PROVE HistoryOK'
BY DEF Causes, HistoryOK

----------------------------------------------------------------------------
LEMMA InitAgentInv == Init => AgentInv
<1> SUFFICES ASSUME Init PROVE AgentInv
  OBVIOUS
<1>1. TablesOK
  BY ConstantsAssumption DEF Init, TablesOK, NoRule
<1>2. ThreadsOK /\ SyncOK /\ TodoOK /\ HistoryOK
  BY ConstantsAssumption DEF Init, ThreadsOK, SyncOK, TodoOK, HistoryOK,
     NoFrame, Threads, Label, Kind
<1>3. FeedInv
  BY DEF Init, FeedInv, AtRow, Pumping, AppliedBeforeSent, FeedHasNoGap
<1> QED
  BY <1>1, <1>2, <1>3 DEF AgentInv, TypeOK

----------------------------------------------------------------------------
(* Type correctness, action by action.  FeedInv tells where the list of    *)
(* main is not empty.                                                      *)

\* Every step records its causes.
LEMMA HistoryStep == [Next]_vars /\ HistoryOK => HistoryOK'
<1> SUFFICES ASSUME Next \/ UNCHANGED vars, HistoryOK PROVE HistoryOK'
  OBVIOUS
<1>1. CASE UNCHANGED vars
  BY <1>1 DEF vars, history, HistoryOK
<1>2. CASE MainStep
  BY <1>2, CausesType
     DEF MainStep, EnforceBlock, RebuildGuard, CheckGuard, FirewallBlock,
         UpsertBlock, BuildGuard, AssignGuard, StartPump, NextRow,
         MarkApplied, PublishOk, PublishError, MarkPublished, StartExpire,
         SkipExpire, ReapRule, ReapRow, OwnIpChanged, OwnIpUnchanged,
         CauseHistory
<1>3. CASE HandlerStep
  BY <1>3, CausesType
     DEF HandlerStep, EnforceBlock, RebuildGuard, CheckGuard, FirewallBlock,
         UpsertBlock, BuildGuard, AssignGuard, NextEntry, Unblock,
         DeactivateBlock, CauseHistory
<1>4. CASE Delivery
  BY <1>4, CausesType
     DEF Delivery, EventBlock, EventUnblock, EventAllowAdd, EventAllowRemove,
         EventIpChange, EventSyncState, CauseHistory
<1>5. CASE Environment
  BY <1>5, CausesType DEF Environment, Detect, Tick, Crash, Reboot,
                          CauseHistory
<1>6. CASE Restart
  BY <1>6, CausesType DEF Restart, Start
<1> QED
  BY <1>1, <1>2, <1>3, <1>4, <1>5, <1>6 DEF Next

\* The heads of the lists of main.
LEMMA TodoHead ==
    ASSUME AgentInv
    PROVE  /\ AtRow => /\ Head(todo) \in DOMAIN outbox
                       /\ Tail(todo) \in Seq(DOMAIN outbox)
           /\ pc["main"] = "reaped" => /\ Head(todo) \in IPs
                                       /\ Tail(todo) \in Seq(IPs)
BY HeadTailProperties DEF AgentInv, TypeOK, TodoOK, FeedInv, AtRow

LEMMA TablesStep ==
    ASSUME AgentInv, [Next]_vars
    PROVE  TablesOK'
<1> DEFINE tables == <<backend, now, blocks, allowlist, guard, outbox, kernel,
                       sent, crashes, ipChanges>>
<1> USE ConstantsAssumption DEF AgentInv, TypeOK
<1>1. UNCHANGED tables => TablesOK'
  BY DEF TablesOK
<1>2. ASSUME NEW t \in Threads, EnforceBlock(t) PROVE TablesOK'
  <2>1. CASE CheckGuard(t)
    BY <1>1, <2>1 DEF CheckGuard, store, bounded
  <2>2. CASE FirewallBlock(t)
    <3>1. RuleEnd(EffectiveTtl(frame[t].ttl)) \in Nat
      BY EffectiveTtlType, RuleEndType DEF ThreadsOK
    <3> QED
      BY <2>2, <3>1 DEF FirewallBlock, TablesOK, store, bounded
  <2>3. CASE UpsertBlock(t)
    <3>1. NewRow(frame[t].ip, EffectiveTtl(frame[t].ttl))
             \in [active : BOOLEAN, expires : Nat]
      BY EffectiveTtlType, NewRowType DEF ThreadsOK
    <3> QED
      BY <2>3, <3>1 DEF UpsertBlock, TablesOK, bounded
  <2> QED
    BY <1>2, <2>1, <2>2, <2>3 DEF EnforceBlock
<1>3. ASSUME NEW t \in Threads, RebuildGuard(t) PROVE TablesOK'
  <2>1. CASE BuildGuard(t)
    BY <1>1, <2>1 DEF BuildGuard, store, bounded
  <2>2. CASE AssignGuard(t)
    BY <2>2 DEF AssignGuard, TablesOK, ThreadsOK, store, bounded
  <2> QED
    BY <1>3, <2>1, <2>2 DEF RebuildGuard
<1>4. CASE MarkApplied \/ MarkPublished
  <2>1. Head(todo) \in DOMAIN outbox
    BY <1>4, TodoHead DEF MarkApplied, MarkPublished, AtRow
  <2>2. PICK row \in Rows : outbox' = [outbox EXCEPT ![Head(todo)] = row]
    <3>1. outbox[Head(todo)] \in Rows
      BY <2>1, OutboxDomain
    <3> QED
      BY <1>4, <3>1 DEF MarkApplied, MarkPublished, Rows
  <2>3. outbox' \in Seq(Rows) /\ DOMAIN outbox' = DOMAIN outbox
    <3>1. outbox \in Seq(Rows) /\ Head(todo) \in 1..Len(outbox)
      BY <2>1, OutboxDomain DEF TablesOK, Rows
    <3>2. outbox' \in Seq(Rows) /\ Len(outbox') = Len(outbox)
      BY <2>2, <3>1, ExceptSeq
    <3> QED
      BY <3>1, <3>2, LenProperties
  <2> QED
    BY <1>4, <2>3 DEF MarkApplied, MarkPublished, TablesOK, Rows, bounded
<1>5. CASE PublishOk \/ PublishError
  <2>1. Head(todo) \in DOMAIN outbox
    BY <1>5, TodoHead DEF PublishOk, PublishError, AtRow
  <2> QED
    BY <1>5, <2>1 DEF PublishOk, PublishError, TablesOK, store, bounded
<1>6. CASE ReapRule
  BY SMTT(30), <1>6 DEF ReapRule, TablesOK, NoRule, store, bounded
<1>7. CASE ReapRow
  BY <1>7 DEF ReapRow, TablesOK, bounded
<1>8. CASE OwnIpChanged
  BY <1>8 DEF OwnIpChanged, TablesOK, store
<1>9. CASE StartPump \/ NextRow \/ StartExpire \/ SkipExpire \/ OwnIpUnchanged
  BY <1>1, <1>9 DEF StartPump, NextRow, StartExpire, SkipExpire,
                    OwnIpUnchanged, store, bounded
<1>10. CASE NextEntry \/ Unblock \/ DeactivateBlock
  <2>1. CASE NextEntry
    BY <1>1, <2>1 DEF NextEntry, store, bounded
  <2>2. CASE Unblock
    <3>1. kernel' = kernel \/ kernel' = [kernel EXCEPT ![frame["mqtt"].ip] = 0]
      BY <2>2 DEF Unblock, NoRule
    <3>2. kernel' \in [IPs -> Nat]
      BY SMTT(30), <3>1 DEF TablesOK
    <3> QED
      BY <2>2, <3>2 DEF Unblock, TablesOK, store, bounded
  <2>3. CASE DeactivateBlock
    BY <2>3 DEF DeactivateBlock, TablesOK, bounded
  <2> QED
    BY <1>10, <2>1, <2>2, <2>3
<1>11. CASE Delivery
  BY <1>11 DEF Delivery, EventBlock, EventUnblock, EventAllowAdd,
               EventAllowRemove, EventIpChange, EventSyncState, TablesOK,
               store, bounded
<1>12. ASSUME NEW ip \in IPs, Detect(ip) PROVE TablesOK'
  <2>1. /\ outbox' \in Seq([ip : IPs, applied : BOOLEAN, published : BOOLEAN])
        /\ DOMAIN outbox \subseteq DOMAIN outbox'
    BY SMTT(30), <1>12 DEF Detect, TablesOK
  <2> QED
    BY <1>12, <2>1 DEF Detect, TablesOK, bounded
<1>13. CASE Tick
  BY <1>13 DEF Tick, TablesOK, store, bounded
<1>14. CASE Crash \/ Reboot
  <2>1. kernel' \in [IPs -> Nat]
    BY <1>14 DEF Crash, Reboot, NoRule, TablesOK
  <2>2. /\ UNCHANGED <<backend, now, blocks, allowlist, outbox, guard, sent,
                       ipChanges>>
        /\ crashes < MaxCrashes /\ crashes' = crashes + 1
    BY <1>14 DEF Crash, Reboot, Stop, store
  <2>3. crashes' \in 0..MaxCrashes
    BY <2>2 DEF TablesOK
  <2> QED
    BY <2>1, <2>2, <2>3 DEF TablesOK
<1>15. ASSUME NEW failed \in SUBSET IPs, Start(failed) PROVE TablesOK'
  <2>1. ASSUME NEW ip \in IPs, Live(ip)
        PROVE  RuleEnd(blocks[ip].expires - now) \in Nat
    <3>1. blocks[ip].expires - now \in Nat
      BY <2>1 DEF Live, TablesOK
    <3> QED
      BY <3>1, RuleEndType
  <2>2. Reconciled(failed) \in [IPs -> Nat]
    BY <2>1 DEF Reconciled, TablesOK
  <2> QED
    BY <1>15, <2>2 DEF Start, TablesOK, store, bounded
<1>16. CASE UNCHANGED vars
  BY <1>1, <1>16 DEF vars, store, bounded
<1> QED
  BY <1>2, <1>3, <1>4, <1>5, <1>6, <1>7, <1>8, <1>9, <1>10, <1>11, <1>12,
     <1>13, <1>14, <1>15, <1>16
     DEF Next, MainStep, HandlerStep, Environment, Restart, Threads

\* Where a thread goes is a label, and its frame a fresh or a typed one.
LEMMA ThreadsStep ==
    ASSUME AgentInv, [Next]_vars
    PROVE  ThreadsOK'
<1> USE DEF AgentInv, TypeOK
<1>0. ASSUME NEW t \in Threads, NEW label \in Label,
             \/ Goto(t, label) /\ UNCHANGED frame
             \/ Leave(t, label)
      PROVE  ThreadsOK'
  BY <1>0, ConstantsAssumption DEF ThreadsOK, Goto, Leave, NoFrame, Kind
<1> USE DEF Threads
<1>1. ASSUME NEW t \in Threads, EnforceBlock(t) PROVE ThreadsOK'
  <2>1. AfterBlock(t) \in Label /\ {"block", "upsert"} \subseteq Label
    BY DEF AfterBlock, Label
  <2>2. \E label \in Label : \/ Goto(t, label) /\ UNCHANGED frame
                            \/ Leave(t, label)
    BY <1>1, <2>1
       DEF EnforceBlock, CheckGuard, FirewallBlock, UpsertBlock
  <2> QED
    BY <1>0, <2>2
<1>2. ASSUME NEW t \in Threads, RebuildGuard(t) PROVE ThreadsOK'
  <2>1. CASE BuildGuard(t)
    BY <2>1 DEF BuildGuard, ThreadsOK, TablesOK, Goto, Label
  <2>2. CASE AssignGuard(t)
    <3>1. \/ Goto(t, "unblock") /\ frame' = [frame EXCEPT ![t].list = {}]
          \/ \E label \in Label : Leave(t, label)
      BY <2>2 DEF AssignGuard, Label
    <3>2. ASSUME Goto(t, "unblock"), frame' = [frame EXCEPT ![t].list = {}]
          PROVE  ThreadsOK'
      BY <3>2 DEF ThreadsOK, Goto, Label
    <3> QED
      BY <1>0, <3>1, <3>2
  <2> QED
    BY <1>2, <2>1, <2>2 DEF RebuildGuard
<1>3. CASE NextRow
  <2>1. CASE todo = <<>> \/ outbox[Head(todo)].applied
    BY <1>0, <1>3, <2>1 DEF NextRow, Label
  <2>2. CASE todo # <<>> /\ ~outbox[Head(todo)].applied
    <3>1. Head(todo) \in DOMAIN outbox
      BY <1>3, <2>2, HeadTailProperties DEF NextRow, TodoOK
    <3>2. outbox[Head(todo)].ip \in IPs
      BY <3>1, OutboxDomain DEF Rows
    <3> QED
      BY <1>3, <2>2, <3>2
         DEF NextRow, ThreadsOK, Goto, NoFrame, Label, Kind
  <2> QED
    BY <2>1, <2>2
<1>4. CASE \/ StartPump \/ MarkApplied \/ PublishOk \/ PublishError
           \/ MarkPublished \/ StartExpire \/ SkipExpire \/ ReapRule
           \/ ReapRow \/ OwnIpChanged \/ OwnIpUnchanged
  <2>1. \E label \in Label : Goto("main", label) /\ UNCHANGED frame
    BY <1>4 DEF StartPump, MarkApplied, PublishOk, PublishError,
                MarkPublished, StartExpire, SkipExpire, ReapRule, ReapRow,
                OwnIpChanged, OwnIpUnchanged, Label
  <2> QED
    BY <1>0, <2>1
<1>5. CASE NextEntry
  <2>1. CASE entries = <<>>
    BY <1>0, <1>5, <2>1 DEF NextEntry, Label
  <2>2. CASE entries # <<>>
    <3> DEFINE e == Head(entries)
    <3>1. e \in [ip : IPs, expires : Nat]
      BY <2>2, HeadTailProperties DEF SyncOK
    <3>2. StillAhead(e) => e.expires - startedAt \in Nat
      BY <3>1, ConstantsAssumption DEF StillAhead, SyncOK
    <3>3. CASE StillAhead(e) /\ ~blocks[e.ip].active
      <4> DEFINE f == [NoFrame EXCEPT !.ip = e.ip,
                                      !.ttl = e.expires - startedAt]
      <4>1. f \in Frames
        BY <3>1, <3>2, <3>3 DEF NoFrame, Frames, Kind
      <4>2. Goto("mqtt", "check") /\ frame' = [frame EXCEPT !["mqtt"] = f]
        BY <1>5, <2>2, <3>3 DEF NextEntry
      <4> QED
        BY <4>1, <4>2 DEF ThreadsOK, Goto, Label, Frames
    <3>4. CASE ~(StillAhead(e) /\ ~blocks[e.ip].active)
      BY <1>5, <2>2, <3>4 DEF NextEntry, ThreadsOK
    <3> QED
      BY <3>3, <3>4
  <2> QED
    BY <2>1, <2>2
<1>6. CASE Unblock \/ DeactivateBlock
  <2>1. \E label \in Label : \/ Goto("mqtt", label) /\ UNCHANGED frame
                            \/ Leave("mqtt", label)
    BY <1>6 DEF Unblock, DeactivateBlock, Label
  <2> QED
    BY <1>0, <2>1
<1>7. CASE Delivery
  <2>1. \E label \in Label, kind \in Kind, ip \in IPs \cup {NoIP}, ttl \in Nat :
           Begin(label, kind, ip, ttl)
    BY <1>7, ConstantsAssumption
       DEF Delivery, EventBlock, EventUnblock, EventAllowAdd,
           EventAllowRemove, EventIpChange, EventSyncState, Label, Kind
  <2> QED
    <3>1. PICK label \in Label, kind \in Kind, ip \in IPs \cup {NoIP},
               ttl \in Nat : Begin(label, kind, ip, ttl)
      BY <2>1
    <3> DEFINE f == [NoFrame EXCEPT !.kind = kind, !.ip = ip, !.ttl = ttl]
    <3>2. f \in Frames
      BY DEF NoFrame, Frames
    <3>3. Goto("mqtt", label) /\ frame' = [frame EXCEPT !["mqtt"] = f]
      BY <3>1 DEF Begin
    <3> QED
      BY <3>2, <3>3 DEF ThreadsOK, Goto, Frames
<1>8. CASE \/ \E ip \in IPs : Detect(ip)
           \/ Tick \/ UNCHANGED vars
  BY <1>8 DEF Detect, Tick, vars, locals, ThreadsOK
<1>9. CASE Crash \/ Reboot
  BY <1>9 DEF Crash, Reboot, Stop, ThreadsOK, NoFrame, Label, Kind
<1>10. CASE Restart
  BY <1>10 DEF Restart, Start, ThreadsOK, Label
<1> QED
  BY <1>1, <1>2, <1>3, <1>4, <1>5, <1>6, <1>7, <1>8, <1>9, <1>10
     DEF Next, MainStep, HandlerStep, Environment

LEMMA SyncStep ==
    ASSUME AgentInv, [Next]_vars
    PROVE  SyncOK'
<1> USE ConstantsAssumption DEF AgentInv, TypeOK
<1>1. UNCHANGED <<entries, startedAt>> => SyncOK'
  BY DEF SyncOK
<1>2. CASE MainStep
  BY <1>1, <1>2
     DEF MainStep, EnforceBlock, RebuildGuard, CheckGuard, FirewallBlock,
         UpsertBlock, BuildGuard, AssignGuard, StartPump, NextRow,
         MarkApplied, PublishOk, PublishError, MarkPublished, StartExpire,
         SkipExpire, ReapRule, ReapRow, OwnIpChanged, OwnIpUnchanged
<1>3. CASE NextEntry
  <2>1. CASE entries = <<>>
    BY <1>3, <2>1 DEF NextEntry, SyncOK
  <2>2. CASE entries # <<>>
    <3>1. Tail(entries) \in Seq([ip : IPs, expires : Nat])
      BY <2>2, HeadTailProperties DEF SyncOK
    <3>2. entries' = Tail(entries) /\ startedAt' = startedAt
      BY <1>3, <2>2 DEF NextEntry
    <3> QED
      BY <3>1, <3>2 DEF SyncOK
  <2> QED
    BY <2>1, <2>2
<1>4. CASE \/ EnforceBlock("mqtt") \/ RebuildGuard("mqtt") \/ Unblock
           \/ DeactivateBlock
  BY <1>1, <1>4
     DEF EnforceBlock, RebuildGuard, CheckGuard, FirewallBlock, UpsertBlock,
         BuildGuard, AssignGuard, Unblock, DeactivateBlock
<1>5. ASSUME NEW list \in SyncLists, EventSyncState(list) PROVE SyncOK'
  <2>1. list \in Seq([ip : IPs, expires : Nat])
    <3>1. PICK n \in 1..Cardinality(IPs) :
             list \in [1..n -> [ip : IPs, expires : 1..MaxTime]]
      BY DEF SyncLists
    <3>0. n \in Nat
      BY FS_CardinalityType
    <3>2. list \in [1..n -> [ip : IPs, expires : Nat]]
      BY <3>1
    <3> QED
      BY <3>0, <3>2, FunctionIsSeq
  <2> QED
    BY <1>5, <2>1 DEF EventSyncState, SyncOK, TablesOK
<1>6. CASE \/ EventIpChange
           \/ \E ip \in IPs : \/ \E ttl \in EventTtls : EventBlock(ip, ttl)
                              \/ EventUnblock(ip) \/ EventAllowAdd(ip)
                              \/ EventAllowRemove(ip)
  BY <1>1, <1>6 DEF EventBlock, EventUnblock, EventAllowAdd,
                    EventAllowRemove, EventIpChange
<1>7. CASE Environment
  <2>1. CASE Crash \/ Reboot
    <3>1. entries' = <<>> /\ startedAt' = 0
      BY <2>1 DEF Crash, Reboot, Stop
    <3>2. 0 \in 0..MaxTime
      OBVIOUS
    <3> QED
      BY <3>1, <3>2 DEF SyncOK
  <2>2. CASE Tick \/ \E ip \in IPs : Detect(ip)
    BY <1>1, <2>2 DEF Detect, Tick, locals
  <2> QED
    BY <1>7, <2>1, <2>2 DEF Environment
<1>8. CASE Restart \/ UNCHANGED vars
  BY <1>1, <1>8 DEF Restart, Start, vars, locals
<1> QED
  BY <1>2, <1>3, <1>4, <1>5, <1>6, <1>7, <1>8 DEF Next, HandlerStep, Delivery

\* What main's list holds when it starts on it, and while it works on it.
LEMMA TodoStep ==
    ASSUME AgentInv, [Next]_vars
    PROVE  TodoOK'
<1> USE DEF AgentInv, TypeOK
<1>1. ASSUME UNCHANGED todo, DOMAIN outbox \subseteq DOMAIN outbox',
             Reaping' <=> Reaping
      PROVE  TodoOK'
  BY <1>1, SeqMonotonic DEF TodoOK, Reaping
<1>2. ASSUME todo' = <<>> PROVE TodoOK'
  BY <1>2 DEF TodoOK
<1>3. ASSUME NEW t \in Threads, EnforceBlock(t) \/ RebuildGuard(t)
      PROVE  TodoOK'
  <2>1. UNCHANGED <<todo, outbox>>
    BY <1>3 DEF EnforceBlock, RebuildGuard, CheckGuard, FirewallBlock,
                UpsertBlock, BuildGuard, AssignGuard, store
  <2>2. Reaping' <=> Reaping
    BY <1>3 DEF EnforceBlock, RebuildGuard, CheckGuard, FirewallBlock,
                UpsertBlock, BuildGuard, AssignGuard, Goto, Leave, AfterBlock,
                Reaping, ThreadsOK, Threads
  <2> QED
    BY <1>1, <2>1, <2>2
<1>4. CASE StartPump
  <2>1. todo' \in Listings(Page) /\ UNCHANGED outbox /\ ~Reaping'
    BY <1>4 DEF StartPump, store, Goto, Reaping, ThreadsOK, Threads
  <2>2. todo' \in Seq(Page)
    BY <2>1, PendingFinite, ListingsType
  <2>3. Page \subseteq DOMAIN outbox
    BY DEF Page, Pending
  <2> QED
    BY <2>1, <2>2, <2>3, SeqMonotonic DEF TodoOK, Reaping
<1>5. CASE StartExpire
  <2>1. todo' \in Listings(Expired) /\ Reaping'
    BY <1>5 DEF StartExpire, Goto, Reaping, ThreadsOK, Threads
  <2>2. Expired \in SUBSET IPs /\ IsFiniteSet(Expired)
    BY ConstantsAssumption, FS_Subset DEF Expired
  <2> QED
    BY <2>1, <2>2, ListingsType, SeqMonotonic DEF TodoOK, Reaping
<1>6. CASE NextRow \/ PublishOk \/ SkipExpire \/ OwnIpChanged \/ OwnIpUnchanged
  BY <1>1, <1>6 DEF NextRow, PublishOk, SkipExpire, OwnIpChanged,
                    OwnIpUnchanged, store, Goto, Leave, Reaping, ThreadsOK,
                    Threads
<1>7. CASE PublishError \/ Crash \/ Reboot
  BY <1>2, <1>7 DEF PublishError, Crash, Reboot, Stop
<1>8. CASE MarkApplied \/ MarkPublished
  <2>1. /\ Head(todo) \in DOMAIN outbox /\ todo \in Seq(DOMAIN outbox)
        /\ Tail(todo) \in Seq(DOMAIN outbox)
    BY <1>8, TodoHead DEF MarkApplied, MarkPublished, AtRow, TodoOK
  <2>2. DOMAIN outbox' = DOMAIN outbox
    BY <1>8 DEF MarkApplied, MarkPublished
  <2>3. ~Reaping'
    BY <1>8 DEF MarkApplied, MarkPublished, Goto, Reaping, ThreadsOK, Threads
  <2>4. todo' \in {todo, Tail(todo)}
    BY <1>8 DEF MarkApplied, MarkPublished
  <2> QED
    BY <2>1, <2>2, <2>3, <2>4 DEF TodoOK, Reaping
<1>9. CASE ReapRule
  <2>1. CASE todo = <<>>
    BY <1>2, <1>9, <2>1 DEF ReapRule
  <2>2. CASE todo # <<>>
    BY <1>1, <1>9, <2>2 DEF ReapRule, store, Goto, Reaping, ThreadsOK, Threads
  <2> QED
    BY <2>1, <2>2
<1>10. CASE ReapRow
  <2>1. todo' \in Seq(IPs)
    BY <1>10, TodoHead DEF ReapRow
  <2>2. Reaping'
    BY <1>10 DEF ReapRow, Goto, Reaping, ThreadsOK, Threads
  <2> QED
    BY <2>1, <2>2 DEF TodoOK, Reaping
<1>11. CASE NextEntry \/ Unblock \/ DeactivateBlock
  <2>1. UNCHANGED <<todo, outbox>>
    BY <1>11 DEF NextEntry, Unblock, DeactivateBlock, store
  <2>2. pc'["main"] = pc["main"]
    BY <1>11 DEF NextEntry, Unblock, DeactivateBlock, Goto, Leave, ThreadsOK,
                 Threads
  <2> QED
    BY <1>1, <2>1, <2>2 DEF Reaping
<1>12. CASE Delivery
  <2>1. UNCHANGED <<todo, outbox>>
    BY SMTT(30), <1>12 DEF Delivery, EventBlock, EventUnblock, EventAllowAdd,
                 EventAllowRemove, EventIpChange, EventSyncState, store
  <2>2. \E label : Goto("mqtt", label)
    BY <1>12 DEF Delivery, EventBlock, EventUnblock, EventAllowAdd,
                 EventAllowRemove, EventIpChange, EventSyncState, Begin
  <2>3. pc'["main"] = pc["main"]
    BY <2>2 DEF Goto, ThreadsOK, Threads
  <2> QED
    BY <1>1, <2>1, <2>3 DEF Reaping
<1>13. CASE \E ip \in IPs : Detect(ip)
  <2>1. DOMAIN outbox \subseteq DOMAIN outbox'
    BY <1>13 DEF Detect, TablesOK
  <2> QED
    BY <1>1, <1>13, <2>1 DEF Detect, locals, Reaping
<1>14. CASE Tick \/ UNCHANGED vars
  BY <1>1, <1>14 DEF Tick, vars, store, locals, Reaping
<1>15. CASE Restart
  BY <1>1, <1>15 DEF Restart, Start, store, Running, Reaping, ThreadsOK
<1> QED
  BY <1>3, <1>4, <1>5, <1>6, <1>7, <1>8, <1>9, <1>10, <1>11, <1>12, <1>13,
     <1>14, <1>15
     DEF Next, MainStep, HandlerStep, Environment, Threads

LEMMA TypeStep == AgentInv /\ [Next]_vars => TypeOK'
BY TablesStep, ThreadsStep, SyncStep, TodoStep, HistoryStep
   DEF AgentInv, TypeOK

----------------------------------------------------------------------------
(* FeedInv.  Three ways of leaving the feed alone come first.              *)

\* A step of somebody else.
LEMMA FeedUntouched ==
    ASSUME FeedInv, UNCHANGED <<outbox, sent, todo>>,
           pc'["main"] = pc["main"]
    PROVE  FeedInv'
BY DEF FeedInv, AtRow, Pumping, PageHasNoGap, AppliedBeforeSent, FeedHasNoGap

\* A step of main between the start of a row and its publish.
LEMMA FeedSameRow ==
    ASSUME FeedInv, UNCHANGED <<outbox, sent, todo>>, AtRow,
           pc'["main"] \in {"check", "block", "upsert", "mark_applied"}
    PROVE  FeedInv'
BY DEF FeedInv, AtRow, Pumping, PageHasNoGap, AppliedBeforeSent, FeedHasNoGap

\* A step of main to where it has no page.
LEMMA FeedNoPage ==
    ASSUME FeedInv, UNCHANGED <<outbox, sent>>, ~Pumping',
           pc'["main"] # "reaped"
    PROVE  FeedInv'
BY DEF FeedInv, AtRow, Pumping, AppliedBeforeSent, FeedHasNoGap

\* The new page has no gap: it is the initial part of what is pending, in
\* order.
LEMMA StartPumpFeed == ASSUME AgentInv, StartPump PROVE FeedInv'
<1> USE DEF AgentInv, TypeOK
<1>1. /\ todo' \in Listings(Page)
      /\ \A i, j \in DOMAIN todo' : i < j => todo'[i] < todo'[j]
      /\ UNCHANGED <<outbox, sent>>
      /\ pc'["main"] = "row"
  BY DEF StartPump, store, Goto, ThreadsOK, Threads
<1>2. todo' \in [DOMAIN todo' -> Page] /\ DOMAIN todo' = 1..Cardinality(Page)
  BY <1>1 DEF Listings
<1>3. Cardinality(Page) \in Nat
  BY PendingFinite, FS_CardinalityType
<1>4. Page \subseteq DOMAIN outbox /\ Page \subseteq Nat
  BY OutboxDomain DEF Page, Pending
<1>5. ASSUME NEW k \in DOMAIN todo', NEW j \in 1..(todo'[k] - 1),
             ~outbox[j].published
      PROVE  \E l \in 1..(k - 1) : todo'[l] = j
  <2>1. todo'[k] \in Page /\ j < todo'[k] /\ j \in Nat \ {0}
    BY <1>2, <1>4
  <2>2. j \in DOMAIN outbox
    BY <1>4, <2>1, OutboxDomain
  <2>3. j \in Page
    BY <1>5, <2>1, <2>2, PageIsPrefix DEF Pending
  <2>4. PICK l \in DOMAIN todo' : todo'[l] = j
    BY <1>1, <2>3 DEF Listings
  <2>5. ~(k < l) /\ k # l
    BY <1>1, <1>4, <2>1, <2>4
  <2> QED
    BY <1>2, <1>3, <2>4, <2>5
<1>6. PageHasNoGap'
  BY <1>1, <1>5 DEF PageHasNoGap
<1> QED
  BY <1>1, <1>6 DEF FeedInv, AtRow, Pumping, AppliedBeforeSent, FeedHasNoGap

\* Every row below the head of the page was handed to the broker.
LEMMA BelowHeadSent ==
    ASSUME AgentInv, AtRow,
           NEW j \in DOMAIN outbox, j < Head(todo)
    PROVE  outbox[j].published /\ j \in sent
<1> USE DEF AgentInv, TypeOK
<1>1. todo # <<>> /\ PageHasNoGap
  BY DEF FeedInv, Pumping
<1>2. todo \in Seq(DOMAIN outbox)
  BY DEF TodoOK, AtRow
<1>3. 1 \in DOMAIN todo /\ Head(todo) = todo[1] /\ todo[1] \in DOMAIN outbox
  BY <1>1, <1>2
<1>4. j \in 1..(todo[1] - 1)
  BY <1>3, OutboxDomain
<1>5. outbox[j].published
  BY <1>1, <1>3, <1>4 DEF PageHasNoGap
<1> QED
  BY <1>5 DEF FeedInv, FeedHasNoGap

\* A row goes to the broker, surely or perhaps.
LEMMA SendFeed ==
    ASSUME AgentInv, pc["main"] = "publish",
           sent' \in {sent, sent \cup {Head(todo)}}, UNCHANGED outbox
    PROVE  AppliedBeforeSent' /\ FeedHasNoGap'
<1>1. AtRow
  BY DEF AtRow
<1>2. outbox[Head(todo)].applied
  BY DEF AgentInv, FeedInv
<1>3. AppliedBeforeSent'
  BY <1>2 DEF AgentInv, FeedInv, AppliedBeforeSent
<1>4. \A j \in DOMAIN outbox : j < Head(todo) => j \in sent
  BY <1>1, BelowHeadSent
<1>5. FeedHasNoGap'
  BY <1>4 DEF AgentInv, FeedInv, FeedHasNoGap
<1> QED
  BY <1>3, <1>5

LEMMA PublishFeed == ASSUME AgentInv, PublishOk \/ PublishError PROVE FeedInv'
<1>1. /\ pc["main"] = "publish"
      /\ sent' \in {sent, sent \cup {Head(todo)}} /\ UNCHANGED outbox
  BY DEF PublishOk, PublishError, store
<1>2. AppliedBeforeSent' /\ FeedHasNoGap'
  BY <1>1, SendFeed
<1>3. CASE PublishOk
  <2>1. /\ sent' = sent \cup {Head(todo)} /\ UNCHANGED <<todo, outbox>>
        /\ pc'["main"] = "mark_published"
    BY <1>3 DEF PublishOk, store, Goto, AgentInv, TypeOK, ThreadsOK, Threads
  <2> QED
    BY <1>1, <1>2, <2>1
       DEF AgentInv, FeedInv, AtRow, Pumping, PageHasNoGap
<1>4. CASE PublishError
  <2>1. pc'["main"] = "periodic"
    BY <1>4 DEF PublishError, Goto, AgentInv, TypeOK, ThreadsOK, Threads
  <2> QED
    BY <1>2, <2>1 DEF FeedInv, AtRow, Pumping
<1> QED
  BY <1>3, <1>4

LEMMA NextRowFeed == ASSUME AgentInv, NextRow PROVE FeedInv'
<1>1. UNCHANGED <<outbox, sent, todo>> /\ pc["main"] = "row"
  BY DEF NextRow, store
<1>2. \/ pc'["main"] = "periodic"
      \/ todo # <<>> /\ pc'["main"] = "check"
      \/ todo # <<>> /\ outbox[Head(todo)].applied /\ pc'["main"] = "publish"
  BY DEF NextRow, Goto, Leave, AgentInv, TypeOK, ThreadsOK, Threads
<1> QED
  BY <1>1, <1>2 DEF AgentInv, FeedInv, AtRow, Pumping, PageHasNoGap,
                    AppliedBeforeSent, FeedHasNoGap

LEMMA MarkAppliedFeed == ASSUME AgentInv, MarkApplied PROVE FeedInv'
<1> DEFINE h == Head(todo)
<1>1. /\ outbox' = [outbox EXCEPT ![h].applied = TRUE]
      /\ UNCHANGED <<sent, todo>>
      /\ pc["main"] = "mark_applied" /\ pc'["main"] = "publish"
  BY DEF MarkApplied, Goto, AgentInv, TypeOK, ThreadsOK, Threads
<1>2. h \in DOMAIN outbox /\ outbox \in [DOMAIN outbox -> Rows]
  BY <1>1, TodoHead, OutboxDomain DEF AtRow, AgentInv, TypeOK
<1>3. /\ DOMAIN outbox' = DOMAIN outbox
      /\ outbox'[h].applied
      /\ \A j \in DOMAIN outbox :
            /\ outbox'[j].published = outbox[j].published
            /\ outbox[j].applied => outbox'[j].applied
  BY <1>1, <1>2 DEF Rows
<1>4. todo # <<>> /\ PageHasNoGap
  BY <1>1 DEF AgentInv, FeedInv, AtRow, Pumping
<1>5. todo \in Seq(DOMAIN outbox) /\ DOMAIN outbox = 1..Len(outbox)
      /\ Len(outbox) \in Nat
  BY <1>1, OutboxDomain DEF AgentInv, TypeOK, TodoOK
<1>6. \A k \in DOMAIN todo : todo[k] \in DOMAIN outbox
  BY <1>5
<1>7. PageHasNoGap'
  <2>1. \A k \in DOMAIN todo : \A j \in 1..(todo[k] - 1) : j \in DOMAIN outbox
    BY <1>5, <1>6
  <2> QED
    BY <1>1, <1>3, <1>4, <2>1 DEF PageHasNoGap
<1>8. AppliedBeforeSent' /\ FeedHasNoGap'
  BY <1>1, <1>3 DEF AgentInv, TypeOK, TablesOK, FeedInv, AppliedBeforeSent,
                    FeedHasNoGap
<1> QED
  BY <1>1, <1>3, <1>4, <1>7, <1>8 DEF FeedInv, AtRow, Pumping

\* A sequence without its first element.
LEMMA TailElements ==
    ASSUME NEW S, NEW s \in Seq(S), s # <<>>
    PROVE  /\ Head(s) = s[1]
           /\ \A k \in DOMAIN Tail(s) : /\ k \in Nat \ {0}
                                        /\ k + 1 \in DOMAIN s
                                        /\ Tail(s)[k] = s[k + 1]
                                        /\ Tail(s)[k] \in S
           /\ \A l \in DOMAIN s : l \in Nat \ {0, 1} => Tail(s)[l - 1] = s[l]
<1>1. /\ Len(s) \in Nat \ {0} /\ DOMAIN s = 1..Len(s)
      /\ \A k \in 1..Len(s) : s[k] \in S
  BY EmptySeq, LenProperties, ElementOfSeq
<1>2. /\ Head(s) = s[1] /\ Tail(s) \in Seq(S) /\ Len(Tail(s)) = Len(s) - 1
      /\ \A k \in 1..Len(Tail(s)) : Tail(s)[k] = s[k + 1]
  BY HeadTailProperties
<1>3. DOMAIN Tail(s) = 1..(Len(s) - 1)
  BY <1>2, LenProperties
<1>4. ASSUME NEW k \in DOMAIN Tail(s)
      PROVE  /\ k \in Nat \ {0} /\ k + 1 \in 1..Len(s)
             /\ Tail(s)[k] = s[k + 1]
  BY <1>1, <1>2, <1>3
<1>5. ASSUME NEW l \in DOMAIN s, l \in Nat \ {0, 1}
      PROVE  Tail(s)[l - 1] = s[l]
  <2>1. l - 1 \in 1..Len(Tail(s)) /\ (l - 1) + 1 = l
    BY <1>1, <1>2, <1>5
  <2> QED
    BY <1>2, <2>1
<1> QED
  BY <1>1, <1>2, <1>4, <1>5

LEMMA MarkPublishedFeed == ASSUME AgentInv, MarkPublished PROVE FeedInv'
<1> DEFINE h == Head(todo)
<1>1. /\ outbox' = [outbox EXCEPT ![h].published = TRUE]
      /\ todo' = Tail(todo) /\ UNCHANGED sent
      /\ pc["main"] = "mark_published" /\ pc'["main"] = "row"
  BY DEF MarkPublished, Goto, AgentInv, TypeOK, ThreadsOK, Threads
<1>2. h \in DOMAIN outbox /\ outbox \in [DOMAIN outbox -> Rows]
  BY <1>1, TodoHead, OutboxDomain DEF AtRow, AgentInv, TypeOK
<1>3. /\ DOMAIN outbox' = DOMAIN outbox
      /\ outbox'[h].published
      /\ \A j \in DOMAIN outbox :
            /\ outbox'[j].applied = outbox[j].applied
            /\ outbox[j].published => outbox'[j].published
            /\ outbox'[j].published => outbox[j].published \/ j = h
  BY <1>1, <1>2 DEF Rows
<1>4. todo # <<>> /\ PageHasNoGap /\ h \in sent
  BY <1>1 DEF AgentInv, FeedInv, AtRow, Pumping
<1>5. todo \in Seq(DOMAIN outbox) /\ DOMAIN outbox = 1..Len(outbox)
      /\ Len(outbox) \in Nat
  BY <1>1, OutboxDomain DEF AgentInv, TypeOK, TodoOK
<1>6. /\ h = todo[1]
      /\ \A k \in DOMAIN todo' : /\ k \in Nat \ {0} /\ k + 1 \in DOMAIN todo
                                 /\ todo'[k] = todo[k + 1]
                                 /\ todo'[k] \in DOMAIN outbox
      /\ \A l \in DOMAIN todo : l \in Nat \ {0, 1} => todo'[l - 1] = todo[l]
  BY SMTT(30), <1>1, <1>4, <1>5, TailElements
<1>7. ASSUME NEW k \in DOMAIN todo', NEW j \in 1..(todo'[k] - 1)
      PROVE  outbox'[j].published \/ \E l \in 1..(k - 1) : todo'[l] = j
  <2>1. j \in DOMAIN outbox
    BY <1>5, <1>6
  <2>2. outbox[j].published \/ \E l \in 1..k : todo[l] = j
    BY <1>4, <1>6 DEF PageHasNoGap
  <2>3. ASSUME NEW l \in 1..k, todo[l] = j
        PROVE  j = h \/ \E i \in 1..(k - 1) : todo'[i] = j
    <3>1. CASE l = 1
      BY <1>6, <2>3, <3>1
    <3>2. CASE l # 1
      <4>1. l \in DOMAIN todo /\ l \in Nat \ {0, 1} /\ l - 1 \in 1..(k - 1)
        BY SMTT(30), <1>5, <1>6, <3>2
      <4> QED
        BY <1>6, <2>3, <4>1
    <3> QED
      BY <3>1, <3>2
  <2> QED
    BY <1>3, <2>1, <2>2, <2>3
<1>8. PageHasNoGap'
  BY <1>7 DEF PageHasNoGap
<1>9. AppliedBeforeSent' /\ FeedHasNoGap'
  BY <1>1, <1>3, <1>4 DEF AgentInv, TypeOK, TablesOK, FeedInv,
                          AppliedBeforeSent, FeedHasNoGap
<1> QED
  BY <1>1, <1>8, <1>9 DEF FeedInv, AtRow, Pumping

\* The detector appends behind everything.
LEMMA DetectFeed ==
    ASSUME AgentInv, NEW ip \in IPs, Detect(ip)
    PROVE  FeedInv'
<1>1. /\ outbox' = Append(outbox, [ip |-> ip, applied |-> FALSE,
                                   published |-> FALSE])
      /\ UNCHANGED <<sent, todo, pc>>
  BY DEF Detect, locals
<1>2. Len(outbox) \in Nat /\ DOMAIN outbox = 1..Len(outbox)
      /\ sent \subseteq DOMAIN outbox /\ outbox \in Seq(Rows)
  BY OutboxDomain DEF AgentInv, TypeOK, TablesOK, Rows
<1>3. /\ DOMAIN outbox' = 1..(Len(outbox) + 1)
      /\ \A j \in DOMAIN outbox : outbox'[j] = outbox[j]
      /\ ~outbox'[Len(outbox) + 1].published
  BY <1>1, <1>2
<1>4. Pumping => todo \in Seq(DOMAIN outbox)
  BY DEF AgentInv, TypeOK, TodoOK, Pumping, AtRow
<1>5. Pumping => PageHasNoGap'
  <2> SUFFICES ASSUME Pumping, NEW k \in DOMAIN todo,
                      NEW j \in 1..(todo[k] - 1)
               PROVE  outbox'[j].published \/ \E l \in 1..(k - 1) : todo[l] = j
    BY ZenonT(40), <1>1 DEF PageHasNoGap
  <2>1. todo[k] \in DOMAIN outbox
    BY <1>4
  <2>2. j \in DOMAIN outbox
    BY <1>2, <2>1
  <2> QED
    BY <1>3, <2>2 DEF AgentInv, FeedInv, PageHasNoGap
<1>6. AppliedBeforeSent' /\ FeedHasNoGap'
  BY <1>1, <1>2, <1>3 DEF AgentInv, FeedInv, AppliedBeforeSent, FeedHasNoGap
<1>7. AtRow => Head(todo) \in DOMAIN outbox
  BY TodoHead
<1> QED
  BY <1>1, <1>3, <1>5, <1>6, <1>7 DEF AgentInv, FeedInv, AtRow, Pumping

LEMMA FeedStep ==
    ASSUME AgentInv, [Next]_vars
    PROVE  FeedInv'
<1> USE DEF AgentInv, TypeOK
<1>1. ASSUME NEW t \in Threads, EnforceBlock(t) PROVE FeedInv'
  <2>1. UNCHANGED <<outbox, sent, todo>>
    BY <1>1 DEF EnforceBlock, CheckGuard, FirewallBlock, UpsertBlock, store
  <2>2. CASE t = "main"
    <3>1. AtRow /\ pc'["main"] \in {"block", "upsert", "mark_applied"}
      BY <1>1, <2>2 DEF EnforceBlock, CheckGuard, FirewallBlock, UpsertBlock,
                        AtRow, Goto, Leave, AfterBlock, ThreadsOK, Threads
    <3> QED
      BY <2>1, <3>1, FeedSameRow
  <2>3. CASE t = "mqtt"
    <3>1. pc'["main"] = pc["main"]
      BY <1>1, <2>3 DEF EnforceBlock, CheckGuard, FirewallBlock, UpsertBlock,
                        Goto, Leave, ThreadsOK, Threads
    <3> QED
      BY <2>1, <3>1, FeedUntouched
  <2> QED
    BY <2>2, <2>3 DEF Threads
<1>2. ASSUME NEW t \in Threads, RebuildGuard(t) PROVE FeedInv'
  <2>1. UNCHANGED <<outbox, sent, todo>>
    BY <1>2 DEF RebuildGuard, BuildGuard, AssignGuard, store
  <2>2. \/ pc'["main"] = pc["main"]
        \/ pc'["main"] \in {"assign", "unblock", "loop"}
    BY <1>2 DEF RebuildGuard, BuildGuard, AssignGuard, Goto, Leave,
                ThreadsOK, Threads
  <2> QED
    BY <2>1, <2>2, FeedUntouched, FeedNoPage DEF Pumping, AtRow
<1>3. CASE StartExpire \/ SkipExpire \/ OwnIpChanged \/ OwnIpUnchanged
  <2>1. /\ UNCHANGED <<outbox, sent>>
        /\ pc'["main"] \in {"reap", "own_ip", "build", "loop"}
    BY <1>3 DEF StartExpire, SkipExpire, OwnIpChanged, OwnIpUnchanged, store,
                Goto, ThreadsOK, Threads
  <2> QED
    BY <2>1, FeedNoPage DEF Pumping, AtRow
<1>4. CASE ReapRule \/ ReapRow
  <2>1. /\ UNCHANGED <<outbox, sent>>
        /\ \/ pc'["main"] \in {"reap", "own_ip"}
           \/ pc'["main"] = "reaped" /\ todo' # <<>>
    BY <1>4 DEF ReapRule, ReapRow, store, Goto, ThreadsOK, Threads
  <2> QED
    BY <2>1 DEF FeedInv, Pumping, AtRow, AppliedBeforeSent, FeedHasNoGap
<1>5. CASE NextEntry \/ Unblock \/ DeactivateBlock
  <2>1. UNCHANGED <<outbox, sent, todo>> /\ pc'["main"] = pc["main"]
    BY SMTT(30), <1>5 DEF NextEntry, Unblock, DeactivateBlock, store, Goto, Leave,
                ThreadsOK, Threads
  <2> QED
    BY <2>1, FeedUntouched
<1>6. CASE Delivery
  <2>1. /\ UNCHANGED <<outbox, sent, todo>>
        /\ \E label : Goto("mqtt", label)
    BY <1>6 DEF Delivery, EventBlock, EventUnblock, EventAllowAdd,
                EventAllowRemove, EventIpChange, EventSyncState, Begin, store
  <2>2. pc'["main"] = pc["main"]
    BY <2>1 DEF Goto, ThreadsOK, Threads
  <2> QED
    BY SMTT(30), <2>1, <2>2, FeedUntouched
<1>7. CASE Tick \/ UNCHANGED vars
  BY <1>7, FeedUntouched DEF Tick, vars, store, locals
<1>8. CASE Crash \/ Reboot \/ Restart
  <2>1. UNCHANGED <<outbox, sent>> /\ pc'["main"] \in {"down", "loop"}
    BY <1>8 DEF Crash, Reboot, Stop, Restart, Start, store, Threads
  <2> QED
    BY <2>1, FeedNoPage DEF Pumping, AtRow
<1>9. CASE \/ StartPump \/ NextRow \/ MarkApplied \/ PublishOk
           \/ PublishError \/ MarkPublished
           \/ \E ip \in IPs : Detect(ip)
  BY <1>9, StartPumpFeed, NextRowFeed, MarkAppliedFeed, PublishFeed,
     MarkPublishedFeed, DetectFeed
<1> QED
  BY <1>1, <1>2, <1>3, <1>4, <1>5, <1>6, <1>7, <1>8, <1>9
     DEF Next, MainStep, HandlerStep, Environment, Threads

----------------------------------------------------------------------------
\* The types and the progress of the page are inductive together.
THEOREM AgentInvariance == Spec => []AgentInv
<1>1. AgentInv /\ [Next]_vars => AgentInv'
  BY TypeStep, FeedStep DEF AgentInv
<1> QED
  BY InitAgentInv, <1>1, PTL DEF Spec

\* The variables of AgentNode keep their types.
THEOREM TypeInvariance == Spec => []TypeOK
<1>1. AgentInv => TypeOK
  BY DEF AgentInv
<1> QED
  BY <1>1, AgentInvariance, PTL

\* A detection is never announced before this node tried to enforce it,
\* through failing commands, refusals, publish errors and crashes.
THEOREM LocalBeforeGrid == Spec => []AppliedBeforeSent
<1>1. AgentInv => AppliedBeforeSent
  BY DEF AgentInv, FeedInv
<1> QED
  BY <1>1, AgentInvariance, PTL

\* What is marked published was handed to the broker, and detections reach
\* the broker in the order in which they were made, for every page size.
THEOREM FeedIsGapless == Spec => []FeedHasNoGap
<1>1. AgentInv => FeedHasNoGap
  BY DEF AgentInv, FeedInv
<1> QED
  BY <1>1, AgentInvariance, PTL
-----------------------------------------------------------------------------
(* Rules, rows and the allowlist agree but for the recorded causes.  As    *)
(* long as an address has no cause on record, at most one thread works on  *)
(* it, so what a thread found or did a step ago still holds.               *)

\* Between rule and row: the rule is in and the row is not yet, or the rule is
\* out and the row is still there.
Installing(t, ip) == pc[t] = "upsert" /\ frame[t].ip = ip
Removed(t, ip) ==
    \/ pc[t] = "deactivate" /\ frame[t].ip = ip
    \/ pc[t] = "reaped" /\ Head(todo) = ip

\* A rule has its row, or a thread is about to write it; the rule does not
\* last longer.  What lost its rule may lose its row.
RuleIsDue(ip) ==
    /\ ~Overlap(ip)
    /\ Present(ip) => \/ \E t \in Threads : Installing(t, ip)
                      \/ /\ blocks[ip].active
                         /\ backend = "ipset" => kernel[ip] <= blocks[ip].expires
    /\ \A t \in Threads :
         /\ Installing(t, ip) /\ backend = "ipset"
              => kernel[ip] <= now + EffectiveTtl(frame[t].ttl)
         /\ Removed(t, ip) => kernel[ip] = NoRule

\* A live row has its rule, or a thread is about to end it.
RowIsServed(ip) ==
    /\ ~Overlap(ip)
    /\ Live(ip) => kernel[ip] # NoRule \/ \E t \in Threads : Removed(t, ip)
    /\ \A t \in Threads : Installing(t, ip) => kernel[ip] # NoRule

\* The handler of allow_add has still to assign the guard, or it works on the
\* address.
Admitting(ip) ==
    /\ pc["mqtt"] \in {"build", "assign"}
    /\ frame["mqtt"].kind = "allow_add" /\ frame["mqtt"].ip = ip
Lifting(ip, labels) == pc["mqtt"] \in labels /\ frame["mqtt"].ip = ip

\* What holds of an address of the allowlist while its handler does its work:
\* guard, rule and row follow, and nobody is past the guard with it.
Spared(ip) ==
    /\ Running => ip \in guard \/ Admitting(ip)
    /\ Present(ip) => Admitting(ip) \/ Lifting(ip, {"unblock"})
    /\ blocks[ip].active => Admitting(ip) \/ Lifting(ip, {"unblock", "deactivate"})
    /\ \A t \in Threads :
         /\ pc[t] = "assign" => ip \in frame[t].list
         /\ pc[t] \in {"block", "upsert"} => frame[t].ip # ip
ExemptIsSpared(ip) ==
    /\ ~Overlap(ip) /\ ~RebuildOverlap
    /\ ip \in allowlist => Spared(ip)

\* Where the threads can be.
MainLabels == {"loop", "row", "mark_applied", "publish", "mark_published",
               "periodic", "reap", "reaped", "own_ip", "check", "block",
               "upsert", "build", "assign", "down"}
HandlerLabels == {"idle", "next_entry", "check", "block", "upsert", "unblock",
                  "deactivate", "build", "assign", "down"}
Placed ==
    /\ pc["main"] \in MainLabels /\ pc["mqtt"] \in HandlerLabels
    /\ pc["main"] = "down" <=> pc["mqtt"] = "down"
    /\ frame["main"].kind = "none"

Agreed(ip) ==
    /\ leakCause[ip] \/ RuleIsDue(ip)
    /\ ~Running \/ missCause[ip] \/ RowIsServed(ip)

RulesInv ==
    /\ Placed
    /\ \A ip \in IPs : Agreed(ip) /\ (exemptCause[ip] \/ ExemptIsSpared(ip))

----------------------------------------------------------------------------
(* Where the threads can be.                                               *)

LEMMA PlacedStep ==
    ASSUME AgentInv, Placed, [Next]_vars
    PROVE  Placed'
<1>0. /\ pc \in [Threads -> Label]
      /\ frame \in [Threads -> Frames]
  BY DEF AgentInv, TypeOK, ThreadsOK, Frames
<1> USE DEF Threads
<1>1. ASSUME NEW label \in MainLabels \ {"down"}, pc["main"] # "down",
             \/ Goto("main", label) /\ UNCHANGED frame
             \/ Leave("main", label)
      PROVE  Placed'
  BY <1>0, <1>1 DEF Placed, Goto, Leave, NoFrame
<1>2. ASSUME NEW label \in HandlerLabels \ {"down"}, pc["mqtt"] # "down",
             Goto("mqtt", label), frame'["main"] = frame["main"]
      PROVE  Placed'
  BY <1>0, <1>2 DEF Placed, Goto
<1>3. ASSUME EnforceBlock("main") \/ RebuildGuard("main") PROVE Placed'
  <2>1. CASE EnforceBlock("main")
    BY <1>1, <2>1 DEF EnforceBlock, CheckGuard, FirewallBlock, UpsertBlock,
                      AfterBlock, MainLabels
  <2>2. CASE BuildGuard("main")
    BY <1>0, <2>2 DEF BuildGuard, Placed, Goto, MainLabels, Frames
  <2>3. CASE AssignGuard("main")
    <3>1. ~UnblocksOnSight(frame["main"].kind)
      BY DEF Placed, UnblocksOnSight
    <3> QED
      BY <1>1, <2>3, <3>1 DEF AssignGuard, MainLabels
  <2> QED
    BY <1>3, <2>1, <2>2, <2>3 DEF RebuildGuard
<1>4. CASE NextRow
  <2>1. CASE todo = <<>> \/ outbox[Head(todo)].applied
    BY <1>1, <1>4, <2>1 DEF NextRow, MainLabels
  <2>2. CASE todo # <<>> /\ ~outbox[Head(todo)].applied
    BY <1>0, <1>4, <2>2 DEF NextRow, Goto, Placed, MainLabels, NoFrame
  <2> QED
    BY <2>1, <2>2
<1>5. CASE \/ StartPump \/ MarkApplied \/ PublishOk \/ PublishError
           \/ MarkPublished \/ StartExpire \/ SkipExpire \/ ReapRule
           \/ ReapRow \/ OwnIpChanged \/ OwnIpUnchanged
  BY <1>1, <1>5 DEF StartPump, MarkApplied, PublishOk, PublishError,
     MarkPublished, StartExpire, SkipExpire, ReapRule, ReapRow, OwnIpChanged,
     OwnIpUnchanged, MainLabels
<1>6. CASE HandlerStep
  <2>1. \A label : Leave("mqtt", label) => frame'["main"] = frame["main"]
    BY <1>0 DEF Leave
  <2>2. CASE EnforceBlock("mqtt") \/ Unblock \/ DeactivateBlock
    BY <1>2, <2>1, <2>2 DEF EnforceBlock, CheckGuard, FirewallBlock,
       UpsertBlock, AfterBlock, Unblock, DeactivateBlock, HandlerLabels, Leave
  <2>3. CASE RebuildGuard("mqtt")
    BY <1>0, <1>2, <2>1, <2>3
       DEF RebuildGuard, BuildGuard, AssignGuard, HandlerLabels, Leave
  <2>4. CASE NextEntry
    <3>1. CASE UNCHANGED <<pc, frame>>
      BY <3>1 DEF Placed
    <3>2. CASE ~UNCHANGED <<pc, frame>>
      BY <1>0, <1>2, <2>1, <2>4, <3>2 DEF NextEntry, HandlerLabels, Leave
    <3> QED
      BY <3>1, <3>2
  <2> QED
    BY <1>6, <2>2, <2>3, <2>4 DEF HandlerStep
<1>7. CASE Delivery
  BY <1>0, <1>2, <1>7 DEF Delivery, EventBlock, EventUnblock, EventAllowAdd,
     EventAllowRemove, EventIpChange, EventSyncState, Begin, HandlerLabels
<1>8. CASE Tick \/ UNCHANGED vars \/ \E ip \in IPs : Detect(ip)
  BY <1>8 DEF Detect, Tick, vars, locals, Placed
<1>9. CASE Crash \/ Reboot
  BY <1>9 DEF Crash, Reboot, Stop, Placed, MainLabels, HandlerLabels, NoFrame
<1>10. CASE Restart
  BY <1>10 DEF Restart, Start, Placed, MainLabels, HandlerLabels
<1> QED
  BY <1>3, <1>4, <1>5, <1>6, <1>7, <1>8, <1>9, <1>10
     DEF Next, MainStep, Environment

----------------------------------------------------------------------------
(* What is not on record did not happen.                                   *)

LEMMA LeakNotOnRecord ==
    ASSUME NEW failed, Causes(failed), NEW ip \in IPs, ~leakCause'[ip]
    PROVE  /\ ~Overlap(ip)'
           /\ leakCause[ip] => Rebooted
           /\ ~ReapFailed(ip) /\ ~UnblockMissed(ip)
           /\ DiedIn(ip) => Rebooted
BY DEF Causes

LEMMA MissNotOnRecord ==
    ASSUME NEW failed, Causes(failed), NEW ip \in IPs, ~missCause'[ip]
    PROVE  /\ ~Overlap(ip)'
           /\ missCause[ip] => Started
           /\ ip \notin failed
BY DEF Causes

LEMMA ExemptNotOnRecord ==
    ASSUME NEW failed, Causes(failed), NEW ip \in IPs, ~exemptCause'[ip]
    PROVE  /\ ~exemptCause[ip]
           /\ ~Overlap(ip)' /\ ~RebuildOverlap'
           /\ ~DiedIn(ip) /\ ~UnblockFailed(ip)
BY DEF Causes

\* A thread at work on an address is alone with it.
Works(t, ip) ==
    \/ pc[t] \in {"check", "block", "upsert", "unblock", "deactivate"} /\ frame[t].ip = ip
    \/ pc[t] \in {"reap", "reaped"} /\ todo # <<>> /\ Head(todo) = ip

LEMMA WorksTouches ==
    ASSUME AgentInv, Placed, NEW t \in Threads, NEW ip \in IPs, Works(t, ip)
    PROVE  ip \in Touching(t)
<1>1. CASE pc[t] \in {"check", "block", "upsert", "unblock", "deactivate"}
  BY <1>1 DEF Works, Touching
<1>2. CASE pc[t] \in {"reap", "reaped"}
  <2>1. t = "main"
    BY <1>2 DEF Threads, Placed, HandlerLabels
  <2>2. todo \in Seq(IPs) /\ todo # <<>> /\ Head(todo) = ip
    BY <1>2, <2>1 DEF Works, AgentInv, TypeOK, TodoOK
  <2>3. 1 \in DOMAIN todo /\ todo[1] = ip
    BY <2>2, HeadTailProperties, LenProperties, EmptySeq
  <2> QED
    BY <1>2, <2>3 DEF Touching
<1> QED
  BY <1>1, <1>2 DEF Works

LEMMA Alone ==
    ASSUME AgentInv, Placed, NEW t \in Threads, NEW ip \in IPs, Works(t, ip),
           ~Overlap(ip)
    PROVE  \A u \in Threads \ {t} : ~Installing(u, ip) /\ ~Removed(u, ip)
<1>1. \A u \in Threads : Installing(u, ip) \/ Removed(u, ip) => Works(u, ip)
  <2>1. \A u \in Threads : pc[u] = "reaped" => todo # <<>>
    BY DEF AgentInv, FeedInv, Threads, Placed, HandlerLabels
  <2> QED
    BY <2>1 DEF Installing, Removed, Works
<1>2. \A u \in Threads \ {t} : ~Works(u, ip)
  BY WorksTouches DEF Overlap, Threads
<1> QED
  BY <1>1, <1>2

----------------------------------------------------------------------------
(* Rules and rows: what a thread's step has to do for the address.         *)

\* The other thread stays where it is.
OthersStay(t) ==
    /\ \A u \in Threads \ {t} : pc'[u] = pc[u] /\ frame'[u] = frame[u]
    /\ t # "main" => todo' = todo
    /\ pc[t] # "down" /\ pc'[t] # "down"
    /\ UNCHANGED <<now, backend>>

LEMMA StillRunning ==
    ASSUME Placed, Placed', NEW t \in Threads, OthersStay(t)
    PROVE  Running /\ Running' /\ ~Rebooted /\ ~Started
BY DEF OthersStay, Threads, Placed, Running, Rebooted, Started

\* A step that has nothing to do with the address.
LEMMA QuietStep ==
    ASSUME Placed, Placed', NEW t \in Threads, OthersStay(t), CauseHistory,
           NEW ip \in IPs, Agreed(ip),
           kernel'[ip] = kernel[ip], blocks'[ip] = blocks[ip],
           ~Installing(t, ip), ~Installing(t, ip)',
           ~Removed(t, ip), ~Removed(t, ip)'
    PROVE  Agreed(ip)'
<1>1. Running /\ Running' /\ ~Rebooted /\ ~Started
  BY StillRunning
<1>2. ASSUME NEW u \in Threads
      PROVE  /\ Installing(u, ip)' <=> Installing(u, ip)
             /\ Removed(u, ip)' <=> Removed(u, ip)
             /\ Installing(u, ip) => frame'[u] = frame[u]
  <2>1. CASE u = t
    BY <2>1
  <2>2. CASE u # t
    <3>1. "mqtt" # t => pc["mqtt"] # "reaped" /\ pc'["mqtt"] # "reaped"
      BY DEF Placed, HandlerLabels
    <3>2. pc'[u] = pc[u] /\ frame'[u] = frame[u]
      BY <2>2 DEF OthersStay
    <3>3. Removed(u, ip)' <=> Removed(u, ip)
      BY <2>2, <3>1, <3>2 DEF OthersStay, Removed, Threads
    <3> QED
      BY <3>2, <3>3 DEF Installing
  <2> QED
    BY <2>1, <2>2
<1>3. now' = now /\ backend' = backend
  BY DEF OthersStay
<1>4. ASSUME ~leakCause'[ip] PROVE RuleIsDue(ip)'
  <2>1. RuleIsDue(ip) /\ ~Overlap(ip)'
    BY <1>1, <1>4, LeakNotOnRecord DEF Agreed, CauseHistory
  <2> QED
    BY <1>2, <1>3, <2>1 DEF RuleIsDue, Present
<1>5. ASSUME ~missCause'[ip] PROVE RowIsServed(ip)'
  <2>1. RowIsServed(ip) /\ ~Overlap(ip)'
    BY <1>1, <1>5, MissNotOnRecord DEF Agreed, CauseHistory
  <2> QED
    BY <1>2, <1>3, <2>1 DEF RowIsServed, Live
<1> QED
  BY <1>4, <1>5 DEF Agreed

\* A step of the thread that works on the address.
LEMMA LoudStep ==
    ASSUME AgentInv, Placed, Placed', NEW t \in Threads, OthersStay(t),
           CauseHistory, NEW ip \in IPs, Agreed(ip), Works(t, ip),
           ~leakCause'[ip] /\ RuleIsDue(ip) =>
              /\ Present(ip)' => \/ Installing(t, ip)'
                                 \/ /\ blocks'[ip].active
                                    /\ backend = "ipset"
                                         => kernel'[ip] <= blocks'[ip].expires
              /\ Installing(t, ip)' /\ backend = "ipset"
                   => kernel'[ip] <= now + EffectiveTtl(frame'[t].ttl)
              /\ Removed(t, ip)' => kernel'[ip] = NoRule,
           RowIsServed(ip) =>
              /\ Live(ip)' => kernel'[ip] # NoRule \/ Removed(t, ip)'
              /\ Installing(t, ip)' => kernel'[ip] # NoRule
    PROVE  Agreed(ip)'
<1>1. Running /\ Running' /\ ~Rebooted /\ ~Started
  BY StillRunning
<1>2. ASSUME ~Overlap(ip)
      PROVE  \A u \in Threads \ {t} : ~Installing(u, ip)' /\ ~Removed(u, ip)'
  <2>1. \A u \in Threads \ {t} : ~Installing(u, ip) /\ ~Removed(u, ip)
    BY <1>2, Alone
  <2>2. "mqtt" # t => pc'["mqtt"] # "reaped"
    BY DEF Placed, HandlerLabels
  <2> QED
    BY <2>1, <2>2 DEF OthersStay, Installing, Removed, Threads
<1>3. now' = now /\ backend' = backend
  BY DEF OthersStay
<1>4. ASSUME ~leakCause'[ip] PROVE RuleIsDue(ip)'
  <2>1. RuleIsDue(ip) /\ ~Overlap(ip)'
    BY <1>1, <1>4, LeakNotOnRecord DEF Agreed, CauseHistory
  <2>2. ~Overlap(ip)
    BY <2>1 DEF RuleIsDue
  <2> QED
    BY <1>2, <1>3, <1>4, <2>1, <2>2 DEF RuleIsDue
<1>5. ASSUME ~missCause'[ip] PROVE RowIsServed(ip)'
  <2>1. RowIsServed(ip) /\ ~Overlap(ip)'
    BY <1>1, <1>5, MissNotOnRecord DEF Agreed, CauseHistory
  <2>2. ~Overlap(ip)
    BY <2>1 DEF RowIsServed
  <2> QED
    BY <1>2, <2>1, <2>2 DEF RowIsServed
<1> QED
  BY <1>4, <1>5 DEF Agreed

\* A thread between two actions on addresses.
LEMMA QuietLabels ==
    ASSUME Placed, Placed', NEW t \in Threads, OthersStay(t), CauseHistory,
           UNCHANGED <<kernel, blocks>>,
           pc[t] \notin {"upsert", "deactivate", "reaped"},
           pc'[t] \notin {"upsert", "deactivate", "reaped"},
           NEW ip \in IPs, Agreed(ip)
    PROVE  Agreed(ip)'
BY QuietStep DEF Installing, Removed

LEMMA RuleEndBounds ==
    ASSUME TablesOK, NEW ttl \in Nat \ {0}
    PROVE  /\ RuleEnd(ttl) # NoRule
           /\ backend = "ipset" => RuleEnd(ttl) <= now + ttl
BY ConstantsAssumption DEF TablesOK, RuleEnd, Lower, Forever, NoRule

\* The thread is one, its move changes no other.
LEMMA Moves ==
    ASSUME AgentInv, NEW t \in Threads, NEW label \in Label \ {"down"},
           pc[t] # "down", UNCHANGED <<now, backend>>, t # "main" => todo' = todo,
           Goto(t, label), \A u \in Threads \ {t} : frame'[u] = frame[u]
    PROVE  OthersStay(t) /\ pc'[t] = label
BY DEF AgentInv, TypeOK, ThreadsOK, Goto, OthersStay

LEMMA LeaveMoves ==
    ASSUME AgentInv, NEW t \in Threads, NEW label, Leave(t, label)
    PROVE  Goto(t, label) /\ \A u \in Threads \ {t} : frame'[u] = frame[u]
BY DEF AgentInv, TypeOK, ThreadsOK, Leave

LEMMA EnforceAgreed ==
    ASSUME AgentInv, Placed, Placed', NEW t \in Threads, EnforceBlock(t),
           NEW ip \in IPs, Agreed(ip)
    PROVE  Agreed(ip)'
<1>1. AfterBlock(t) \in {"mark_applied", "next_entry"}
  BY DEF AfterBlock
<1>2. /\ pc[t] \in {"check", "block", "upsert"}
      /\ UNCHANGED <<now, backend, todo>> /\ CauseHistory
  BY DEF EnforceBlock, CheckGuard, FirewallBlock, UpsertBlock, bounded
<1>3. \E label \in {"block", "upsert", AfterBlock(t)} :
         /\ Goto(t, label)
         /\ \A u \in Threads \ {t} : frame'[u] = frame[u]
  BY LeaveMoves DEF EnforceBlock, CheckGuard, FirewallBlock, UpsertBlock
<1>4. /\ OthersStay(t)
      /\ pc'[t] \in {"block", "upsert", AfterBlock(t)}
  BY <1>1, <1>2, <1>3, Moves DEF Label
<1>5. kernel \in [IPs -> Nat] /\ blocks \in [IPs -> [active : BOOLEAN, expires : Nat]]
  BY DEF AgentInv, TypeOK, TablesOK
<1>6. EffectiveTtl(frame[t].ttl) \in Nat \ {0}
  BY EffectiveTtlType DEF AgentInv, TypeOK, ThreadsOK
<1>7. CASE CheckGuard(t)
  <2>1. pc[t] = "check" /\ pc'[t] # "upsert" /\ UNCHANGED <<kernel, blocks>>
    BY <1>7, <1>1, LeaveMoves DEF CheckGuard, Goto, store, AgentInv, TypeOK, ThreadsOK
  <2> QED
    BY <1>1, <1>2, <1>4, <2>1, QuietLabels
<1>8. CASE FirewallBlock(t) /\ UNCHANGED kernel /\ Leave(t, AfterBlock(t))
  <2>1. pc[t] = "block" /\ pc'[t] = AfterBlock(t) /\ UNCHANGED <<kernel, blocks>>
    BY <1>8 DEF FirewallBlock, Leave, Goto, store, AgentInv, TypeOK, ThreadsOK
  <2> QED
    BY <1>1, <1>2, <1>4, <2>1, QuietLabels
<1>9. ASSUME FirewallBlock(t), UNCHANGED frame, Goto(t, "upsert"),
             kernel' = [kernel EXCEPT ![frame[t].ip] = RuleEnd(EffectiveTtl(frame[t].ttl))]
      PROVE  Agreed(ip)'
  <2>1. pc[t] = "block" /\ pc'[t] = "upsert" /\ UNCHANGED blocks
    BY <1>9 DEF FirewallBlock, Goto, store, AgentInv, TypeOK, ThreadsOK
  <2>2. CASE frame[t].ip # ip
    <3>1. kernel'[ip] = kernel[ip] /\ blocks'[ip] = blocks[ip]
      BY <1>5, <1>9, <2>1, <2>2
    <3>2. /\ ~Installing(t, ip) /\ ~Installing(t, ip)'
          /\ ~Removed(t, ip) /\ ~Removed(t, ip)'
      BY <1>9, <2>1, <2>2 DEF Installing, Removed
    <3> QED
      BY <1>2, <1>4, <3>1, <3>2, QuietStep
  <2>3. CASE frame[t].ip = ip
    <3>1. kernel'[ip] = RuleEnd(EffectiveTtl(frame[t].ttl))
      BY <1>5, <1>9, <2>3
    <3>2. /\ kernel'[ip] # NoRule
          /\ backend = "ipset" => kernel'[ip] <= now + EffectiveTtl(frame'[t].ttl)
      BY <1>6, <1>9, <3>1, RuleEndBounds DEF AgentInv, TypeOK
    <3>3. Works(t, ip) /\ Installing(t, ip)' /\ ~Removed(t, ip)'
      BY <1>9, <2>1, <2>3 DEF Works, Installing, Removed
    <3> QED
      BY <1>2, <1>4, <3>2, <3>3, LoudStep
  <2> QED
    BY <2>2, <2>3
<1>10. CASE UpsertBlock(t)
  <2>1. /\ pc[t] = "upsert" /\ pc'[t] = AfterBlock(t) /\ UNCHANGED kernel
        /\ blocks' = [blocks EXCEPT ![frame[t].ip] =
                         NewRow(frame[t].ip, EffectiveTtl(frame[t].ttl))]
    BY <1>10 DEF UpsertBlock, Leave, Goto, AgentInv, TypeOK, ThreadsOK
  <2>2. CASE frame[t].ip # ip
    <3>1. kernel'[ip] = kernel[ip] /\ blocks'[ip] = blocks[ip]
      BY <1>5, <2>1, <2>2
    <3>2. /\ ~Installing(t, ip) /\ ~Installing(t, ip)'
          /\ ~Removed(t, ip) /\ ~Removed(t, ip)'
      BY <1>1, <2>1, <2>2 DEF Installing, Removed
    <3> QED
      BY <1>2, <1>4, <3>1, <3>2, QuietStep
  <2>3. CASE frame[t].ip = ip
    <3>1. /\ blocks'[ip].active
          /\ blocks'[ip].expires = now + EffectiveTtl(frame[t].ttl)
          /\ kernel'[ip] = kernel[ip]
      BY <1>5, <2>1, <2>3 DEF NewRow
    <3>2. /\ Works(t, ip) /\ Installing(t, ip)
          /\ ~Installing(t, ip)' /\ ~Removed(t, ip)'
      BY <1>1, <2>1, <2>3 DEF Works, Installing, Removed
    <3>3. RuleIsDue(ip) => (backend = "ipset" => kernel'[ip] <= blocks'[ip].expires)
      BY <3>1, <3>2 DEF RuleIsDue
    <3>4. RowIsServed(ip) => kernel'[ip] # NoRule
      BY <3>1, <3>2 DEF RowIsServed
    <3> QED
      BY <1>2, <1>4, <3>1, <3>2, <3>3, <3>4, LoudStep
  <2> QED
    BY <2>2, <2>3
<1> QED
  BY <1>7, <1>8, <1>9, <1>10 DEF EnforceBlock, FirewallBlock

LEMMA RebuildAgreed ==
    ASSUME AgentInv, Placed, Placed', NEW t \in Threads, RebuildGuard(t),
           NEW ip \in IPs, Agreed(ip)
    PROVE  Agreed(ip)'
<1>1. /\ pc[t] \in {"build", "assign"}
      /\ UNCHANGED <<now, backend, todo, kernel, blocks>> /\ CauseHistory
  BY DEF RebuildGuard, BuildGuard, AssignGuard, store, bounded
<1>2. \E label \in {"assign", "unblock", "loop", "idle"} :
         /\ Goto(t, label)
         /\ \A u \in Threads \ {t} : frame'[u] = frame[u]
  <2>1. CASE BuildGuard(t)
    BY <2>1 DEF BuildGuard, AgentInv, TypeOK, ThreadsOK
  <2>2. CASE AssignGuard(t)
    <3>1. \/ Goto(t, "unblock") /\ frame' = [frame EXCEPT ![t].list = {}]
          \/ \E label \in {"loop", "idle"} : Leave(t, label)
      BY <2>2 DEF AssignGuard
    <3> QED
      BY <3>1, LeaveMoves DEF AgentInv, TypeOK, ThreadsOK
  <2> QED
    BY <2>1, <2>2 DEF RebuildGuard
<1>3. OthersStay(t) /\ pc'[t] \in {"assign", "unblock", "loop", "idle"}
  BY <1>1, <1>2, Moves DEF Label
<1> QED
  BY <1>1, <1>3, QuietLabels

LEMMA PumpAgreed ==
    ASSUME AgentInv, Placed, Placed',
           \/ StartPump \/ NextRow \/ MarkApplied \/ PublishOk \/ PublishError
           \/ MarkPublished \/ StartExpire \/ SkipExpire \/ OwnIpChanged
           \/ OwnIpUnchanged,
           NEW ip \in IPs, Agreed(ip)
    PROVE  Agreed(ip)'
<1> DEFINE Between == {"loop", "row", "check", "publish", "mark_applied",
                       "mark_published", "periodic", "reap", "own_ip", "build"}
<1>1. "main" \in Threads
  BY DEF Threads
<1>2. /\ pc["main"] \in Between
      /\ UNCHANGED <<now, backend, kernel, blocks>> /\ CauseHistory
  BY DEF StartPump, NextRow, MarkApplied, PublishOk, PublishError,
     MarkPublished, StartExpire, SkipExpire, OwnIpChanged, OwnIpUnchanged,
     store, bounded
<1>3. \E label \in Between :
         /\ Goto("main", label)
         /\ \A u \in Threads \ {"main"} : frame'[u] = frame[u]
  <2>1. CASE NextRow
    <3>1. \/ \E label \in Between : Leave("main", label)
          \/ /\ Goto("main", "check")
             /\ frame' = [frame EXCEPT !["main"] =
                             [NoFrame EXCEPT !.ip = outbox[Head(todo)].ip]]
      BY <2>1 DEF NextRow
    <3> QED
      BY <1>1, <3>1, LeaveMoves DEF AgentInv, TypeOK, ThreadsOK
  <2>2. CASE ~NextRow
    BY <2>2 DEF StartPump, MarkApplied, PublishOk, PublishError, MarkPublished,
       StartExpire, SkipExpire, OwnIpChanged, OwnIpUnchanged
  <2> QED
    BY <2>1, <2>2
<1>4. OthersStay("main") /\ pc'["main"] \in Between
  BY <1>1, <1>2, <1>3, Moves DEF Label
<1> QED
  BY <1>1, <1>2, <1>4, QuietLabels

\* expire_blocks: the rule, then the row.
LEMMA ReapAgreed ==
    ASSUME AgentInv, Placed, Placed', ReapRule \/ ReapRow,
           NEW ip \in IPs, Agreed(ip)
    PROVE  Agreed(ip)'
<1>1. "main" \in Threads
  BY DEF Threads
<1>2. /\ pc["main"] \in {"reap", "reaped"}
      /\ UNCHANGED <<now, backend, frame>> /\ CauseHistory
  BY DEF ReapRule, ReapRow, bounded
<1>3. \E label \in {"reap", "reaped", "own_ip"} : Goto("main", label)
  BY DEF ReapRule, ReapRow
<1>4. OthersStay("main") /\ pc'["main"] \in {"reap", "reaped", "own_ip"}
  BY <1>1, <1>2, <1>3, Moves DEF Label
<1>5. kernel \in [IPs -> Nat] /\ blocks \in [IPs -> [active : BOOLEAN, expires : Nat]]
  BY DEF AgentInv, TypeOK, TablesOK
<1>6. pc \in [Threads -> Label]
  BY DEF AgentInv, TypeOK, ThreadsOK
<1>7. CASE ReapRule /\ todo = <<>>
  <2>1. pc["main"] = "reap" /\ pc'["main"] = "own_ip" /\ UNCHANGED <<kernel, blocks>>
    BY <1>1, <1>6, <1>7 DEF ReapRule, Goto, store
  <2> QED
    BY <1>1, <1>2, <1>4, <2>1, QuietLabels
<1>8. CASE ReapRule /\ todo # <<>>
  <2>1. /\ pc["main"] = "reap" /\ pc'["main"] = "reaped"
        /\ UNCHANGED <<blocks, todo>>
        /\ kernel' = [kernel EXCEPT ![Head(todo)] = NoRule] \/ UNCHANGED kernel
    BY <1>1, <1>6, <1>8 DEF ReapRule, Goto, store
  <2>2. CASE Head(todo) # ip
    <3>1. kernel'[ip] = kernel[ip] /\ blocks'[ip] = blocks[ip]
      BY <1>5, <2>1, <2>2
    <3>2. /\ ~Installing("main", ip) /\ ~Installing("main", ip)'
          /\ ~Removed("main", ip) /\ ~Removed("main", ip)'
      BY <2>1, <2>2 DEF Installing, Removed
    <3> QED
      BY <1>1, <1>2, <1>4, <3>1, <3>2, QuietStep
  <2>3. CASE Head(todo) = ip
    <3>1. /\ Works("main", ip) /\ Removed("main", ip)' /\ ~Installing("main", ip)'
      BY <1>8, <2>1, <2>3 DEF Works, Removed, Installing
    <3>2. ~leakCause'[ip] => kernel'[ip] = NoRule
      <4>1. ~leakCause'[ip] => ~ReapFailed(ip)
        BY <1>2, LeakNotOnRecord DEF CauseHistory
      <4> QED
        BY <2>1, <2>3, <4>1 DEF ReapFailed
    <3>3. ~leakCause'[ip] => ~Present(ip)'
      <4>1. now' = now /\ now \in Nat
        BY <1>2 DEF AgentInv, TypeOK, TablesOK
      <4> QED
        BY <3>2, <4>1 DEF Present, NoRule
    <3> QED
      BY <1>1, <1>2, <1>4, <3>1, <3>2, <3>3, LoudStep
  <2> QED
    BY <2>2, <2>3
<1>9. CASE ReapRow
  <2>1. /\ pc["main"] = "reaped" /\ pc'["main"] = "reap" /\ UNCHANGED kernel
        /\ blocks' = [blocks EXCEPT ![Head(todo)].active = FALSE]
    BY <1>1, <1>6, <1>9 DEF ReapRow, Goto
  <2>2. CASE Head(todo) # ip
    <3>1. kernel'[ip] = kernel[ip] /\ blocks'[ip] = blocks[ip]
      BY <1>5, <2>1, <2>2
    <3>2. /\ ~Installing("main", ip) /\ ~Installing("main", ip)'
          /\ ~Removed("main", ip) /\ ~Removed("main", ip)'
      BY <2>1, <2>2 DEF Installing, Removed
    <3> QED
      BY <1>1, <1>2, <1>4, <3>1, <3>2, QuietStep
  <2>3. CASE Head(todo) = ip
    <3>1. todo # <<>>
      BY <2>1 DEF AgentInv, FeedInv
    <3>2. /\ Works("main", ip) /\ Removed("main", ip)
          /\ ~Removed("main", ip)' /\ ~Installing("main", ip)'
      BY <2>1, <2>3, <3>1 DEF Works, Removed, Installing
    <3>3. ~blocks'[ip].active /\ kernel'[ip] = kernel[ip]
      BY <1>5, <2>1, <2>3
    <3>4. RuleIsDue(ip) => ~Present(ip)'
      <4>1. RuleIsDue(ip) => kernel[ip] = 0
        BY <1>1, <3>2 DEF RuleIsDue, NoRule
      <4>2. now' = now /\ now \in Nat
        BY <1>2 DEF AgentInv, TypeOK, TablesOK
      <4> QED
        BY <3>3, <4>1, <4>2 DEF Present
    <3>5. ~Live(ip)'
      BY <3>3 DEF Live
    <3> QED
      BY <1>1, <1>2, <1>4, <3>2, <3>4, <3>5, LoudStep
  <2> QED
    BY <2>2, <2>3
<1> QED
  BY <1>7, <1>8, <1>9

\* The rest of the handler's steps.
LEMMA UnblockAgreed ==
    ASSUME AgentInv, Placed, Placed', NextEntry \/ Unblock \/ DeactivateBlock,
           NEW ip \in IPs, Agreed(ip)
    PROVE  Agreed(ip)'
<1>1. "mqtt" \in Threads
  BY DEF Threads
<1>2. /\ pc["mqtt"] \in {"next_entry", "unblock", "deactivate"}
      /\ UNCHANGED <<now, backend, todo>> /\ CauseHistory
  BY DEF NextEntry, Unblock, DeactivateBlock, bounded
<1>3. \E label \in {"check", "next_entry", "deactivate", "idle"} :
         /\ Goto("mqtt", label)
         /\ \A u \in Threads \ {"mqtt"} : frame'[u] = frame[u]
  <2>1. CASE NextEntry /\ ~UNCHANGED <<pc, frame>>
    <3>1. \/ Leave("mqtt", "idle")
          \/ /\ Goto("mqtt", "check")
             /\ frame' = [frame EXCEPT !["mqtt"] =
                             [NoFrame EXCEPT !.ip = Head(entries).ip,
                                 !.ttl = Head(entries).expires - startedAt]]
      BY <2>1 DEF NextEntry
    <3> QED
      BY <1>1, <3>1, LeaveMoves DEF AgentInv, TypeOK, ThreadsOK
  <2>2. CASE NextEntry /\ UNCHANGED <<pc, frame>>
    BY <1>1, <2>2 DEF NextEntry, Goto, AgentInv, TypeOK, ThreadsOK
  <2>3. CASE Unblock \/ DeactivateBlock
    BY <1>1, <2>3, LeaveMoves DEF Unblock, DeactivateBlock
  <2> QED
    BY <2>1, <2>2, <2>3
<1>4. /\ OthersStay("mqtt")
      /\ pc'["mqtt"] \in {"check", "next_entry", "deactivate", "idle"}
  BY <1>1, <1>2, <1>3, Moves DEF Label
<1>5. kernel \in [IPs -> Nat] /\ blocks \in [IPs -> [active : BOOLEAN, expires : Nat]]
  BY DEF AgentInv, TypeOK, TablesOK
<1>6. pc \in [Threads -> Label] /\ now' = now /\ now \in Nat
  BY <1>2 DEF AgentInv, TypeOK, ThreadsOK, TablesOK
<1>7. CASE NextEntry
  <2>1. /\ pc["mqtt"] = "next_entry" /\ UNCHANGED <<kernel, blocks>>
        /\ pc'["mqtt"] # "deactivate"
    BY <1>1, <1>6, <1>7 DEF NextEntry, Leave, Goto, store
  <2> QED
    BY <1>1, <1>2, <1>4, <2>1, QuietLabels
<1>8. CASE Unblock /\ UNCHANGED kernel /\ Leave("mqtt", "next_entry")
  <2>1. /\ pc["mqtt"] = "unblock" /\ pc'["mqtt"] = "next_entry"
        /\ UNCHANGED <<kernel, blocks>>
    BY <1>1, <1>6, <1>8 DEF Unblock, Leave, Goto, store
  <2> QED
    BY <1>1, <1>2, <1>4, <2>1, QuietLabels
<1>9. ASSUME Unblock, Goto("mqtt", "deactivate"), UNCHANGED frame,
             \/ kernel' = [kernel EXCEPT ![frame["mqtt"].ip] = NoRule]
             \/ UNCHANGED kernel
      PROVE  Agreed(ip)'
  <2>1. /\ pc["mqtt"] = "unblock" /\ pc'["mqtt"] = "deactivate"
        /\ UNCHANGED <<blocks, frame>>
    BY <1>1, <1>6, <1>9 DEF Unblock, Goto, store
  <2>2. CASE frame["mqtt"].ip # ip
    <3>1. kernel'[ip] = kernel[ip] /\ blocks'[ip] = blocks[ip]
      BY <1>5, <1>9, <2>1, <2>2
    <3>2. /\ ~Installing("mqtt", ip) /\ ~Installing("mqtt", ip)'
          /\ ~Removed("mqtt", ip) /\ ~Removed("mqtt", ip)'
      BY <2>1, <2>2 DEF Installing, Removed
    <3> QED
      BY <1>1, <1>2, <1>4, <3>1, <3>2, QuietStep
  <2>3. CASE frame["mqtt"].ip = ip
    <3>1. Works("mqtt", ip) /\ Removed("mqtt", ip)' /\ ~Installing("mqtt", ip)'
      BY <2>1, <2>3 DEF Works, Removed, Installing
    <3>2. ~leakCause'[ip] => kernel'[ip] = NoRule
      <4>1. ~leakCause'[ip] => ~UnblockMissed(ip)
        BY <1>2, LeakNotOnRecord DEF CauseHistory
      <4> QED
        BY <2>1, <2>3, <4>1 DEF UnblockMissed
    <3>3. ~leakCause'[ip] => ~Present(ip)'
      BY <1>6, <3>2 DEF Present, NoRule
    <3> QED
      BY <1>1, <1>2, <1>4, <3>1, <3>2, <3>3, LoudStep
  <2> QED
    BY <2>2, <2>3
<1>10. CASE DeactivateBlock
  <2>1. /\ pc["mqtt"] = "deactivate" /\ pc'["mqtt"] = "next_entry"
        /\ UNCHANGED kernel
        /\ blocks' = [blocks EXCEPT ![frame["mqtt"].ip].active = FALSE]
    BY <1>1, <1>6, <1>10 DEF DeactivateBlock, Leave, Goto
  <2>2. CASE frame["mqtt"].ip # ip
    <3>1. kernel'[ip] = kernel[ip] /\ blocks'[ip] = blocks[ip]
      BY <1>5, <2>1, <2>2
    <3>2. /\ ~Installing("mqtt", ip) /\ ~Installing("mqtt", ip)'
          /\ ~Removed("mqtt", ip) /\ ~Removed("mqtt", ip)'
      BY <2>1, <2>2 DEF Installing, Removed
    <3> QED
      BY <1>1, <1>2, <1>4, <3>1, <3>2, QuietStep
  <2>3. CASE frame["mqtt"].ip = ip
    <3>1. /\ Works("mqtt", ip) /\ Removed("mqtt", ip)
          /\ ~Removed("mqtt", ip)' /\ ~Installing("mqtt", ip)'
      BY <2>1, <2>3 DEF Works, Removed, Installing
    <3>2. ~blocks'[ip].active /\ kernel'[ip] = kernel[ip]
      BY <1>5, <2>1, <2>3
    <3>3. RuleIsDue(ip) => ~Present(ip)'
      <4>1. RuleIsDue(ip) => kernel[ip] = 0
        BY <1>1, <3>1 DEF RuleIsDue, NoRule
      <4> QED
        BY <1>6, <3>2, <4>1 DEF Present
    <3>4. ~Live(ip)'
      BY <3>2 DEF Live
    <3> QED
      BY <1>1, <1>2, <1>4, <3>1, <3>3, <3>4, LoudStep
  <2> QED
    BY <2>2, <2>3
<1> QED
  BY <1>7, <1>8, <1>9, <1>10 DEF Unblock

\* The start of a handler.
LEMMA DeliveryAgreed ==
    ASSUME AgentInv, Placed, Placed', Delivery, NEW ip \in IPs, Agreed(ip)
    PROVE  Agreed(ip)'
<1> DEFINE Starts == {"check", "unblock", "build", "next_entry"}
<1>1. "mqtt" \in Threads
  BY DEF Threads
<1>2. \E label \in Starts, kind \in Kind, i \in IPs \cup {NoIP}, ttl \in Nat :
         Begin(label, kind, i, ttl)
  BY ConstantsAssumption DEF Delivery, EventBlock, EventUnblock,
     EventAllowAdd, EventAllowRemove, EventIpChange, EventSyncState, Kind
<1>3. /\ UNCHANGED <<now, backend, todo, kernel, blocks>> /\ CauseHistory
  BY DEF Delivery, EventBlock, EventUnblock, EventAllowAdd, EventAllowRemove,
     EventIpChange, EventSyncState, store, bounded
<1>4. /\ pc["mqtt"] = "idle"
      /\ \E label \in Starts :
           /\ Goto("mqtt", label)
           /\ \A u \in Threads \ {"mqtt"} : frame'[u] = frame[u]
  BY <1>1, <1>2 DEF Begin, AgentInv, TypeOK, ThreadsOK
<1>5. OthersStay("mqtt") /\ pc'["mqtt"] \in Starts
  BY <1>1, <1>3, <1>4, Moves DEF Label
<1> QED
  BY <1>1, <1>3, <1>4, <1>5, QuietLabels

\* No thread moves; at most the clock does.
LEMMA IdleAgreed ==
    ASSUME AgentInv, UNCHANGED vars \/ Tick \/ \E i \in IPs : Detect(i),
           NEW ip \in IPs, Agreed(ip)
    PROVE  Agreed(ip)'
<1>1. /\ UNCHANGED <<backend, kernel, blocks, pc, frame, todo>>
      /\ now' \in Nat /\ now' >= now /\ now \in Nat
  <2>1. now \in Nat
    BY DEF AgentInv, TypeOK, TablesOK
  <2>2. CASE Tick
    BY <2>1, <2>2 DEF Tick, store, locals, bounded
  <2>3. ASSUME NEW i \in IPs, Detect(i)
        PROVE  UNCHANGED <<backend, now, kernel, blocks, pc, frame, todo>>
    BY <2>3 DEF Detect, locals, bounded
  <2>4. CASE UNCHANGED vars
    BY <2>1, <2>4 DEF vars, store, locals, bounded
  <2> QED
    BY <2>1, <2>2, <2>3, <2>4
<1>2. kernel \in [IPs -> Nat] /\ blocks \in [IPs -> [active : BOOLEAN, expires : Nat]]
  BY DEF AgentInv, TypeOK, TablesOK
<1>3. \A t \in Threads : EffectiveTtl(frame[t].ttl) \in Nat
  BY EffectiveTtlType DEF AgentInv, TypeOK, ThreadsOK
<1>4. UNCHANGED history \/ CauseHistory
  BY DEF Tick, Detect, vars
<1>5. /\ Overlap(ip)' <=> Overlap(ip)
      /\ \A t \in Threads : /\ Installing(t, ip)' <=> Installing(t, ip)
                            /\ Removed(t, ip)' <=> Removed(t, ip)
      /\ Running' <=> Running
  BY <1>1 DEF Overlap, Touching, Installing, Removed, Running
<1>6. /\ leakCause'[ip] \/ ~leakCause[ip]
      /\ ~Running \/ missCause'[ip] \/ ~missCause[ip]
  <2>1. CASE UNCHANGED history
    BY <2>1 DEF history
  <2>2. CASE CauseHistory
    <3>1. ~Rebooted /\ ~Started
      BY <1>5 DEF Rebooted, Started
    <3> QED
      BY <2>2, <3>1, LeakNotOnRecord, MissNotOnRecord DEF CauseHistory
  <2> QED
    BY <1>4, <2>1, <2>2
<1>7. RuleIsDue(ip) => RuleIsDue(ip)'
  <2>1. Present(ip)' => Present(ip)
    BY <1>1, <1>2 DEF Present
  <2>2. ASSUME NEW t \in Threads, RuleIsDue(ip), Installing(t, ip)', backend' = "ipset"
        PROVE  kernel'[ip] <= now' + EffectiveTtl(frame'[t].ttl)
    <3>1. kernel[ip] <= now + EffectiveTtl(frame[t].ttl)
      BY <1>1, <1>5, <2>2 DEF RuleIsDue
    <3>2. frame'[t] = frame[t]
      BY <1>1
    <3> QED
      BY <1>1, <1>2, <1>3, <3>1, <3>2
  <2> QED
    BY <1>1, <1>5, <2>1, <2>2 DEF RuleIsDue
<1>8. RowIsServed(ip) => RowIsServed(ip)'
  <2>1. Live(ip)' => Live(ip)
    BY <1>1, <1>2 DEF Live
  <2> QED
    BY <1>1, <1>5, <2>1 DEF RowIsServed
<1> QED
  BY <1>5, <1>6, <1>7, <1>8 DEF Agreed

\* Nobody works on an address that no thread touches.
LEMMA Unattended ==
    ASSUME AgentInv, Placed, NEW ip \in IPs, Untouched(ip)
    PROVE  \A t \in Threads : ~Installing(t, ip) /\ ~Removed(t, ip)
<1>1. \A t \in Threads : Installing(t, ip) \/ Removed(t, ip) => Works(t, ip)
  <2>1. \A t \in Threads : pc[t] = "reaped" => todo # <<>>
    BY DEF AgentInv, FeedInv, Threads, Placed, HandlerLabels
  <2> QED
    BY <2>1 DEF Installing, Removed, Works
<1> QED
  BY <1>1, WorksTouches DEF Untouched

\* The process ends: the rules stay, or a reboot clears all of them.
LEMMA DeathAgreed ==
    ASSUME AgentInv, Placed, Crash \/ Reboot, NEW ip \in IPs, Agreed(ip)
    PROVE  Agreed(ip)'
<1>1. /\ Running /\ ~Running' /\ CauseHistory
      /\ UNCHANGED <<backend, now, blocks>>
      /\ pc' = [t \in Threads |-> "down"]
  BY DEF Crash, Reboot, Stop, Running, Threads, store
<1>2. now \in Nat /\ kernel \in [IPs -> Nat]
  BY DEF AgentInv, TypeOK, TablesOK
<1>3. \A t \in Threads : ~Installing(t, ip)' /\ ~Removed(t, ip)'
  BY <1>1 DEF Installing, Removed
<1>4. ASSUME ~leakCause'[ip] PROVE RuleIsDue(ip)'
  <2>1. /\ ~Overlap(ip)'
        /\ leakCause[ip] => Rebooted
        /\ DiedIn(ip) => Rebooted
    BY <1>1, <1>4, LeakNotOnRecord DEF CauseHistory
  <2>2. CASE Rebooted
    <3>1. kernel'[ip] = 0
      BY <2>2 DEF Rebooted, Crash, Reboot, NoRule
    <3>2. ~Present(ip)'
      BY <1>1, <1>2, <3>1 DEF Present
    <3> QED
      BY <1>3, <2>1, <3>2 DEF RuleIsDue
  <2>3. CASE ~Rebooted
    <3>1. kernel' = kernel /\ Untouched(ip) /\ RuleIsDue(ip)
      BY <1>1, <2>1, <2>3 DEF Rebooted, DiedIn, Agreed
    <3>2. \A t \in Threads : ~Installing(t, ip)
      BY <3>1, Unattended
    <3> QED
      BY <1>1, <1>3, <2>1, <3>1, <3>2 DEF RuleIsDue, Present
  <2> QED
    BY <2>2, <2>3
<1> QED
  BY <1>1, <1>4 DEF Agreed

\* The process starts: reconcile gives every live row its rule again.
LEMMA StartAgreed ==
    ASSUME AgentInv, Placed, NEW failed \in SUBSET IPs, Start(failed),
           NEW ip \in IPs, Agreed(ip)
    PROVE  Agreed(ip)'
<1>1. /\ ~Running /\ Causes(failed)
      /\ UNCHANGED <<backend, now, blocks>>
      /\ pc' = [main |-> "loop", mqtt |-> "idle"]
      /\ kernel' = Reconciled(failed)
  BY DEF Start, store, bounded
<1>2. /\ now \in Nat /\ kernel \in [IPs -> Nat]
      /\ blocks[ip] \in [active : BOOLEAN, expires : Nat]
  BY DEF AgentInv, TypeOK, TablesOK
<1>3. \A t \in Threads : pc[t] = "down" /\ pc'[t] \in {"loop", "idle"}
  BY <1>1 DEF Running, Placed, Threads
<1>4. \A t \in Threads : /\ ~Installing(t, ip) /\ ~Removed(t, ip)
                         /\ ~Installing(t, ip)' /\ ~Removed(t, ip)'
  BY <1>3 DEF Installing, Removed
<1>5. Live(ip) /\ ip \notin failed =>
        /\ kernel'[ip] # NoRule
        /\ backend = "ipset" => kernel'[ip] <= blocks[ip].expires
  <2> SUFFICES ASSUME Live(ip), ip \notin failed
               PROVE  /\ kernel'[ip] # NoRule
                      /\ backend = "ipset" => kernel'[ip] <= blocks[ip].expires
    OBVIOUS
  <2> DEFINE left == blocks[ip].expires - now
  <2>1. left \in Nat \ {0} /\ now + left = blocks[ip].expires
    BY <1>2 DEF Live
  <2>2. kernel'[ip] = RuleEnd(left)
    BY <1>1 DEF Reconciled
  <2> HIDE DEF left
  <2> QED
    BY <2>1, <2>2, RuleEndBounds DEF AgentInv, TypeOK
<1>6. ~(Live(ip) /\ ip \notin failed) => kernel'[ip] = kernel[ip]
  BY <1>1 DEF Reconciled
<1>7. ASSUME ~leakCause'[ip] PROVE RuleIsDue(ip)'
  <2>1. ~Overlap(ip)' /\ RuleIsDue(ip)
    BY <1>1, <1>7, LeakNotOnRecord DEF Agreed, Rebooted
  <2>2. CASE Live(ip) /\ ip \notin failed
    BY <1>1, <1>4, <1>5, <2>1, <2>2 DEF RuleIsDue, Live
  <2>3. CASE ~(Live(ip) /\ ip \notin failed)
    <3>1. Present(ip)' <=> Present(ip)
      BY <1>1, <1>6, <2>3 DEF Present
    <3> QED
      BY <1>1, <1>4, <1>6, <2>1, <2>3, <3>1 DEF RuleIsDue
  <2> QED
    BY <2>2, <2>3
<1>8. ASSUME ~missCause'[ip] PROVE RowIsServed(ip)'
  <2>1. ~Overlap(ip)' /\ ip \notin failed
    BY <1>1, <1>8, MissNotOnRecord
  <2>2. Live(ip)' <=> Live(ip)
    BY <1>1 DEF Live
  <2> QED
    BY <1>4, <1>5, <2>1, <2>2 DEF RowIsServed
<1> QED
  BY <1>7, <1>8 DEF Agreed

LEMMA AgreedStep ==
    ASSUME AgentInv, Placed, Placed', [Next]_vars, NEW ip \in IPs, Agreed(ip)
    PROVE  Agreed(ip)'
<1>1. "main" \in Threads /\ "mqtt" \in Threads
  BY DEF Threads
<1>2. CASE MainStep
  BY <1>1, <1>2, EnforceAgreed, RebuildAgreed, PumpAgreed, ReapAgreed
     DEF MainStep
<1>3. CASE HandlerStep
  BY <1>1, <1>3, EnforceAgreed, RebuildAgreed, UnblockAgreed DEF HandlerStep
<1>4. CASE Delivery
  BY <1>4, DeliveryAgreed
<1>5. CASE Environment \/ UNCHANGED vars
  BY <1>5, IdleAgreed, DeathAgreed DEF Environment
<1>6. CASE Restart
  BY <1>6, StartAgreed DEF Restart
<1> QED
  BY <1>2, <1>3, <1>4, <1>5, <1>6 DEF Next

----------------------------------------------------------------------------
(* The allowlist: what a step has to do for an address of it.  No cause    *)
(* struck in the step.                                                     *)

Clean(ip) ==
    /\ ~Overlap(ip) /\ ~RebuildOverlap
    /\ ~Overlap(ip)' /\ ~RebuildOverlap'
    /\ ~DiedIn(ip) /\ ~UnblockFailed(ip)

LEMMA ExemptStep ==
    ASSUME NEW failed, Causes(failed), NEW ip \in IPs,
           exemptCause[ip] \/ ExemptIsSpared(ip),
           /\ Clean(ip) /\ ip \in allowlist'
           /\ ip \in allowlist => Spared(ip)
           => Spared(ip)'
    PROVE  exemptCause'[ip] \/ ExemptIsSpared(ip)'
<1> SUFFICES ASSUME ~exemptCause'[ip] PROVE ExemptIsSpared(ip)'
  OBVIOUS
<1>1. /\ ~exemptCause[ip] /\ ~Overlap(ip)' /\ ~RebuildOverlap'
      /\ ~DiedIn(ip) /\ ~UnblockFailed(ip)
  BY ExemptNotOnRecord
<1>2. /\ Clean(ip)
      /\ ip \in allowlist => Spared(ip)
  BY <1>1 DEF ExemptIsSpared, Clean
<1> QED
  BY <1>1, <1>2 DEF ExemptIsSpared

\* What a step of main has to keep.
MainSpares(ip) ==
    /\ pc["main"] # "down" /\ pc'["main"] # "down"
    /\ pc'["mqtt"] = pc["mqtt"] /\ frame'["mqtt"] = frame["mqtt"]
    /\ ip \in guard => ip \in guard'
    /\ Present(ip)' => Present(ip)
    /\ blocks'[ip].active => blocks[ip].active
    /\ pc'["main"] = "assign" => ip \in frame'["main"].list
    /\ pc'["main"] \in {"block", "upsert"} => frame'["main"].ip # ip

LEMMA MainSparedStep ==
    ASSUME NEW ip \in IPs, Spared(ip), MainSpares(ip)
    PROVE  Spared(ip)'
BY DEF Spared, MainSpares, Admitting, Lifting, Running, Threads

LEMMA MainSpared ==
    ASSUME AgentInv, Placed, Placed', MainStep, NEW ip \in IPs, Clean(ip),
           Spared(ip), ip \in allowlist
    PROVE  Spared(ip)'
<1> SUFFICES MainSpares(ip)
  BY MainSparedStep
<1>1. /\ kernel \in [IPs -> Nat] /\ now \in Nat
      /\ blocks \in [IPs -> [active : BOOLEAN, expires : Nat]]
      /\ pc \in [Threads -> Label]
      /\ frame \in [Threads -> Frames]
  BY DEF AgentInv, TypeOK, TablesOK, ThreadsOK, Frames
<1>2. "main" \in Threads /\ "mqtt" \in Threads
  BY DEF Threads
<1>3. CASE CheckGuard("main")
  <2>1. ASSUME frame["main"].ip \notin guard, Goto("main", "block"), UNCHANGED frame
        PROVE  frame'["main"].ip # ip
    <3>1. SUFFICES ASSUME frame["main"].ip = ip PROVE FALSE
      BY <2>1
    <3>2. Admitting(ip)
      BY <1>3, <2>1, <3>1 DEF Spared, Running, CheckGuard
    <3>3. \A t \in Threads : ip \in Touching(t)
      BY <1>3, <3>1, <3>2 DEF Admitting, Touching, Threads, CheckGuard
    <3> QED
      BY <3>3 DEF Clean, Overlap
  <2> QED
    BY <1>1, <1>2, <1>3, <2>1
       DEF CheckGuard, MainSpares, Goto, Leave, AfterBlock, Present, store
<1>4. CASE FirewallBlock("main")
  <2>1. frame["main"].ip # ip
    BY <1>2, <1>4 DEF Spared, FirewallBlock
  <2> QED
    BY <1>1, <1>2, <1>4, <2>1
       DEF FirewallBlock, MainSpares, Goto, Leave, AfterBlock, Present, store
<1>5. CASE UpsertBlock("main")
  <2>1. frame["main"].ip # ip
    BY <1>2, <1>5 DEF Spared, UpsertBlock
  <2> QED
    BY <1>1, <1>2, <1>5, <2>1
       DEF UpsertBlock, MainSpares, Goto, Leave, AfterBlock, Present
<1>6. CASE BuildGuard("main")
  BY <1>1, <1>2, <1>6 DEF BuildGuard, MainSpares, Goto, Present, store, Frames
<1>7. CASE AssignGuard("main")
  <2>1. ip \in frame["main"].list /\ ~UnblocksOnSight(frame["main"].kind)
    BY <1>2, <1>7 DEF Spared, AssignGuard, Placed, UnblocksOnSight
  <2> QED
    BY <1>1, <1>2, <1>7, <2>1
       DEF AssignGuard, MainSpares, Goto, Leave, Present, store
<1>8. CASE ReapRule
  <2>1. kernel'[ip] = kernel[ip] \/ kernel'[ip] = 0
    BY <1>1, <1>8 DEF ReapRule, NoRule
  <2>2. Present(ip)' => Present(ip)
    BY <1>1, <1>8, <2>1 DEF ReapRule, Present
  <2> QED
    BY <1>1, <1>2, <1>8, <2>2 DEF ReapRule, MainSpares, Goto, store
<1>9. CASE ReapRow
  BY <1>1, <1>2, <1>9 DEF ReapRow, MainSpares, Goto, Present
<1>10. CASE \/ StartPump \/ NextRow \/ MarkApplied \/ PublishOk \/ PublishError
            \/ MarkPublished \/ StartExpire \/ SkipExpire \/ OwnIpChanged
            \/ OwnIpUnchanged
  BY <1>1, <1>2, <1>10 DEF StartPump, NextRow, MarkApplied, PublishOk,
     PublishError, MarkPublished, StartExpire, SkipExpire, OwnIpChanged,
     OwnIpUnchanged, MainSpares, Goto, Leave, Present, store
<1> QED
  BY <1>3, <1>4, <1>5, <1>6, <1>7, <1>8, <1>9, <1>10
     DEF MainStep, EnforceBlock, RebuildGuard

\* What a step of the handler has to keep when it is not about this address.
HandlerSpares(ip) ==
    /\ ~Admitting(ip) /\ ~Lifting(ip, {"unblock", "deactivate"})
    /\ pc["main"] # "down"
    /\ pc'["main"] = pc["main"] /\ frame'["main"] = frame["main"]
    /\ ip \in guard => ip \in guard'
    /\ Present(ip)' => Present(ip)
    /\ blocks'[ip].active => blocks[ip].active
    /\ pc'["mqtt"] = "assign" => ip \in frame'["mqtt"].list
    /\ pc'["mqtt"] \in {"block", "upsert"} => frame'["mqtt"].ip # ip

LEMMA HandlerSparedStep ==
    ASSUME NEW ip \in IPs, Spared(ip), HandlerSpares(ip)
    PROVE  Spared(ip)'
BY DEF Spared, HandlerSpares, Admitting, Lifting, Running, Threads

LEMMA HandlerSpared ==
    ASSUME AgentInv, Placed, Placed', HandlerStep, NEW ip \in IPs, Clean(ip),
           Spared(ip), ip \in allowlist
    PROVE  Spared(ip)'
<1>1. /\ kernel \in [IPs -> Nat] /\ now \in Nat
      /\ blocks \in [IPs -> [active : BOOLEAN, expires : Nat]]
      /\ pc \in [Threads -> Label]
      /\ frame \in [Threads -> Frames]
  BY DEF AgentInv, TypeOK, TablesOK, ThreadsOK, Frames
<1>2. "main" \in Threads /\ "mqtt" \in Threads
  BY DEF Threads
<1>3. CASE CheckGuard("mqtt")
  <2>1. pc["mqtt"] = "check" /\ pc["main"] # "down"
    BY <1>3 DEF CheckGuard, Placed
  <2>2. ip \in guard
    BY <2>1 DEF Spared, Running, Admitting
  <2>3. HandlerSpares(ip)
    BY <1>1, <1>2, <1>3, <2>1, <2>2 DEF CheckGuard, HandlerSpares, Goto,
       Leave, AfterBlock, Present, store, Admitting, Lifting
  <2> QED
    BY <2>3, HandlerSparedStep
<1>4. CASE FirewallBlock("mqtt")
  <2>1. pc["mqtt"] = "block" /\ pc["main"] # "down" /\ frame["mqtt"].ip # ip
    BY <1>2, <1>4 DEF FirewallBlock, Placed, Spared
  <2>2. HandlerSpares(ip)
    BY <1>1, <1>2, <1>4, <2>1 DEF FirewallBlock, HandlerSpares, Goto,
       Leave, AfterBlock, Present, store, Admitting, Lifting
  <2> QED
    BY <2>2, HandlerSparedStep
<1>5. CASE UpsertBlock("mqtt")
  <2>1. pc["mqtt"] = "upsert" /\ pc["main"] # "down" /\ frame["mqtt"].ip # ip
    BY <1>2, <1>5 DEF UpsertBlock, Placed, Spared
  <2>2. HandlerSpares(ip)
    BY <1>1, <1>2, <1>5, <2>1 DEF UpsertBlock, HandlerSpares, Goto,
       Leave, AfterBlock, Present, Admitting, Lifting
  <2> QED
    BY <2>2, HandlerSparedStep
<1>6. CASE BuildGuard("mqtt")
  <2>1. /\ pc["mqtt"] = "build" /\ pc'["mqtt"] = "assign" /\ pc["main"] # "down"
        /\ pc'["main"] = pc["main"] /\ frame'["main"] = frame["main"]
        /\ frame'["mqtt"].list = allowlist
        /\ frame'["mqtt"].kind = frame["mqtt"].kind
        /\ frame'["mqtt"].ip = frame["mqtt"].ip
        /\ UNCHANGED <<now, kernel, blocks, guard>>
    BY <1>1, <1>2, <1>6 DEF BuildGuard, Goto, Placed, store, Frames
  <2>2. CASE Admitting(ip)
    <3>1. Admitting(ip)'
      BY <2>1, <2>2 DEF Admitting
    <3> QED
      BY <2>1, <3>1 DEF Spared, Threads
  <2>3. CASE ~Admitting(ip)
    <3>1. HandlerSpares(ip)
      BY <2>1, <2>3 DEF HandlerSpares, Present, Lifting
    <3> QED
      BY <3>1, HandlerSparedStep
  <2> QED
    BY <2>2, <2>3
<1>7. CASE AssignGuard("mqtt")
  <2>1. /\ pc["mqtt"] = "assign" /\ pc["main"] # "down"
        /\ pc'["mqtt"] = IF UnblocksOnSight(frame["mqtt"].kind)
                         THEN "unblock" ELSE "idle"
        /\ pc'["main"] = pc["main"] /\ frame'["main"] = frame["main"]
        /\ UnblocksOnSight(frame["mqtt"].kind)
             => frame'["mqtt"].ip = frame["mqtt"].ip
        /\ guard' = frame["mqtt"].list /\ ip \in guard'
        /\ UNCHANGED <<now, kernel, blocks>>
    BY <1>1, <1>2, <1>7
       DEF AssignGuard, Goto, Leave, Placed, store, Frames, Spared
  <2>2. CASE Admitting(ip)
    <3>1. pc'["mqtt"] = "unblock" /\ frame'["mqtt"].ip = ip
      BY <2>1, <2>2 DEF Admitting, UnblocksOnSight
    <3> QED
      BY <2>1, <3>1 DEF Spared, Lifting, Threads
  <2>3. CASE ~Admitting(ip)
    <3>1. HandlerSpares(ip)
      BY <2>1, <2>3 DEF HandlerSpares, Present, Lifting
    <3> QED
      BY <3>1, HandlerSparedStep
  <2> QED
    BY <2>2, <2>3
<1>8. CASE NextEntry
  <2>1. /\ pc["mqtt"] = "next_entry" /\ pc["main"] # "down"
        /\ pc'["mqtt"] \in {"next_entry", "check", "idle"}
        /\ pc'["main"] = pc["main"] /\ frame'["main"] = frame["main"]
        /\ UNCHANGED <<now, kernel, blocks, guard>>
    BY <1>1, <1>2, <1>8 DEF NextEntry, Goto, Leave, Placed, store
  <2>2. HandlerSpares(ip)
    BY <2>1 DEF HandlerSpares, Present, Admitting, Lifting
  <2> QED
    BY <2>2, HandlerSparedStep
<1>9. CASE Unblock
  <2>1. /\ pc["mqtt"] = "unblock" /\ pc["main"] # "down"
        /\ pc'["mqtt"] \in {"deactivate", "next_entry"}
        /\ pc'["main"] = pc["main"] /\ frame'["main"] = frame["main"]
        /\ pc'["mqtt"] = "deactivate" => frame'["mqtt"] = frame["mqtt"]
        /\ \/ kernel' = [kernel EXCEPT ![frame["mqtt"].ip] = NoRule]
           \/ UNCHANGED kernel
        /\ UNCHANGED <<now, blocks, guard>>
    BY <1>1, <1>2, <1>9 DEF Unblock, Goto, Leave, Placed, store
  <2>2. CASE frame["mqtt"].ip = ip
    <3>1. pc'["mqtt"] = "deactivate" /\ frame'["mqtt"].ip = ip /\ kernel'[ip] = 0
      BY <2>1, <2>2 DEF Clean, UnblockFailed, UnblockMissed, NoRule
    <3>2. ~Present(ip)'
      BY <1>1, <2>1, <3>1 DEF Present
    <3>3. ip \in guard' /\ Lifting(ip, {"unblock", "deactivate"})'
      BY <2>1, <3>1 DEF Spared, Running, Admitting, Lifting
    <3> QED
      BY <2>1, <3>1, <3>2, <3>3 DEF Spared, Threads
  <2>3. CASE frame["mqtt"].ip # ip
    <3>1. HandlerSpares(ip)
      BY <1>1, <2>1, <2>3 DEF HandlerSpares, Present, Admitting, Lifting
    <3> QED
      BY <3>1, HandlerSparedStep
  <2> QED
    BY <2>2, <2>3
<1>10. CASE DeactivateBlock
  <2>1. /\ pc["mqtt"] = "deactivate" /\ pc["main"] # "down"
        /\ pc'["mqtt"] = "next_entry"
        /\ pc'["main"] = pc["main"] /\ frame'["main"] = frame["main"]
        /\ blocks' = [blocks EXCEPT ![frame["mqtt"].ip].active = FALSE]
        /\ UNCHANGED <<now, kernel, guard>>
    BY <1>1, <1>2, <1>10 DEF DeactivateBlock, Goto, Leave, Placed
  <2>2. CASE frame["mqtt"].ip = ip
    <3>1. ~blocks'[ip].active
      BY <1>1, <2>1, <2>2
    <3>2. ~Present(ip)'
      BY <2>1 DEF Spared, Present, Admitting, Lifting
    <3>3. ip \in guard'
      BY <2>1 DEF Spared, Running, Admitting
    <3> QED
      BY <2>1, <3>1, <3>2, <3>3 DEF Spared, Threads
  <2>3. CASE frame["mqtt"].ip # ip
    <3>1. HandlerSpares(ip)
      BY <1>1, <2>1, <2>3 DEF HandlerSpares, Present, Admitting, Lifting
    <3> QED
      BY <3>1, HandlerSparedStep
  <2> QED
    BY <2>2, <2>3
<1> QED
  BY <1>3, <1>4, <1>5, <1>6, <1>7, <1>8, <1>9, <1>10
     DEF HandlerStep, EnforceBlock, RebuildGuard

\* The start of a handler: only allow_add brings an address to the allowlist.
LEMMA DeliverySpared ==
    ASSUME AgentInv, Placed, Delivery, NEW ip \in IPs, Clean(ip),
           ip \in allowlist => Spared(ip), ip \in allowlist'
    PROVE  Spared(ip)'
<1>1. "main" \in Threads /\ "mqtt" \in Threads /\ Threads = {"main", "mqtt"}
  BY DEF Threads
<1>2. pc \in [Threads -> Label] /\ frame \in [Threads -> Frames]
  BY DEF AgentInv, TypeOK, ThreadsOK, Frames
<1>3. UNCHANGED <<now, kernel, blocks, guard>>
  BY DEF Delivery, EventBlock, EventUnblock, EventAllowAdd, EventAllowRemove,
     EventIpChange, EventSyncState, store
<1>4. \E label \in {"check", "unblock", "build", "next_entry"} :
         \E kind \in Kind, i \in IPs \cup {NoIP}, ttl \in Nat :
            Begin(label, kind, i, ttl)
  BY ConstantsAssumption DEF Delivery, EventBlock, EventUnblock,
     EventAllowAdd, EventAllowRemove, EventIpChange, EventSyncState, Kind
<1>5. /\ pc["mqtt"] = "idle" /\ pc["main"] # "down"
      /\ pc'["main"] = pc["main"] /\ frame'["main"] = frame["main"]
      /\ pc'["mqtt"] \in {"check", "unblock", "build", "next_entry"}
  BY <1>1, <1>2, <1>4 DEF Begin, Goto, Placed
<1>6. CASE ip \in allowlist
  <2>1. HandlerSpares(ip)
    BY <1>3, <1>5 DEF HandlerSpares, Present, Admitting, Lifting
  <2> QED
    BY <1>6, <2>1, HandlerSparedStep
<1>7. CASE ip \notin allowlist
  <2>1. EventAllowAdd(ip)
    BY <1>7 DEF Delivery, EventBlock, EventUnblock, EventAllowAdd,
       EventAllowRemove, EventIpChange, EventSyncState, store
  <2>2. /\ pc'["mqtt"] = "build"
        /\ frame'["mqtt"].kind = "allow_add" /\ frame'["mqtt"].ip = ip
    BY <1>1, <1>2, <2>1 DEF EventAllowAdd, Begin, Goto, NoFrame
  <2>3. Admitting(ip)'
    BY <2>2 DEF Admitting
  <2>4. pc'["main"] # "assign"
    BY <1>1, <2>2 DEF Clean, RebuildOverlap
  <2>5. pc'["main"] \in {"block", "upsert"} => frame'["main"].ip # ip
    <3> SUFFICES ASSUME pc'["main"] \in {"block", "upsert"}, frame'["main"].ip = ip
                 PROVE  FALSE
      OBVIOUS
    <3>1. ip \in Touching("main")'
      BY DEF Touching
    <3>2. ip \in Touching("mqtt")'
      BY <2>2 DEF Touching
    <3> QED
      BY <1>1, <3>1, <3>2 DEF Clean, Overlap
  <2> QED
    BY <1>1, <2>2, <2>3, <2>4, <2>5 DEF Spared
<1> QED
  BY <1>6, <1>7

\* The process ends while nobody works on the address.
LEMMA DeathSpared ==
    ASSUME AgentInv, Placed, Crash \/ Reboot, NEW ip \in IPs, Clean(ip),
           Spared(ip)
    PROVE  Spared(ip)'
<1>1. /\ Running /\ ~Running'
      /\ UNCHANGED <<now, blocks>>
      /\ kernel' = kernel \/ kernel' = [i \in IPs |-> NoRule]
      /\ pc' = [t \in Threads |-> "down"]
  BY DEF Crash, Reboot, Stop, Running, Threads, store
<1>2. Untouched(ip)
  BY <1>1 DEF Clean, DiedIn
<1>3. ~Admitting(ip) /\ ~Lifting(ip, {"unblock", "deactivate"})
  BY <1>2 DEF Untouched, Touching, Admitting, Lifting, Threads
<1>4. ~Present(ip) /\ ~blocks[ip].active
  BY <1>3 DEF Spared, Lifting
<1>5. ~Present(ip)'
  <2>1. now \in Nat
    BY DEF AgentInv, TypeOK, TablesOK
  <2> QED
    BY <1>1, <1>4, <2>1 DEF Present, NoRule
<1> QED
  BY <1>1, <1>4, <1>5 DEF Spared

\* The process starts: the guard is the allowlist, and reconcile leaves the
\* address alone, whose row is not active.
LEMMA StartSpared ==
    ASSUME AgentInv, Placed, NEW failed \in SUBSET IPs, Start(failed),
           NEW ip \in IPs, Spared(ip), ip \in allowlist
    PROVE  Spared(ip)'
<1>1. /\ ~Running /\ guard' = allowlist
      /\ UNCHANGED <<now, blocks>>
      /\ pc' = [main |-> "loop", mqtt |-> "idle"]
      /\ kernel' = Reconciled(failed)
  BY DEF Start, store
<1>2. pc["mqtt"] = "down"
  BY <1>1 DEF Running, Placed
<1>3. ~Present(ip) /\ ~blocks[ip].active
  BY <1>2 DEF Spared, Admitting, Lifting
<1>4. kernel'[ip] = kernel[ip]
  BY <1>1, <1>3 DEF Reconciled, Live
<1>5. ~Present(ip)' /\ ~blocks'[ip].active
  BY <1>1, <1>3, <1>4 DEF Present
<1>6. \A t \in Threads : pc'[t] \in {"loop", "idle"}
  BY <1>1 DEF Threads
<1> QED
  BY <1>1, <1>5, <1>6 DEF Spared

\* No thread moves.
LEMMA IdleSpared ==
    ASSUME AgentInv, Tick \/ \E i \in IPs : Detect(i), NEW ip \in IPs, Spared(ip)
    PROVE  Spared(ip)'
<1>1. /\ UNCHANGED <<kernel, blocks, guard, pc, frame>>
      /\ now' \in Nat /\ now' >= now /\ now \in Nat
  <2>1. now \in Nat
    BY DEF AgentInv, TypeOK, TablesOK
  <2>2. CASE Tick
    BY <2>1, <2>2 DEF Tick, store, locals
  <2>3. ASSUME NEW i \in IPs, Detect(i)
        PROVE  UNCHANGED <<now, kernel, blocks, guard, pc, frame>>
    BY <2>3 DEF Detect, locals
  <2> QED
    BY <2>1, <2>2, <2>3
<1>2. Present(ip)' => Present(ip)
  BY <1>1 DEF Present, AgentInv, TypeOK, TablesOK
<1> QED
  BY <1>1, <1>2 DEF Spared, Running, Admitting, Lifting

LEMMA ExemptAgreed ==
    ASSUME AgentInv, Placed, Placed', [Next]_vars, NEW ip \in IPs,
           exemptCause[ip] \/ ExemptIsSpared(ip)
    PROVE  exemptCause'[ip] \/ ExemptIsSpared(ip)'
<1>1. CASE UNCHANGED vars
  BY <1>1 DEF vars, store, locals, bounded, history, ExemptIsSpared, Spared,
     Overlap, RebuildOverlap, Touching, Running, Present, Admitting, Lifting
<1>2. ASSUME Next PROVE \E failed : Causes(failed)
  BY <1>2 DEF Next, MainStep, HandlerStep, EnforceBlock, RebuildGuard,
     CheckGuard, FirewallBlock, UpsertBlock, BuildGuard, AssignGuard, StartPump,
     NextRow, MarkApplied, PublishOk, PublishError, MarkPublished, StartExpire,
     SkipExpire, ReapRule, ReapRow, OwnIpChanged, OwnIpUnchanged, NextEntry,
     Unblock, DeactivateBlock, Delivery, EventBlock, EventUnblock,
     EventAllowAdd, EventAllowRemove, EventIpChange, EventSyncState,
     Environment, Detect, Tick, Crash, Reboot, Restart, Start, CauseHistory
<1>3. ASSUME Next, Clean(ip), ip \in allowlist => Spared(ip), ip \in allowlist'
      PROVE  Spared(ip)'
  <2>1. CASE Delivery
    BY <1>3, <2>1, DeliverySpared
  <2>2. ASSUME ~Delivery PROVE allowlist' = allowlist
    BY <1>3, <2>2 DEF Next, MainStep, HandlerStep, EnforceBlock, RebuildGuard,
       CheckGuard, FirewallBlock, UpsertBlock, BuildGuard, AssignGuard,
       StartPump, NextRow, MarkApplied, PublishOk, PublishError,
       MarkPublished, StartExpire, SkipExpire, ReapRule, ReapRow,
       OwnIpChanged, OwnIpUnchanged, NextEntry, Unblock, DeactivateBlock,
       Environment, Detect, Tick, Crash, Reboot, Stop, Restart, Start, store
  <2>3. CASE MainStep
    BY <1>3, <2>1, <2>2, <2>3, MainSpared
  <2>4. CASE HandlerStep
    BY <1>3, <2>1, <2>2, <2>4, HandlerSpared
  <2>5. CASE Environment
    BY <1>3, <2>1, <2>2, <2>5, IdleSpared, DeathSpared DEF Environment
  <2>6. CASE Restart
    BY <1>3, <2>1, <2>2, <2>6, StartSpared DEF Restart
  <2> QED
    BY <1>3, <2>1, <2>3, <2>4, <2>5, <2>6 DEF Next
<1>4. CASE Next
  <2>1. PICK failed : Causes(failed)
    BY <1>2, <1>4
  <2> QED
    BY <1>3, <1>4, <2>1, ExemptStep
<1> QED
  BY <1>1, <1>4

----------------------------------------------------------------------------
(* The invariant holds always, and says what the runs check.               *)

LEMMA RulesInit ==
    ASSUME Init
    PROVE  RulesInv
<1>1. Placed
  BY DEF Init, Placed, MainLabels, HandlerLabels, NoFrame, Threads
<1>2. \A t \in Threads : Touching(t) = {} /\ pc[t] \in {"loop", "idle"}
  BY DEF Init, Touching, Threads
<1>3. ASSUME NEW ip \in IPs
      PROVE  RuleIsDue(ip) /\ RowIsServed(ip) /\ ExemptIsSpared(ip)
  <2>1. ~Present(ip) /\ ~Live(ip) /\ ip \notin allowlist
    BY DEF Init, Present, Live, NoRule
  <2>2. ~Overlap(ip) /\ ~RebuildOverlap
    BY <1>2 DEF Overlap, RebuildOverlap, Threads
  <2> QED
    BY <1>2, <2>1, <2>2
       DEF RuleIsDue, RowIsServed, ExemptIsSpared, Installing, Removed
<1> QED
  BY <1>1, <1>3 DEF RulesInv, Agreed

LEMMA RulesStep ==
    ASSUME AgentInv, RulesInv, [Next]_vars
    PROVE  RulesInv'
<1>1. Placed /\ Placed'
  BY PlacedStep DEF RulesInv
<1>2. \A ip \in IPs : /\ Agreed(ip)'
                      /\ exemptCause'[ip] \/ ExemptIsSpared(ip)'
  BY <1>1, AgreedStep, ExemptAgreed DEF RulesInv
<1> QED
  BY <1>1, <1>2 DEF RulesInv

\* What RulesInv says of the addresses nobody works on.
LEMMA RulesAgree ==
    ASSUME AgentInv, RulesInv
    PROVE  RuleHasRow /\ RowHasRule /\ RuleEndsWithRow /\ AllowlistedNotEnforced
<1>1. ASSUME NEW ip \in IPs, Untouched(ip)
      PROVE  /\ \A t \in Threads : ~Installing(t, ip) /\ ~Removed(t, ip)
             /\ ~Admitting(ip) /\ ~Lifting(ip, {"unblock"})
  <2>1. ~Admitting(ip) /\ ~Lifting(ip, {"unblock"})
    BY <1>1 DEF Untouched, Touching, Admitting, Lifting, Threads
  <2> QED
    BY <1>1, <2>1, Unattended DEF RulesInv
<1>2. ASSUME NEW ip \in IPs, Present(ip), Untouched(ip), ~leakCause[ip]
      PROVE  /\ blocks[ip].active
             /\ backend = "ipset" => kernel[ip] <= blocks[ip].expires
  BY <1>1, <1>2 DEF RulesInv, Agreed, RuleIsDue
<1>3. RuleHasRow
  BY <1>2 DEF RuleHasRow
<1>4. RuleEndsWithRow
  BY <1>2 DEF RuleEndsWithRow
<1>5. RowHasRule
  BY <1>1 DEF RowHasRule, RulesInv, Agreed, RowIsServed
<1>6. AllowlistedNotEnforced
  <2>1. allowlist \subseteq IPs
    BY DEF AgentInv, TypeOK, TablesOK
  <2> QED
    BY <1>1, <2>1 DEF AllowlistedNotEnforced, RulesInv, ExemptIsSpared, Spared
<1> QED
  BY <1>3, <1>4, <1>5, <1>6

\* The agreement of kernel, table and allowlist, and the places of the threads
\* it rests on, hold in every reachable state.
THEOREM RulesInvariance == Spec => []RulesInv
<1>1. Init => RulesInv
  BY RulesInit
<1>2. AgentInv /\ RulesInv /\ [Next]_vars => RulesInv'
  BY RulesStep
<1> QED
  BY <1>1, <1>2, AgentInvariance, PTL DEF Spec

\* No kernel rule is left behind by any interleaving of the two threads, by
\* restarts or by failing commands, but for the recorded causes.
THEOREM RuleHasRowHolds == Spec => []RuleHasRow
<1>1. AgentInv /\ RulesInv => RuleHasRow
  BY RulesAgree
<1> QED
  BY <1>1, AgentInvariance, RulesInvariance, PTL

\* The table never promises a block that the kernel lacks, but for the
\* recorded causes; a restart repairs what was lost before it.
THEOREM RowHasRuleHolds == Spec => []RowHasRule
<1>1. AgentInv /\ RulesInv => RowHasRule
  BY RulesAgree
<1> QED
  BY <1>1, AgentInvariance, RulesInvariance, PTL

\* With kernel timeouts no address stays blocked longer than its row says,
\* for every ttl, default and IPSET_MAX_TIMEOUT.
THEOREM RuleEndsWithRowHolds == Spec => []RuleEndsWithRow
<1>1. AgentInv /\ RulesInv => RuleEndsWithRow
  BY RulesAgree
<1> QED
  BY <1>1, AgentInvariance, RulesInvariance, PTL

\* An address of the allowlist has no rule once the handler of allow_add is
\* done with it, but for the recorded causes.
THEOREM AllowlistedNotEnforcedHolds == Spec => []AllowlistedNotEnforced
<1>1. AgentInv /\ RulesInv => AllowlistedNotEnforced
  BY RulesAgree
<1> QED
  BY <1>1, AgentInvariance, RulesInvariance, PTL

=============================================================================
