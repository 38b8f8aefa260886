----------------------------- MODULE AgentNode -----------------------------
(***************************************************************************)
(* One auth-monitor v5 node: the agent daemon (agent/agent.py) with its    *)
(* SQLite state (authmon/state.py), the kernel rules it owns               *)
(* (authmon/firewall.py) and the detector that feeds its outbox            *)
(* (detector/detect.py).                                                   *)
(*                                                                         *)
(* The agent has two threads.  "main" runs the periodic loop (pump_outbox, *)
(* expire_blocks, _check_own_ip); "mqtt" is paho's network thread, which   *)
(* runs handle_event.  db_lock is held for one statement group at a time   *)
(* and never across a firewall call, and self.guard is replaced without a  *)
(* lock, so an action below is one such statement group, one firewall      *)
(* call or one read or assignment of self.guard.                           *)
(*                                                                         *)
(* Left to other modules: which messages pass validation and dedupe        *)
(* (ReplayGuard: here every delivered event is a fresh one, already        *)
(* marked seen) and the peer-address table that the guard also contains    *)
(* (PeerIps).  The limiter's answer is arbitrary.                          *)
(***************************************************************************)
EXTENDS Integers, Sequences, FiniteSets

CONSTANTS
    IPs,           \* public addresses that no configured list exempts
    NoIP,          \* the frame of a thread that works on no address
    Backends,      \* the firewall backends to consider
    DefaultTtl,    \* enforcement.default_ttl_seconds
    EventTtls,     \* the ttl fields grid events carry (0: absent)
    IpsetMax,      \* IPSET_MAX_TIMEOUT
    PumpLimit,     \* rows one outbox_pending query returns
    FirewallFails, \* may an ipset/iptables command fail?
    MaxTime,       \* bound on the clock
    MaxRows,       \* bound on detections
    MaxCrashes,    \* bound on crashes and reboots
    MaxIpChanges   \* bound on changes of the node's own address

ASSUME ConstantsAssumption ==
    /\ IsFiniteSet(IPs) /\ NoIP \notin IPs
    /\ Backends \subseteq {"ipset", "iptables"}
    /\ DefaultTtl \in Nat \ {0}
    /\ EventTtls \subseteq Nat
    /\ IpsetMax \in Nat \ {0}
    /\ PumpLimit \in Nat \ {0}
    /\ FirewallFails \in BOOLEAN
    /\ {MaxTime, MaxRows, MaxCrashes, MaxIpChanges} \subseteq Nat

VARIABLES
    backend,    \* what Firewall.__init__ settled on
    now,        \* the node's clock
    blocks,     \* table blocks: ip -> [active, expires]
    allowlist,  \* table allowlist
    outbox,     \* table outbox: rows [ip, applied, published], by id
    kernel,     \* ip -> NoRule, or the instant the kernel rule ends
    guard,      \* the allowlist part of self.guard, in memory
    pc,         \* where each thread is
    frame,      \* each thread's locals
    todo,       \* main: what is left of the list it read (row ids or IPs)
    entries,    \* mqtt: the sync_state entries not processed yet
    startedAt,  \* mqtt: the `now` that the sync_state handler read
    sent,       \* outbox ids the broker has received
    crashes, ipChanges,         \* how much of their bounds is used
    leakCause, missCause, exemptCause
                \* history: per ip, what may have separated kernel, table
                \* and allowlist (see CauseHistory)

store == <<blocks, allowlist, outbox>>
locals == <<pc, frame, todo, entries, startedAt>>
bounded == <<backend, crashes, ipChanges>>
history == <<leakCause, missCause, exemptCause>>
vars == <<now, store, kernel, guard, locals, sent, bounded, history>>

Threads == {"main", "mqtt"}
NoRule == 0
Forever == MaxTime + 1      \* the end of a rule without kernel timeout
NoFrame == [ip |-> NoIP, ttl |-> 0, kind |-> "none", list |-> {}]

\* `ttl if ttl and ttl > 0 else self.default_ttl`
EffectiveTtl(ttl) == IF ttl > 0 THEN ttl ELSE DefaultTtl

Lower(a, b) == IF a < b THEN a ELSE b

\* Mutant: the kernel timeout forgets the requested ttl.
RuleEnd_always_max(ttl) == IF backend = "ipset" THEN now + IpsetMax
                                                ELSE Forever

\* When the rule that Firewall.block installs at this instant ends: ipset
\* gives it a timeout of at most IPSET_MAX_TIMEOUT, iptables none.
RuleEnd(ttl) == IF backend = "ipset"
                THEN now + Lower(ttl, IpsetMax)
                ELSE Forever

Present(ip) == kernel[ip] > now
Live(ip) == blocks[ip].active /\ blocks[ip].expires > now

\* The addresses that list_expired_blocks returns.
Expired == {ip \in IPs : blocks[ip].active /\ blocks[ip].expires <= now}

\* The addresses a thread has started to change and not finished with.
Touching(t) ==
    IF pc[t] \in {"check", "block", "upsert", "unblock", "deactivate"}
    THEN {frame[t].ip} \cap IPs
    ELSE IF pc[t] \in {"reap", "reaped"}
    THEN {todo[i] : i \in DOMAIN todo}
    ELSE IF pc[t] \in {"build", "assign"} /\ frame[t].kind = "allow_add"
    THEN {frame[t].ip}
    ELSE {}

Untouched(ip) == \A t \in Threads : ip \notin Touching(t)
Running == pc["main"] # "down"

----------------------------------------------------------------------------
(* History variables.  For each address they record the only events after  *)
(* which the properties below allow a disagreement:                        *)
(*   - both threads were changing the address at the same time;            *)
(*   - the process died while a thread was changing it;                    *)
(*   - a firewall command on it failed where the code goes on regardless.  *)

Overlap(ip) == \A t \in Threads : ip \in Touching(t)

\* main assigns a guard it read before an allowlist change of mqtt.
RebuildOverlap == \A t \in Threads : pc[t] \in {"build", "assign"}

DiedIn(ip) == Running /\ ~Running' /\ ~Untouched(ip)
Rebooted == Running /\ ~Running' /\ kernel' # kernel
Started == ~Running /\ Running'
ReapFailed(ip) == /\ pc["main"] = "reap" /\ pc'["main"] = "reaped"
                  /\ Head(todo) = ip /\ kernel'[ip] # NoRule
UnblockMissed(ip) == /\ pc["mqtt"] = "unblock" /\ pc'["mqtt"] = "deactivate"
                     /\ frame["mqtt"].ip = ip /\ kernel'[ip] # NoRule
UnblockFailed(ip) == \/ UnblockMissed(ip)
                     \/ /\ pc["mqtt"] = "unblock" /\ pc'["mqtt"] = "next_entry"
                        /\ frame["mqtt"].ip = ip

\* failed: the addresses whose command failed in the startup reconcile.
Causes(failed) ==
    /\ leakCause' = [ip \in IPs |->
          \/ leakCause[ip] /\ ~Rebooted
          \/ Overlap(ip)' \/ ReapFailed(ip) \/ UnblockMissed(ip)
          \/ DiedIn(ip) /\ ~Rebooted]
    /\ missCause' = [ip \in IPs |->
          \/ missCause[ip] /\ ~Started
          \/ Overlap(ip)'
          \/ ip \in failed]
    /\ exemptCause' = [ip \in IPs |->
          \/ exemptCause[ip] \/ Overlap(ip)' \/ RebuildOverlap'
          \/ DiedIn(ip) \/ UnblockFailed(ip)]

CauseHistory == Causes({})

----------------------------------------------------------------------------
(* enforce_block, on either thread: Guard.check and the limiter, then the  *)
(* firewall command, then the row.  The caller resumes at AfterBlock.      *)

AfterBlock(t) == IF t = "main" THEN "mark_applied" ELSE "next_entry"

Goto(t, label) == pc' = [pc EXCEPT ![t] = label]
Leave(t, label) ==
    /\ Goto(t, label)
    /\ frame' = [frame EXCEPT ![t] = NoFrame]

CheckGuard(t) ==
    /\ pc[t] = "check"
    /\ \/ /\ frame[t].ip \notin guard
          /\ Goto(t, "block")
          /\ UNCHANGED frame
       \/ \* refused by the guard, or "rate_limited"
          Leave(t, AfterBlock(t))
    /\ UNCHANGED <<now, store, kernel, guard, todo, entries, startedAt,
                   sent, bounded>>
    /\ CauseHistory

FirewallBlock(t) ==
    /\ pc[t] = "block"
    /\ \/ /\ kernel' = [kernel EXCEPT ![frame[t].ip] =
                            RuleEnd(EffectiveTtl(frame[t].ttl))]
          /\ Goto(t, "upsert")
          /\ UNCHANGED frame
       \/ /\ FirewallFails
          /\ Leave(t, AfterBlock(t))
          /\ UNCHANGED kernel
    /\ UNCHANGED <<now, store, guard, todo, entries, startedAt, sent, bounded>>
    /\ CauseHistory

\* Mutant: ON CONFLICT does not set active.
NewRow_keeps_active(ip, ttl) == [blocks[ip] EXCEPT !.expires = now + ttl]

\* What upsert_block leaves in the row.
NewRow(ip, ttl) == [active |-> TRUE, expires |-> now + ttl]

UpsertBlock(t) ==
    /\ pc[t] = "upsert"
    /\ blocks' = [blocks EXCEPT ![frame[t].ip] =
                     NewRow(frame[t].ip, EffectiveTtl(frame[t].ttl))]
    /\ Leave(t, AfterBlock(t))
    /\ UNCHANGED <<now, allowlist, outbox, kernel, guard, todo, entries,
                   startedAt, sent, bounded>>
    /\ CauseHistory

----------------------------------------------------------------------------
(* pump_outbox, main thread.                                               *)

\* Mutant: a row already applied is not pending any more.
Pending_unapplied == {i \in DOMAIN outbox : ~outbox[i].applied}

Pending == {i \in DOMAIN outbox : ~outbox[i].published}

\* The query: unpublished rows in the order of their ids, at most PumpLimit.
Page == {i \in Pending : Cardinality({j \in Pending : j < i}) < PumpLimit}

\* The sequences that list a finite set, each element once.
Listings(S) == {s \in [1..Cardinality(S) -> S] :
                   \A x \in S : \E i \in DOMAIN s : s[i] = x}

StartPump ==
    /\ pc["main"] = "loop"
    /\ todo' \in {s \in Listings(Page) :
                     \A i, j \in DOMAIN s : i < j => s[i] < s[j]}
    /\ Goto("main", "row")
    /\ UNCHANGED <<now, store, kernel, guard, frame, entries, startedAt,
                   sent, bounded>>
    /\ CauseHistory

\* Mutant: publish first, enforce only what a failed publish leaves behind.
NextRow_grid_first ==
    /\ pc["main"] = "row"
    /\ Leave("main", IF todo = <<>> THEN "periodic" ELSE "publish")
    /\ UNCHANGED <<now, store, kernel, guard, todo, entries, startedAt,
                   sent, bounded>>
    /\ CauseHistory

\* The head of the page: enforced unless an earlier cycle did.  The detector, the
\* only one to fill the outbox, queues blocks only.
NextRow ==
    /\ pc["main"] = "row"
    /\ IF todo = <<>>
       THEN Leave("main", "periodic")
       ELSE LET row == outbox[Head(todo)] IN
            IF row.applied
            THEN Leave("main", "publish")
            ELSE /\ Goto("main", "check")
                 /\ frame' = [frame EXCEPT !["main"] =
                                 [NoFrame EXCEPT !.ip = row.ip]]
    /\ UNCHANGED <<now, store, kernel, guard, todo, entries, startedAt,
                   sent, bounded>>
    /\ CauseHistory

\* Whatever enforce_block answered.
MarkApplied ==
    /\ pc["main"] = "mark_applied"
    /\ outbox' = [outbox EXCEPT ![Head(todo)].applied = TRUE]
    /\ Goto("main", "publish")
    /\ UNCHANGED <<now, blocks, allowlist, kernel, guard, frame, todo,
                   entries, startedAt, sent, bounded>>
    /\ CauseHistory

\* publish_signed: acknowledged by the broker.
PublishOk ==
    /\ pc["main"] = "publish"
    /\ sent' = sent \cup {Head(todo)}
    /\ Goto("main", "mark_published")
    /\ UNCHANGED <<now, store, kernel, guard, frame, todo, entries,
                   startedAt, bounded>>
    /\ CauseHistory

\* Mutant: the loop goes on to the next row.
PublishError_no_break ==
    /\ pc["main"] = "publish"
    /\ sent' \in {sent, sent \cup {Head(todo)}}
    /\ todo' = Tail(todo)
    /\ Goto("main", "row")
    /\ UNCHANGED <<now, store, kernel, guard, frame, entries, startedAt,
                   bounded>>
    /\ CauseHistory

\* publish_signed: an error.  The message may be lost, or still be in the
\* client's queue and reach the broker; the page is abandoned either way.
PublishError ==
    /\ pc["main"] = "publish"
    /\ sent' \in {sent, sent \cup {Head(todo)}}
    /\ todo' = <<>>
    /\ Goto("main", "periodic")
    /\ UNCHANGED <<now, store, kernel, guard, frame, entries, startedAt,
                   bounded>>
    /\ CauseHistory

MarkPublished ==
    /\ pc["main"] = "mark_published"
    /\ outbox' = [outbox EXCEPT ![Head(todo)].published = TRUE]
    /\ todo' = Tail(todo)
    /\ Goto("main", "row")
    /\ UNCHANGED <<now, blocks, allowlist, kernel, guard, frame, entries,
                   startedAt, sent, bounded>>
    /\ CauseHistory

----------------------------------------------------------------------------
(* expire_blocks, main thread: the list is read once, then each address    *)
(* loses its kernel rule and its row, the row even if the command failed.  *)

StartExpire ==
    /\ pc["main"] = "periodic"
    /\ todo' \in Listings(Expired)
    /\ Goto("main", "reap")
    /\ UNCHANGED <<now, store, kernel, guard, frame, entries, startedAt,
                   sent, bounded>>
    /\ CauseHistory

\* Less than 30 s since the last expire_blocks.
SkipExpire ==
    /\ pc["main"] = "periodic"
    /\ Goto("main", "own_ip")
    /\ UNCHANGED <<now, store, kernel, guard, frame, todo, entries,
                   startedAt, sent, bounded>>
    /\ CauseHistory

ReapRule ==
    /\ pc["main"] = "reap"
    /\ IF todo = <<>>
       THEN Goto("main", "own_ip") /\ UNCHANGED kernel
       ELSE /\ Goto("main", "reaped")
            /\ \/ kernel' = [kernel EXCEPT ![Head(todo)] = NoRule]
               \/ FirewallFails /\ UNCHANGED kernel
    /\ UNCHANGED <<now, store, guard, frame, todo, entries, startedAt,
                   sent, bounded>>
    /\ CauseHistory

\* Mutant: the row is left as it is.
ReapRow_forgets ==
    /\ pc["main"] = "reaped"
    /\ todo' = Tail(todo)
    /\ Goto("main", "reap")
    /\ UNCHANGED <<now, store, kernel, guard, frame, entries, startedAt,
                   sent, bounded>>
    /\ CauseHistory

ReapRow ==
    /\ pc["main"] = "reaped"
    /\ blocks' = [blocks EXCEPT ![Head(todo)].active = FALSE]
    /\ todo' = Tail(todo)
    /\ Goto("main", "reap")
    /\ UNCHANGED <<now, allowlist, outbox, kernel, guard, frame, entries,
                   startedAt, sent, bounded>>
    /\ CauseHistory

----------------------------------------------------------------------------
(* Rebuilding self.guard: _build_guard reads the table under db_lock, the  *)
(* caller assigns the result.  mqtt does it for allow_add, allow_remove    *)
(* and ip_change, main (_check_own_ip) when the node's own address is new. *)

OwnIpChanged ==
    /\ pc["main"] = "own_ip"
    /\ ipChanges < MaxIpChanges
    /\ ipChanges' = ipChanges + 1
    /\ Goto("main", "build")
    /\ UNCHANGED <<now, store, kernel, guard, frame, todo, entries,
                   startedAt, sent, backend, crashes>>
    /\ CauseHistory

\* Not due, or the address is the one in the table.
OwnIpUnchanged ==
    /\ pc["main"] = "own_ip"
    /\ Goto("main", "loop")
    /\ UNCHANGED <<now, store, kernel, guard, frame, todo, entries,
                   startedAt, sent, bounded>>
    /\ CauseHistory

BuildGuard(t) ==
    /\ pc[t] = "build"
    /\ frame' = [frame EXCEPT ![t].list = allowlist]
    /\ Goto(t, "assign")
    /\ UNCHANGED <<now, store, kernel, guard, todo, entries, startedAt,
                   sent, bounded>>
    /\ CauseHistory

\* Mutant: no handler goes on to enforce_unblock.
UnblocksOnSight_never(kind) == FALSE

\* Only allow_add's handler goes on to enforce_unblock.
UnblocksOnSight(kind) == kind = "allow_add"

AssignGuard(t) ==
    /\ pc[t] = "assign"
    /\ guard' = frame[t].list
    /\ IF UnblocksOnSight(frame[t].kind)
       THEN Goto(t, "unblock") /\ frame' = [frame EXCEPT ![t].list = {}]
       ELSE Leave(t, IF t = "main" THEN "loop" ELSE "idle")
    /\ UNCHANGED <<now, store, kernel, todo, entries, startedAt, sent,
                   bounded>>
    /\ CauseHistory

----------------------------------------------------------------------------
(* handle_event, mqtt thread, for an event that passed validation and is   *)
(* marked seen.                                                            *)

Begin(label, kind, ip, ttl) ==
    /\ pc["mqtt"] = "idle"
    /\ Goto("mqtt", label)
    /\ frame' = [frame EXCEPT !["mqtt"] =
                    [NoFrame EXCEPT !.kind = kind, !.ip = ip, !.ttl = ttl]]

EventBlock(ip, ttl) ==
    /\ Begin("check", "block", ip, ttl)
    /\ UNCHANGED <<now, store, kernel, guard, todo, entries, startedAt,
                   sent, bounded>>
    /\ CauseHistory

EventUnblock(ip) ==
    /\ Begin("unblock", "unblock", ip, 0)
    /\ UNCHANGED <<now, store, kernel, guard, todo, entries, startedAt,
                   sent, bounded>>
    /\ CauseHistory

EventAllowAdd(ip) ==
    /\ Begin("build", "allow_add", ip, 0)
    /\ allowlist' = allowlist \cup {ip}
    /\ UNCHANGED <<now, blocks, outbox, kernel, guard, todo, entries,
                   startedAt, sent, bounded>>
    /\ CauseHistory

EventAllowRemove(ip) ==
    /\ Begin("build", "allow_remove", ip, 0)
    /\ allowlist' = allowlist \ {ip}
    /\ UNCHANGED <<now, blocks, outbox, kernel, guard, todo, entries,
                   startedAt, sent, bounded>>
    /\ CauseHistory

\* _handle_ip_change: the peer table is PeerIps', the guard is this node's.
EventIpChange ==
    /\ Begin("build", "ip_change", NoIP, 0)
    /\ UNCHANGED <<now, store, kernel, guard, todo, entries, startedAt,
                   sent, bounded>>
    /\ CauseHistory

\* A peer's snapshot of its live blocks, sorted by address (here: a
\* sequence without repetitions); its expiry instants are the peer's.
SyncLists ==
    {s \in UNION {[1..n -> [ip : IPs, expires : 1..MaxTime]]
                     : n \in 1..Cardinality(IPs)} :
        \A i, j \in DOMAIN s : i # j => s[i].ip # s[j].ip}

EventSyncState(list) ==
    /\ Begin("next_entry", "sync_state", NoIP, 0)
    /\ entries' = list
    /\ startedAt' = now
    /\ UNCHANGED <<now, store, kernel, guard, todo, sent, bounded>>
    /\ CauseHistory

\* Mutant: no check that time remains.
StillAhead_always(e) == TRUE

\* `remaining > 0`, against the clock as the handler read it.
StillAhead(e) == e.expires > startedAt

\* Skips an entry that was over when the handler started, or whose address
\* has an active row; the handler ends after the last one.
NextEntry ==
    /\ pc["mqtt"] = "next_entry"
    /\ IF entries = <<>>
       THEN /\ Leave("mqtt", "idle")
            /\ startedAt' = 0
            /\ UNCHANGED entries
       ELSE LET e == Head(entries) IN
            /\ entries' = Tail(entries)
            /\ UNCHANGED startedAt
            /\ IF StillAhead(e) /\ ~blocks[e.ip].active
               THEN /\ Goto("mqtt", "check")
                    /\ frame' = [frame EXCEPT !["mqtt"] =
                                   [NoFrame EXCEPT !.ip = e.ip,
                                       !.ttl = e.expires - startedAt]]
               ELSE UNCHANGED <<pc, frame>>
    /\ UNCHANGED <<now, store, kernel, guard, todo, sent, bounded>>
    /\ CauseHistory

\* enforce_unblock: the row is kept when the command failed, but with
\* iptables a failing -C command reads as "no such rule", a success.
Unblock ==
    /\ pc["mqtt"] = "unblock"
    /\ \/ /\ \/ kernel' = [kernel EXCEPT ![frame["mqtt"].ip] = NoRule]
             \/ FirewallFails /\ backend = "iptables" /\ UNCHANGED kernel
          /\ Goto("mqtt", "deactivate")
          /\ UNCHANGED frame
       \/ /\ FirewallFails
          /\ Leave("mqtt", "next_entry")
          /\ UNCHANGED kernel
    /\ UNCHANGED <<now, store, guard, todo, entries, startedAt, sent, bounded>>
    /\ CauseHistory

DeactivateBlock ==
    /\ pc["mqtt"] = "deactivate"
    /\ blocks' = [blocks EXCEPT ![frame["mqtt"].ip].active = FALSE]
    /\ Leave("mqtt", "next_entry")
    /\ UNCHANGED <<now, allowlist, outbox, kernel, guard, todo, entries,
                   startedAt, sent, bounded>>
    /\ CauseHistory

----------------------------------------------------------------------------
(* The detector, the clock, crashes and the start of the daemon.           *)

\* Detector.run: an offender without active row becomes an outbox row.  The
\* query and the insert are two transactions; a block that slips between
\* them leaves what a detection just before that block leaves.
Detect(ip) ==
    /\ Len(outbox) < MaxRows
    /\ ~blocks[ip].active
    /\ outbox' = Append(outbox, [ip |-> ip, applied |-> FALSE,
                                 published |-> FALSE])
    /\ UNCHANGED <<now, blocks, allowlist, kernel, guard, locals, sent,
                   bounded>>
    /\ CauseHistory

Tick ==
    /\ now < MaxTime
    /\ now' = now + 1
    /\ UNCHANGED <<store, kernel, guard, locals, sent, bounded>>
    /\ CauseHistory

\* The process dies between any two steps; a reboot loses the rules too.
Stop ==
    /\ Running
    /\ crashes < MaxCrashes
    /\ crashes' = crashes + 1
    /\ pc' = [t \in Threads |-> "down"]
    /\ frame' = [t \in Threads |-> NoFrame]
    /\ todo' = <<>>
    /\ entries' = <<>>
    /\ startedAt' = 0
    /\ UNCHANGED <<backend, now, store, guard, sent, ipChanges>>

Crash == Stop /\ UNCHANGED kernel /\ CauseHistory
Reboot == Stop /\ kernel' = [ip \in IPs |-> NoRule] /\ CauseHistory

\* Mutant: no reconcile.
Reconciled_not(failed) == kernel

\* Firewall.reconcile re-adds every live row; the commands in failed fail.
Reconciled(failed) ==
    [ip \in IPs |-> IF Live(ip) /\ ip \notin failed
                    THEN RuleEnd(blocks[ip].expires - now)
                    ELSE kernel[ip]]

\* Agent.__init__ and run up to the loop: the guard from the table, then
\* reconcile, which asks no guard.
Start(failed) ==
    /\ ~Running
    /\ FirewallFails \/ failed = {}
    /\ guard' = allowlist
    /\ kernel' = Reconciled(failed)
    /\ pc' = [main |-> "loop", mqtt |-> "idle"]
    /\ UNCHANGED <<now, store, frame, todo, entries, startedAt, sent, bounded>>
    /\ Causes(failed)

----------------------------------------------------------------------------
Init ==
    /\ backend \in Backends
    /\ now = 0
    /\ blocks = [ip \in IPs |-> [active |-> FALSE, expires |-> 0]]
    /\ allowlist = {}
    /\ outbox = <<>>
    /\ kernel = [ip \in IPs |-> NoRule]
    /\ guard = {}
    /\ pc = [main |-> "loop", mqtt |-> "idle"]
    /\ frame = [t \in Threads |-> NoFrame]
    /\ todo = <<>>
    /\ entries = <<>>
    /\ startedAt = 0
    /\ sent = {}
    /\ crashes = 0
    /\ ipChanges = 0
    /\ leakCause = [ip \in IPs |-> FALSE]
    /\ missCause = [ip \in IPs |-> FALSE]
    /\ exemptCause = [ip \in IPs |-> FALSE]

EnforceBlock(t) == CheckGuard(t) \/ FirewallBlock(t) \/ UpsertBlock(t)
RebuildGuard(t) == BuildGuard(t) \/ AssignGuard(t)

MainStep ==
    \/ EnforceBlock("main") \/ RebuildGuard("main")
    \/ StartPump \/ NextRow \/ MarkApplied
    \/ PublishOk \/ PublishError \/ MarkPublished
    \/ StartExpire \/ SkipExpire \/ ReapRule \/ ReapRow
    \/ OwnIpChanged \/ OwnIpUnchanged

HandlerStep ==
    \/ EnforceBlock("mqtt") \/ RebuildGuard("mqtt")
    \/ NextEntry \/ Unblock \/ DeactivateBlock

Delivery ==
    \/ \E ip \in IPs :
          \/ \E ttl \in EventTtls : EventBlock(ip, ttl)
          \/ EventUnblock(ip)
          \/ EventAllowAdd(ip)
          \/ EventAllowRemove(ip)
    \/ EventIpChange
    \/ \E list \in SyncLists : EventSyncState(list)

Environment ==
    \/ \E ip \in IPs : Detect(ip)
    \/ Tick
    \/ Crash \/ Reboot

Restart == \E failed \in SUBSET IPs : Start(failed)

Next == MainStep \/ HandlerStep \/ Delivery \/ Environment \/ Restart

Spec == Init /\ [][Next]_vars

\* The periodic loop and paho's thread keep running (systemd restarts the
\* daemon, Restart=always); expire_blocks comes due in every 30 s.
Fairness ==
    /\ WF_vars(MainStep)
    /\ WF_vars(HandlerStep)
    /\ WF_vars(Restart)
    /\ SF_vars(StartExpire)

\* A broker that can be reached again and again.
BrokerFairness == SF_vars(PublishOk)

FairSpec == Spec /\ Fairness
OnlineSpec == FairSpec /\ BrokerFairness

----------------------------------------------------------------------------
\* Types of all variables.
Label == {"loop", "row", "mark_applied", "publish", "mark_published",
          "periodic", "reap", "reaped", "own_ip", "idle", "next_entry",
          "check",
          "block", "upsert", "unblock", "deactivate", "build", "assign",
          "down"}
Kind == {"none", "block", "unblock", "allow_add", "allow_remove",
         "ip_change", "sync_state"}

TablesOK ==
    /\ backend \in Backends
    /\ now \in 0..MaxTime
    /\ blocks \in [IPs -> [active : BOOLEAN, expires : Nat]]
    /\ allowlist \subseteq IPs /\ guard \subseteq IPs
    /\ outbox \in Seq([ip : IPs, applied : BOOLEAN, published : BOOLEAN])
    /\ kernel \in [IPs -> Nat]
    /\ sent \subseteq DOMAIN outbox
    /\ crashes \in 0..MaxCrashes /\ ipChanges \in 0..MaxIpChanges

ThreadsOK ==
    /\ pc \in [Threads -> Label]
    /\ frame \in [Threads -> [ip : IPs \cup {NoIP}, ttl : Nat, kind : Kind,
                              list : SUBSET IPs]]

SyncOK ==
    /\ entries \in Seq([ip : IPs, expires : Nat])
    /\ startedAt \in 0..MaxTime

\* The list of main holds addresses while it expires blocks, else rows.
TodoOK ==
    IF pc["main"] \in {"reap", "reaped"} THEN todo \in Seq(IPs)
                                        ELSE todo \in Seq(DOMAIN outbox)

HistoryOK == {leakCause, missCause, exemptCause} \subseteq [IPs -> BOOLEAN]

TypeOK == TablesOK /\ ThreadsOK /\ SyncOK /\ TodoOK /\ HistoryOK

\* No rule is left behind: a kernel rule nobody is working on has an active
\* row, so that expire_blocks will remove it (firewall.py:82-83), unless one
\* of the recorded causes struck the address since the last reboot.
RuleHasRow ==
    \A ip \in IPs : Present(ip) /\ Untouched(ip)
                     => blocks[ip].active \/ leakCause[ip]

\* The table does not promise a block the kernel lacks: a live row of the
\* running agent was given its rule (whose kernel timeout, never longer than
\* IPSET_MAX_TIMEOUT, may have ended it by itself),
\* unless the threads overlapped on it since the last start, whose
\* reconcile (agent.py:406-408) repairs every other loss.
RowHasRule ==
    \A ip \in IPs : Running /\ Live(ip) /\ Untouched(ip)
                     => kernel[ip] # NoRule \/ missCause[ip]

\* With kernel timeouts no address stays blocked longer than its row says:
\* the rule of a row ends with it or before it, through re-blocks with other
\* ttls, restarts and IPSET_MAX_TIMEOUT, unless a recorded cause struck.
RuleEndsWithRow ==
    backend = "ipset" =>
        \A ip \in IPs : Present(ip) /\ Untouched(ip) /\ ~leakCause[ip]
                         => kernel[ip] <= blocks[ip].expires

\* An allowlisted address is not blocked once allow_add's handler is done
\* (agent.py:258-265), unless a recorded cause struck it.
AllowlistedNotEnforced ==
    \A ip \in allowlist : Running /\ Present(ip) /\ Untouched(ip)
                           => exemptCause[ip]

\* Local-first: nothing is announced to the grid before this node tried to
\* enforce it (agent.py:341-350), whatever crashed in between.
AppliedBeforeSent == \A i \in sent : outbox[i].applied

\* The feed has no gaps: what is marked published was handed to the broker,
\* and detections reach it in the order they were made, through publish
\* errors, late deliveries and crashes (agent.py:358-363).
FeedHasNoGap ==
    /\ \A i \in DOMAIN outbox : outbox[i].published => i \in sent
    /\ \A i \in sent, j \in DOMAIN outbox : j < i => j \in sent

\* Where pump_outbox is in its page.
AtRow == pc["main"] \in {"check", "block", "upsert", "mark_applied",
                         "publish", "mark_published"}
Pumping == pc["main"] = "row" \/ AtRow

\* The rows below any row of the page are published or come before it on
\* the page, whatever the detector appends meanwhile.
PageHasNoGap ==
    \A k \in DOMAIN todo : \A j \in 1..(todo[k] - 1) :
        outbox[j].published \/ \E l \in 1..(k - 1) : todo[l] = j

\* What makes the two properties of the feed inductive: how far the row at
\* the head of the page got.
FeedInv ==
    /\ AtRow \/ pc["main"] = "reaped" => todo # <<>>
    /\ Pumping => PageHasNoGap
    /\ pc["main"] \in {"publish", "mark_published"}
          => outbox[Head(todo)].applied
    /\ pc["main"] = "mark_published" => Head(todo) \in sent
    /\ AppliedBeforeSent
    /\ FeedHasNoGap

\* At least once: with a broker that keeps coming back, every detection is
\* eventually published (agent.py docstring, "at-least-once").
DetectionReachesGrid ==
    \A i \in 1..MaxRows :
        (i \in DOMAIN outbox) ~> (i \in DOMAIN outbox /\ outbox[i].published)

\* An expired block is eventually lifted or renewed (expire_blocks).
ExpiredBlockEnds == \A ip \in IPs : (ip \in Expired) ~> (ip \notin Expired)

\* agent.py:5, "local-first: works with broker down": every detection is
\* eventually tried on the local firewall, without help from the broker.
LocalFirst ==
    \A i \in 1..MaxRows :
        (i \in DOMAIN outbox) ~> (i \in DOMAIN outbox /\ outbox[i].applied)
=============================================================================
